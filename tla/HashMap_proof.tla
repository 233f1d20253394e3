---------------------------- MODULE HashMap_proof ----------------------------
(***************************************************************************)
(* Proofs about the hash map of value_map.c: for every set of keys and     *)
(* values, every hash function and every initial capacity, the table is    *)
(* sound at every step (Spec => []TableSound) and to the program it is a   *)
(* finite map (Spec => IsFiniteMap).                                       *)
(*                                                                         *)
(* A table of up to four slots may be full, and then "no gap on the way    *)
(* from an entry's home to the entry" says nothing.  What makes removal    *)
(* right there too is that some slot, the cut, is passed on the way to no  *)
(* entry: seen from the slot after the cut, the table is a line, not a     *)
(* ring.                                                                   *)
(***************************************************************************)
EXTENDS HashMap, TLAPS, FiniteSetTheorems, WellFoundedInduction

(* The inductive invariant. *)

IsTable(t) ==
  /\ Capacity(t) \in Nat \ {0}
  /\ t \in [0 .. Capacity(t) - 1 -> Entries]

OneEach(t) == \A s, u \in OccupiedSlots(t) : t[s].key = t[u].key => s = u

\* What find_entry passes on its way to the entry in slot s.
Passed(t, s) == Before(t, Home(t, t[s].key), s)

Cut(t, c) == \A s \in OccupiedSlots(t) : \A u \in Passed(t, s) : Occupied(t, u) /\ u # c

Ordered(t) == \E c \in Slots(t) : Cut(t, c)

\* The place of slot x in the line that begins after the cut.
Place(t, c, x) == IF x > c THEN x - c - 1 ELSE x + Capacity(t) - c - 1

\* The loop of map_remove has come to slot a before it came past the cut:
\* only the entries still to be put in again may have gaps before them, and
\* the gaps are where the loop has been.
Mending(t, c, h, a) ==
  /\ Place(t, c, h) < Place(t, c, a)
  /\ \A s \in OccupiedSlots(t) :
       /\ Place(t, c, Home(t, t[s].key)) <= Place(t, c, s)
       /\ \A u \in Slots(t) :
            /\ Place(t, c, Home(t, t[s].key)) <= Place(t, c, u)
            /\ Place(t, c, u) < Place(t, c, s)
            => \/ Occupied(t, u)
               \/ /\ Place(t, c, a) <= Place(t, c, s)
                  /\ Place(t, c, h) <= Place(t, c, u) /\ Place(t, c, u) < Place(t, c, a)

Written(t, s, e) == [t EXCEPT ![s] = e]

\* The table with the entry that map_remove has in its hands.
Whole == IF caller = "remove" THEN Written(slots, at, pending) ELSE slots

Removing == phase = "rehash" \/ caller = "remove"
Copying  == phase = "copy" \/ caller = "copy"

\* The entries of the map that is copied that the loop has passed.
Below(t, i) == {s \in OccupiedSlots(t) : s < i}

KindInv ==
  /\ hashOf \in [Keys -> Hashes] /\ IsTable(slots)
  /\ phase \in Phases /\ caller \in Callers /\ pending \in Entries
  /\ hole \in Slots(slots) /\ growAt \in Nat /\ at \in Nat

ControlInv ==
  /\ phase \in {"idle", "grow", "rehash", "copy"} => caller = "program"
  /\ phase \in {"set", "grow", "insert"} => pending.key \in Keys
  /\ Removing => at \in Slots(slots)

LoadInv ==
  /\ phase \in {"idle", "set"} => 4 * (count - 1) <= 3 * Capacity(slots)
  /\ phase \in {"insert", "rehash"} => 4 * count <= 3 * Capacity(slots)
  /\ caller = "remove" => 4 * (count + 1) <= 3 * Capacity(slots)

GrowInv ==
  phase = "grow" =>
    /\ IsTable(old) /\ OneEach(old)
    /\ Capacity(slots) = 2 * Capacity(old)
    /\ growAt \in 0 .. Capacity(old) /\ count <= growAt
    /\ \A s \in OccupiedSlots(old) : \A u \in OccupiedSlots(slots) :
         s >= growAt => old[s].key # slots[u].key

CopyInv ==
  Copying =>
    /\ IsTable(source) /\ OneEach(source)
    /\ Capacity(source) = Capacity(slots)
    /\ at \in 0 .. Capacity(source)
    /\ caller = "copy" => at \in OccupiedSlots(source) /\ pending = source[at]
    /\ count = Cardinality(Below(source, at))
    /\ 4 * (Cardinality(OccupiedSlots(source)) - 1) <= 3 * Capacity(source)
    /\ {slots[u] : u \in OccupiedSlots(slots)} = {source[s] : s \in Below(source, at)}

RemoveInv == caller = "remove" => ~Occupied(slots, at)

OrderInv ==
  /\ OneEach(Whole)
  /\ Removing => \E c \in Slots(slots) : Cut(Whole, c) \/ Mending(Whole, c, hole, at)
  /\ ~Removing => Ordered(slots)

IInv ==
  /\ KindInv /\ CountExact /\ ControlInv /\ LoadInv /\ GrowInv /\ CopyInv /\ RemoveInv /\ OrderInv
-----------------------------------------------------------------------------
(* Lemmas about tables.                                                    *)

LEMMA EntryKinds ==
  /\ Free \in Entries
  /\ \A e \in Entries : e # Free <=> e.key \in Keys
  /\ \A e \in Entries : e # Free => e \in [key : Keys, value : Values]
  /\ \A e \in [key : Keys, value : Values] : e \in Entries /\ e # Free
BY MapAssumption DEF Entries, Free, Entry

LEMMA TableShape ==
  ASSUME NEW t, IsTable(t)
  PROVE  /\ Capacity(t) \in Nat /\ Capacity(t) > 0
         /\ Slots(t) = 0 .. Capacity(t) - 1
         /\ \A s \in Slots(t) : t[s] \in Entries
         /\ \A s \in OccupiedSlots(t) : s \in Slots(t) /\ t[s].key \in Keys
         /\ IsFiniteSet(OccupiedSlots(t))
<1>1. /\ Capacity(t) \in Nat /\ Capacity(t) > 0
      /\ Slots(t) = 0 .. Capacity(t) - 1
      /\ \A s \in Slots(t) : t[s] \in Entries
  BY DEF IsTable, Slots
<1>2. IsFiniteSet(Slots(t))
  BY <1>1, FS_Interval
<1>3. IsFiniteSet(OccupiedSlots(t))
  BY <1>2, FS_Subset DEF OccupiedSlots
<1> QED BY <1>1, <1>3, EntryKinds DEF OccupiedSlots, Occupied

\* One entry is written.
LEMMA WriteSlot ==
  ASSUME NEW t, IsTable(t), NEW s \in Slots(t), NEW e \in Entries,
         NEW w, w = Written(t, s, e)
  PROVE  /\ IsTable(w) /\ Slots(w) = Slots(t) /\ Capacity(w) = Capacity(t)
         /\ w[s] = e /\ \A u \in Slots(t) : u # s => w[u] = t[u]
         /\ e = Free => OccupiedSlots(w) = OccupiedSlots(t) \ {s}
         /\ e # Free => OccupiedSlots(w) = OccupiedSlots(t) \cup {s}
<1>1. DOMAIN w = DOMAIN t
  BY DEF Written
<1>2. Slots(w) = Slots(t) /\ Capacity(w) = Capacity(t)
  BY <1>1 DEF Slots, Capacity
<1>3. w[s] = e /\ \A u \in Slots(t) : u # s => w[u] = t[u]
  BY DEF Slots, Written
<1>4. IsTable(w)
  BY <1>2, DOMAIN w = 0 .. Capacity(t) - 1 DEF IsTable, Written
<1> QED BY <1>2, <1>3, <1>4 DEF OccupiedSlots, Occupied

LEMMA EmptyTable ==
  ASSUME NEW n \in Nat, n > 0
  PROVE  /\ IsTable(NewTable(n)) /\ Capacity(NewTable(n)) = n
         /\ OccupiedSlots(NewTable(n)) = {}
<1>1. DOMAIN NewTable(n) = 0 .. n - 1
  BY DEF NewTable
<1>2. Cardinality(0 .. n - 1) = n
  BY FS_Interval
<1>3. Capacity(NewTable(n)) = n
  BY <1>1, <1>2 DEF Capacity
<1>4. IsTable(NewTable(n))
  BY <1>3, EntryKinds DEF IsTable, NewTable
<1> QED BY <1>3, <1>4, <1>1 DEF OccupiedSlots, Occupied, NewTable, Slots

LEMMA HomeSlot ==
  ASSUME NEW t, IsTable(t), NEW k \in Keys, hashOf \in [Keys -> Hashes]
  PROVE  Home(t, k) \in Slots(t)
<1>1. hashOf[k] \in Nat
  BY MapAssumption
<1> QED BY <1>1, TableShape DEF Home

LEMMA SuccSlot ==
  ASSUME NEW t, IsTable(t), NEW s \in Slots(t)
  PROVE  Succ(t, s) = IF s = Capacity(t) - 1 THEN 0 ELSE s + 1
<1> DEFINE n == Capacity(t)
<1>1. n \in Nat /\ n > 0 /\ s \in 0 .. n - 1
  BY TableShape
<1>2. Succ(t, s) = (s + 1) % n
  BY DEF Succ
<1> HIDE DEF n
<1>3. CASE s = n - 1
  <2>1. (s + 1) % n = 0
    BY <1>1, <1>3
  <2> QED BY <1>2, <1>3, <2>1 DEF n
<1>4. CASE s # n - 1
  <2>1. (s + 1) % n = s + 1
    BY <1>1, <1>4
  <2> QED BY <1>2, <1>4, <2>1 DEF n
<1> QED BY <1>3, <1>4

-----------------------------------------------------------------------------
(* Lemmas about the line that begins after the cut.                        *)

LEMMA Places ==
  ASSUME NEW t, IsTable(t), NEW c \in Slots(t)
  PROVE  /\ \A x \in Slots(t) : Place(t, c, x) \in 0 .. Capacity(t) - 1
         /\ \A x \in Slots(t) : Place(t, c, x) = Capacity(t) - 1 <=> x = c
         /\ \A x, y \in Slots(t) : Place(t, c, x) = Place(t, c, y) => x = y
         /\ \A x \in Slots(t) :
              Place(t, c, Succ(t, x)) = IF x = c THEN 0 ELSE Place(t, c, x) + 1
<1>1. Capacity(t) \in Nat /\ Capacity(t) > 0 /\ Slots(t) = 0 .. Capacity(t) - 1
  BY TableShape
<1>2. \A x \in Slots(t) : Succ(t, x) = IF x = Capacity(t) - 1 THEN 0 ELSE x + 1
  BY SuccSlot
<1> QED BY <1>1, <1>2, SMTT(30) DEF Place

\* Slots are passed in the order of their places, as long as the cut is not.
LEMMA PassedPlaces ==
  ASSUME NEW t, IsTable(t), NEW c \in Slots(t), NEW h \in Slots(t), NEW s \in Slots(t)
  PROVE  /\ Before(t, h, s) \subseteq Slots(t)
         /\ c \notin Before(t, h, s) <=> Place(t, c, h) <= Place(t, c, s)
         /\ Place(t, c, h) <= Place(t, c, s) =>
              \A u \in Slots(t) :
                u \in Before(t, h, s) <=>
                  Place(t, c, h) <= Place(t, c, u) /\ Place(t, c, u) < Place(t, c, s)
<1>1. Capacity(t) \in Nat /\ Capacity(t) > 0 /\ Slots(t) = 0 .. Capacity(t) - 1
  BY TableShape
<1> QED BY <1>1, SMTT(30) DEF Place, Before

LEMMA CutPlaces ==
  ASSUME NEW t, IsTable(t), NEW c \in Slots(t), hashOf \in [Keys -> Hashes]
  PROVE  Cut(t, c) <=>
           \A s \in OccupiedSlots(t) :
             /\ Place(t, c, Home(t, t[s].key)) <= Place(t, c, s)
             /\ \A u \in Slots(t) :
                  /\ Place(t, c, Home(t, t[s].key)) <= Place(t, c, u)
                  /\ Place(t, c, u) < Place(t, c, s)
                  => Occupied(t, u)
<1>1. ASSUME NEW s \in OccupiedSlots(t)
      PROVE  (\A u \in Passed(t, s) : Occupied(t, u) /\ u # c) <=>
             /\ Place(t, c, Home(t, t[s].key)) <= Place(t, c, s)
             /\ \A u \in Slots(t) :
                  /\ Place(t, c, Home(t, t[s].key)) <= Place(t, c, u)
                  /\ Place(t, c, u) < Place(t, c, s)
                  => Occupied(t, u)
  <2>1. s \in Slots(t) /\ Home(t, t[s].key) \in Slots(t)
    BY TableShape, HomeSlot
  <2> QED BY <2>1, PassedPlaces DEF Passed
<1> QED BY <1>1 DEF Cut
-----------------------------------------------------------------------------
(* Lemmas about find_entry.                                                *)

\* A nonempty set of numbers has a least one.
LEMMA LeastNumber ==
  ASSUME NEW S \in SUBSET Nat, S # {}
  PROVE  \E m \in S : \A x \in S : m <= x
<1> DEFINE Less == OpToRel(<, Nat)
<1>1. PICK m \in S : \A x \in S : <<x, m>> \notin Less
  <2>1. IsWellFoundedOn(Less, Nat)
    BY NatLessThanWellFounded
  <2> HIDE DEF Less
  <2> QED BY <2>1, WFMin
<1>2. ASSUME NEW x \in S PROVE m <= x
  <2>1. x \in Nat /\ m \in Nat
    OBVIOUS
  <2>2. ~(x < m)
    BY <1>1, <2>1 DEF OpToRel
  <2> QED BY <2>1, <2>2
<1> QED BY <1>2

\* find_entry answers with the first slot at which it stops.
LEMMA FindsFirst ==
  ASSUME NEW t, IsTable(t), NEW k \in Keys, hashOf \in [Keys -> Hashes],
         \E x \in Slots(t) : Stops(t, k, x)
  PROVE  /\ find_entry(t, k) \in Slots(t) /\ find_entry(t, k) # Nowhere
         /\ Stops(t, k, find_entry(t, k))
         /\ \A u \in Before(t, Home(t, k), find_entry(t, k)) : ~Stops(t, k, u)
<1> DEFINE h == Home(t, k)
           n == Capacity(t)
           Far(x) == IF h <= x THEN x - h ELSE x - h + n
           S == {Far(x) : x \in {y \in Slots(t) : Stops(t, k, y)}}
<1>1. n \in Nat /\ n > 0 /\ Slots(t) = 0 .. n - 1 /\ h \in 0 .. n - 1
  BY TableShape, HomeSlot
<1>2. S \in SUBSET Nat /\ S # {}
  BY <1>1
<1>3. PICK m \in S : \A d \in S : m <= d
  <2> HIDE DEF S
  <2> QED BY <1>2, LeastNumber
<1>4. PICK s \in Slots(t) : Stops(t, k, s) /\ m = Far(s)
  OBVIOUS
<1>5. ASSUME NEW u \in Before(t, h, s), Stops(t, k, u) PROVE FALSE
  <2>1. u \in Slots(t) /\ Far(u) < Far(s)
    BY <1>1, <1>5 DEF Before
  <2>2. Far(s) <= Far(u)
    BY <1>3, <1>4, <1>5, <2>1
  <2> HIDE DEF h, n
  <2> QED BY <1>1, <2>1, <2>2
<1>6. \E x \in Slots(t) : Stops(t, k, x) /\ \A u \in Before(t, Home(t, k), x) : ~Stops(t, k, u)
  BY <1>4, <1>5
<1>7. find_entry(t, k) = CHOOSE x \in Slots(t) :
        Stops(t, k, x) /\ \A u \in Before(t, Home(t, k), x) : ~Stops(t, k, u)
  BY DEF find_entry
<1>8. /\ find_entry(t, k) \in Slots(t) /\ Stops(t, k, find_entry(t, k))
      /\ \A u \in Before(t, Home(t, k), find_entry(t, k)) : ~Stops(t, k, u)
  BY <1>6, <1>7
<1> QED BY <1>1, <1>8 DEF Nowhere

\* That slot is the only one that is first.
LEMMA OnlyFirst ==
  ASSUME NEW t, IsTable(t), NEW k \in Keys, hashOf \in [Keys -> Hashes],
         NEW s \in Slots(t), Stops(t, k, s),
         \A u \in Before(t, Home(t, k), s) : ~Stops(t, k, u)
  PROVE  find_entry(t, k) = s
<1> DEFINE h == Home(t, k)
           f == find_entry(t, k)
<1>1. /\ Capacity(t) \in Nat /\ Capacity(t) > 0 /\ Slots(t) = 0 .. Capacity(t) - 1
      /\ h \in Slots(t)
  BY TableShape, HomeSlot
<1>2. /\ f \in Slots(t) /\ Stops(t, k, f)
      /\ \A u \in Before(t, h, f) : ~Stops(t, k, u)
  BY FindsFirst
<1>3. f \notin Before(t, h, s) /\ s \notin Before(t, h, f)
  BY <1>2
<1> HIDE DEF h, f
<1>4. f = s
  BY <1>1, <1>2, <1>3 DEF Before
<1> QED BY <1>4 DEF f

LEMMA FoundOrNowhere ==
  ASSUME NEW t, IsTable(t), NEW k \in Keys, hashOf \in [Keys -> Hashes]
  PROVE  /\ find_entry(t, k) # Nowhere => find_entry(t, k) \in Slots(t)
         /\ find_entry(t, k) # Nowhere <=> \E x \in Slots(t) : Stops(t, k, x)
<1>1. (\A x \in Slots(t) : ~Stops(t, k, x)) => find_entry(t, k) = Nowhere
  BY DEF find_entry
<1> QED BY <1>1, FindsFirst

\* In a table with a cut every entry is found where it is.
LEMMA CutFinds ==
  ASSUME NEW t, IsTable(t), OneEach(t), Ordered(t), hashOf \in [Keys -> Hashes],
         NEW s \in OccupiedSlots(t)
  PROVE  find_entry(t, t[s].key) = s
<1> DEFINE k == t[s].key
<1>1. PICK c \in Slots(t) : Cut(t, c)
  BY DEF Ordered
<1>2. s \in Slots(t) /\ k \in Keys /\ Home(t, k) \in Slots(t)
  BY TableShape, HomeSlot
<1>3. Stops(t, k, s)
  BY DEF Stops
<1>4. \A u \in Before(t, Home(t, k), s) : Occupied(t, u) /\ u \in Slots(t) /\ u # s
  <2>1. c \notin Before(t, Home(t, k), s)
    BY <1>1 DEF Cut, Passed
  <2>2. Place(t, c, s) \in Int /\ \A u \in Slots(t) : Place(t, c, u) \in Int
    BY <1>2, Places
  <2>3. s \notin Before(t, Home(t, k), s)
    BY <1>1, <1>2, <2>1, <2>2, PassedPlaces
  <2> QED BY <1>1, <1>2, <2>3, PassedPlaces DEF Cut, Passed
<1>5. \A u \in Before(t, Home(t, k), s) : ~Stops(t, k, u)
  BY <1>4 DEF Stops, OneEach, OccupiedSlots
<1> QED BY <1>2, <1>3, <1>5, OnlyFirst

\* What is not in the table is not found.
LEMMA FindsExactly ==
  ASSUME NEW t, IsTable(t), OneEach(t), Ordered(t), hashOf \in [Keys -> Hashes],
         NEW k \in Keys
  PROVE  /\ Finds(t, k) <=> \E s \in OccupiedSlots(t) : t[s].key = k
         /\ Finds(t, k) => /\ find_entry(t, k) \in OccupiedSlots(t)
                           /\ t[find_entry(t, k)].key = k
<1>1. ASSUME NEW s \in OccupiedSlots(t), t[s].key = k
      PROVE  Finds(t, k)
  <2>1. find_entry(t, k) = s
    BY <1>1, CutFinds
  <2>2. s \in 0 .. Capacity(t) - 1 /\ Capacity(t) \in Nat /\ Occupied(t, s)
    BY TableShape DEF OccupiedSlots
  <2>3. s # Nowhere
    BY <2>2 DEF Nowhere
  <2> QED BY <2>1, <2>2, <2>3 DEF Finds
<1>2. ASSUME Finds(t, k)
      PROVE  find_entry(t, k) \in OccupiedSlots(t) /\ t[find_entry(t, k)].key = k
  BY <1>2, FindsFirst, FoundOrNowhere DEF Finds, Stops, OccupiedSlots
<1> QED BY <1>1, <1>2
-----------------------------------------------------------------------------
(* Lemmas about putting in and taking out.                                 *)

\* With another entry in the same slots, homes and ways are the same.
LEMMA SameWay ==
  ASSUME NEW t, NEW w, Capacity(w) = Capacity(t)
  PROVE  /\ \A k : Home(w, k) = Home(t, k)
         /\ \A h, s : Before(w, h, s) = Before(t, h, s)
         /\ \A c, x : Place(w, c, x) = Place(t, c, x)
         /\ \A s : Succ(w, s) = Succ(t, s)
BY DEF Home, Before, Place, Succ

\* A new entry is put in: nobody's way leads through its slot.
LEMMA PutInNew ==
  ASSUME NEW t, IsTable(t), OneEach(t), Ordered(t), hashOf \in [Keys -> Hashes],
         NEW e \in Entries, e # Free,
         NEW f \in Slots(t), f = find_entry(t, e.key), ~Occupied(t, f),
         NEW w, w = Written(t, f, e)
  PROVE  /\ IsTable(w) /\ OneEach(w) /\ Ordered(w) /\ Capacity(w) = Capacity(t)
         /\ \A s \in OccupiedSlots(t) : t[s].key # e.key
         /\ OccupiedSlots(w) = OccupiedSlots(t) \cup {f} /\ f \notin OccupiedSlots(t)
         /\ \A s \in OccupiedSlots(t) : w[s] = t[s]
         /\ w[f] = e
<1>1. e.key \in Keys
  BY EntryKinds
<1>2. /\ IsTable(w) /\ Slots(w) = Slots(t) /\ Capacity(w) = Capacity(t)
      /\ w[f] = e /\ \A u \in Slots(t) : u # f => w[u] = t[u]
      /\ OccupiedSlots(w) = OccupiedSlots(t) \cup {f}
  BY WriteSlot
<1>3. f \notin OccupiedSlots(t)
  BY DEF OccupiedSlots
<1>4. \A s \in OccupiedSlots(t) : w[s] = t[s] /\ s \in Slots(t)
  BY <1>2, <1>3 DEF OccupiedSlots
<1>5. \A s \in OccupiedSlots(t) : t[s].key # e.key
  BY <1>1, <1>3, CutFinds
<1>6. OneEach(w)
  <2>1. \A s \in OccupiedSlots(t) : w[s] = t[s] /\ w[s].key # w[f].key
    BY <1>2, <1>4, <1>5
  <2>2. \A s, u \in OccupiedSlots(t) : w[s].key = w[u].key => s = u
    BY <2>1 DEF OneEach
  <2> QED BY <1>2, <2>1, <2>2 DEF OneEach
<1>7. /\ Stops(t, e.key, f)
      /\ \A u \in Before(t, Home(t, e.key), f) : ~Stops(t, e.key, u)
  BY <1>1, FindsFirst DEF Stops
<1>8. Cut(w, f)
  <2> SUFFICES ASSUME NEW s \in OccupiedSlots(w), NEW u \in Passed(w, s)
               PROVE  Occupied(w, u) /\ u # f
    BY DEF Cut
  <2>1. Passed(w, s) = Before(t, Home(t, w[s].key), s)
    BY <1>2, SameWay DEF Passed
  <2>2. \A x \in OccupiedSlots(t) : Occupied(w, x) /\ x # f
    BY <1>2, <1>3 DEF OccupiedSlots
  <2>3. CASE s = f
    <3>1. u \in Before(t, Home(t, e.key), f)
      BY <1>2, <2>1, <2>3
    <3>2. u \in Slots(t)
      BY <1>1, <3>1, HomeSlot, PassedPlaces
    <3>3. u \in OccupiedSlots(t)
      BY <1>7, <3>1, <3>2 DEF Stops, OccupiedSlots
    <3> QED BY <2>2, <3>3
  <2>4. CASE s # f
    <3>1. s \in OccupiedSlots(t)
      BY <1>2, <2>4
    <3>2. u \in Passed(t, s)
      BY <1>4, <2>1, <3>1 DEF Passed
    <3>3. PICK c \in Slots(t) : Cut(t, c)
      BY DEF Ordered
    <3>4. s \in Slots(t) /\ Home(t, t[s].key) \in Slots(t)
      BY <3>1, TableShape, HomeSlot
    <3>5. u \in Slots(t)
      BY <3>2, <3>4, PassedPlaces DEF Passed
    <3>6. Occupied(t, u)
      BY <3>1, <3>2, <3>3 DEF Cut
    <3> QED BY <2>2, <3>5, <3>6 DEF OccupiedSlots
  <2> QED BY <2>3, <2>4
<1> QED BY <1>2, <1>3, <1>4, <1>5, <1>6, <1>8 DEF Ordered

\* A key that the table has gets another value: all ways stay as they are.
LEMMA PutInAgain ==
  ASSUME NEW t, IsTable(t), OneEach(t), Ordered(t), hashOf \in [Keys -> Hashes],
         NEW e \in Entries, e # Free,
         NEW f \in OccupiedSlots(t), f = find_entry(t, e.key),
         NEW w, w = Written(t, f, e)
  PROVE  /\ IsTable(w) /\ OneEach(w) /\ Ordered(w) /\ Capacity(w) = Capacity(t)
         /\ OccupiedSlots(w) = OccupiedSlots(t)
         /\ t[f].key = e.key /\ w[f] = e
         /\ \A s \in OccupiedSlots(t) : s # f => w[s] = t[s]
<1>1. e.key \in Keys /\ f \in Slots(t)
  BY EntryKinds, TableShape
<1>2. /\ IsTable(w) /\ Slots(w) = Slots(t) /\ Capacity(w) = Capacity(t)
      /\ w[f] = e /\ \A u \in Slots(t) : u # f => w[u] = t[u]
      /\ OccupiedSlots(w) = OccupiedSlots(t)
  <2>1. f \in Slots(t) BY <1>1
  <2>2. /\ IsTable(w) /\ Slots(w) = Slots(t) /\ Capacity(w) = Capacity(t)
        /\ w[f] = e /\ \A u \in Slots(t) : u # f => w[u] = t[u]
        /\ OccupiedSlots(w) = OccupiedSlots(t) \cup {f}
    BY <2>1, WriteSlot
  <2> QED BY <2>2, f \in OccupiedSlots(t)
<1>3. t[f].key = e.key
  <2>1. f # Nowhere
    BY <1>1, TableShape DEF Nowhere
  <2>2. Stops(t, e.key, f)
    BY <1>1, <2>1, FoundOrNowhere, FindsFirst
  <2> QED BY <2>2 DEF Stops, OccupiedSlots
<1>4. \A s \in OccupiedSlots(t) : s # f => w[s] = t[s]
  BY <1>2, TableShape
<1>5. \A s \in OccupiedSlots(t) : w[s].key = t[s].key
  BY <1>2, <1>3, <1>4
<1>6. OneEach(w)
  BY <1>2, <1>5 DEF OneEach
<1>7. PICK c \in Slots(t) : Cut(t, c)
  BY DEF Ordered
<1>8. \A s \in OccupiedSlots(t) : Passed(w, s) = Passed(t, s)
  BY <1>2, <1>5, SameWay DEF Passed
<1>9. \A s \in OccupiedSlots(t) : \A u \in Passed(t, s) : u \in Slots(t)
  BY TableShape, HomeSlot, PassedPlaces DEF Passed
<1>10. Cut(w, c)
  <2> SUFFICES ASSUME NEW s \in OccupiedSlots(w), NEW u \in Passed(w, s)
               PROVE  Occupied(w, u) /\ u # c
    BY DEF Cut
  <2>1. u \in Passed(t, s) /\ u \in Slots(t) /\ s \in OccupiedSlots(t)
    BY <1>2, <1>8, <1>9
  <2>2. Occupied(t, u) /\ u # c
    BY <1>7, <2>1 DEF Cut
  <2>3. u \in OccupiedSlots(w)
    BY <1>2, <2>1, <2>2 DEF OccupiedSlots
  <2> QED BY <2>2, <2>3 DEF OccupiedSlots
<1> QED BY <1>2, <1>3, <1>4, <1>6, <1>10 DEF Ordered

\* An entry is taken out.
LEMMA Emptied ==
  ASSUME NEW t, IsTable(t), OneEach(t), NEW h \in OccupiedSlots(t),
         NEW w, w = Written(t, h, Free)
  PROVE  /\ IsTable(w) /\ OneEach(w) /\ Slots(w) = Slots(t) /\ Capacity(w) = Capacity(t)
         /\ OccupiedSlots(w) = OccupiedSlots(t) \ {h}
         /\ h \in Slots(t) /\ w[h] = Free /\ ~Occupied(w, h)
         /\ \A s \in OccupiedSlots(w) : w[s] = t[s] /\ t[s].key # t[h].key
<1>1. h \in Slots(t)
  BY DEF OccupiedSlots
<1>2. /\ IsTable(w) /\ Slots(w) = Slots(t) /\ Capacity(w) = Capacity(t)
      /\ w[h] = Free /\ \A u \in Slots(t) : u # h => w[u] = t[u]
      /\ OccupiedSlots(w) = OccupiedSlots(t) \ {h}
  BY <1>1, EntryKinds, WriteSlot
<1>3. \A s \in OccupiedSlots(w) : w[s] = t[s] /\ t[s].key # t[h].key
  BY <1>2, TableShape DEF OneEach
<1>4. OneEach(w)
  BY <1>2, <1>3 DEF OneEach
<1> QED BY <1>1, <1>2, <1>3, <1>4 DEF Occupied

\* map_remove takes an entry out: only the entries after it in the line may
\* have a gap before them, and the gap is the hole.
LEMMA MendBegins ==
  ASSUME NEW t, IsTable(t), OneEach(t), NEW c \in Slots(t), Cut(t, c),
         hashOf \in [Keys -> Hashes],
         NEW h \in OccupiedSlots(t), NEW w, w = Written(t, h, Free)
  PROVE  Cut(w, c) \/ Mending(w, c, h, Succ(w, h))
<1>1. /\ IsTable(w) /\ Slots(w) = Slots(t) /\ Capacity(w) = Capacity(t)
      /\ OccupiedSlots(w) = OccupiedSlots(t) \ {h} /\ h \in Slots(t)
      /\ \A s \in OccupiedSlots(w) : w[s] = t[s]
  BY Emptied
<1>2. \A s \in OccupiedSlots(w) :
        /\ Place(w, c, Home(w, w[s].key)) <= Place(w, c, s)
        /\ \A u \in Slots(w) :
             /\ Place(w, c, Home(w, w[s].key)) <= Place(w, c, u)
             /\ Place(w, c, u) < Place(w, c, s)
             => Occupied(w, u) \/ u = h
  <2> SUFFICES ASSUME NEW s \in OccupiedSlots(w)
               PROVE  /\ Place(t, c, Home(t, t[s].key)) <= Place(t, c, s)
                      /\ \A u \in Slots(w) :
                           /\ Place(t, c, Home(t, t[s].key)) <= Place(t, c, u)
                           /\ Place(t, c, u) < Place(t, c, s)
                           => Occupied(w, u) \/ u = h
    BY <1>1, SameWay
  <2>1. s \in OccupiedSlots(t)
    BY <1>1
  <2>2. \A u \in Slots(t) : Occupied(t, u) => Occupied(w, u) \/ u = h
    BY <1>1 DEF OccupiedSlots
  <2> QED BY <1>1, <2>1, <2>2, CutPlaces
<1>3. CASE h = c
  <2>1. \A s \in Slots(w) : ~(Place(w, c, c) < Place(w, c, s))
    BY <1>1, Places, TableShape, SMTT(30)
  <2>2. \A s \in OccupiedSlots(w) : s \in Slots(w)
    BY DEF OccupiedSlots
  <2>3. Cut(w, c)
    BY <1>1, <1>2, <1>3, <2>1, <2>2, CutPlaces
  <2> QED BY <2>3
<1>4. CASE h # c
  <2>1. Place(w, c, Succ(w, h)) = Place(w, c, h) + 1
    BY <1>1, <1>4, Places
  <2>2. \A x \in Slots(w) : Place(w, c, x) \in Nat
    BY <1>1, Places
  <2>3. Mending(w, c, h, Succ(w, h))
    <3>1. Place(w, c, h) < Place(w, c, Succ(w, h))
      BY <1>1, <2>1, <2>2
    <3>2. ASSUME NEW s \in OccupiedSlots(w), NEW u \in Slots(w), ~Occupied(w, u),
                 Place(w, c, Home(w, w[s].key)) <= Place(w, c, u),
                 Place(w, c, u) < Place(w, c, s)
          PROVE  /\ Place(w, c, Succ(w, h)) <= Place(w, c, s)
                 /\ Place(w, c, h) <= Place(w, c, u)
                 /\ Place(w, c, u) < Place(w, c, Succ(w, h))
      <4>1. u = h
        BY <1>2, <3>2
      <4>2. Place(w, c, s) \in Nat /\ Place(w, c, u) \in Nat
        BY <2>2, OccupiedSlots(w) \subseteq Slots(w) DEF OccupiedSlots
      <4> QED BY <2>1, <3>2, <4>1, <4>2
    <3> QED BY <1>2, <3>1, <3>2 DEF Mending
  <2> QED BY <2>3
<1> QED BY <1>3, <1>4

\* The loop of map_remove has come to a free slot: no entry has a gap before it.
LEMMA MendEnds ==
  ASSUME NEW t, IsTable(t), NEW c \in Slots(t), hashOf \in [Keys -> Hashes],
         NEW h \in Slots(t), NEW a \in Slots(t), Mending(t, c, h, a), ~Occupied(t, a)
  PROVE  Cut(t, c)
<1>1. \A x \in Slots(t) : Place(t, c, x) \in Nat
  BY Places
<1>2. ASSUME NEW s \in OccupiedSlots(t), NEW u \in Slots(t), ~Occupied(t, u),
             Place(t, c, Home(t, t[s].key)) <= Place(t, c, u),
             Place(t, c, u) < Place(t, c, s)
      PROVE  FALSE
  <2>1. s \in Slots(t) /\ s # a /\ t[s].key \in Keys /\ Home(t, t[s].key) \in Slots(t)
    BY TableShape, HomeSlot DEF OccupiedSlots
  <2>2. Place(t, c, a) <= Place(t, c, s) /\ Place(t, c, u) < Place(t, c, a)
    BY <1>2 DEF Mending
  <2>3. Place(t, c, a) # Place(t, c, s)
    BY <2>1, Places
  <2>4. Place(t, c, Home(t, t[s].key)) <= Place(t, c, a) /\ Place(t, c, a) < Place(t, c, s)
    BY <1>1, <1>2, <2>1, <2>2, <2>3
  <2>5. Place(t, c, a) < Place(t, c, a)
    BY <2>4 DEF Mending
  <2> QED BY <1>1, <2>5
<1> QED BY <1>2, CutPlaces DEF Mending

\* map_remove takes the next entry out; with it, the table is as it was.
LEMMA PutBack ==
  ASSUME NEW t, IsTable(t), NEW a \in Slots(t), NEW w, w = Written(t, a, Free)
  PROVE  Written(w, a, t[a]) = t
BY DEF Written, IsTable, Slots

\* map_remove puts the entry in again that it took out of slot a: at the same
\* slot, or earlier in the line and not before the hole.
LEMMA MendGoesOn ==
  ASSUME NEW t, IsTable(t), hashOf \in [Keys -> Hashes],
         NEW c \in Slots(t), NEW h \in Slots(t),
         NEW a \in Slots(t), ~Occupied(t, a),
         NEW e \in Entries, e # Free,
         NEW v, v = Written(t, a, e), OneEach(v), Cut(v, c) \/ Mending(v, c, h, a),
         NEW f, f = find_entry(t, e.key),
         NEW w, w = Written(t, f, e)
  PROVE  /\ f # Nowhere /\ f \in Slots(t) /\ ~Occupied(t, f)
         /\ IsTable(w) /\ OneEach(w) /\ Slots(w) = Slots(t) /\ Capacity(w) = Capacity(t)
         /\ OccupiedSlots(w) = OccupiedSlots(t) \cup {f} /\ f \notin OccupiedSlots(t)
         /\ w[f] = e /\ \A s \in OccupiedSlots(t) : w[s] = t[s]
         /\ Cut(w, c) \/ Mending(w, c, h, Succ(w, a))
<1> DEFINE home == Home(t, e.key)
           P(x) == Place(t, c, x)
<1>1. e.key \in Keys
  BY EntryKinds
<1>2. home \in Slots(t)
  BY <1>1, HomeSlot
<1>3. \A x \in Slots(t) : P(x) \in Nat
  BY Places
<1>4. /\ IsTable(v) /\ Slots(v) = Slots(t) /\ Capacity(v) = Capacity(t)
      /\ v[a] = e /\ \A u \in Slots(t) : u # a => v[u] = t[u]
      /\ OccupiedSlots(v) = OccupiedSlots(t) \cup {a}
  BY WriteSlot
<1>5. a \notin OccupiedSlots(t) /\ OccupiedSlots(t) \subseteq Slots(t)
  BY DEF OccupiedSlots
<1>6. \A s \in OccupiedSlots(t) : v[s] = t[s] /\ t[s].key # e.key
  BY <1>4, <1>5 DEF OneEach
<1>7. Stops(t, e.key, a)
  BY DEF Stops
<1>8. /\ f # Nowhere /\ f \in Slots(t) /\ Stops(t, e.key, f)
      /\ \A u \in Before(t, home, f) : ~Stops(t, e.key, u)
  BY <1>1, <1>7, FindsFirst
<1>9. f \notin OccupiedSlots(t) /\ ~Occupied(t, f)
  BY <1>6, <1>8 DEF Stops, OccupiedSlots
<1>10. /\ IsTable(w) /\ Slots(w) = Slots(t) /\ Capacity(w) = Capacity(t)
       /\ w[f] = e /\ \A u \in Slots(t) : u # f => w[u] = t[u]
       /\ OccupiedSlots(w) = OccupiedSlots(t) \cup {f}
  BY <1>8, WriteSlot
<1>11. \A s \in OccupiedSlots(t) : w[s] = t[s]
  BY <1>5, <1>9, <1>10
<1>12. OneEach(w)
  <2>1. \A s \in OccupiedSlots(t) : w[s].key # w[f].key
    BY <1>6, <1>10, <1>11
  <2>2. \A s, u \in OccupiedSlots(t) : w[s].key = w[u].key => s = u
    BY <1>4, <1>6, <1>11 DEF OneEach
  <2> QED BY <1>10, <2>1, <2>2 DEF OneEach
<1>13. P(home) <= P(a)
  <2>1. Cut(v, c) => Place(v, c, Home(v, v[a].key)) <= Place(v, c, a)
    BY <1>4, CutPlaces
  <2>2. Mending(v, c, h, a) => Place(v, c, Home(v, v[a].key)) <= Place(v, c, a)
    BY <1>4 DEF Mending
  <2> QED BY <1>4, <2>1, <2>2, SameWay
<1>14. a \notin Before(t, home, f)
  BY <1>7, <1>8
<1>15. f = a \/ f \in Before(t, home, a)
  <2>1. Capacity(t) \in Nat /\ Capacity(t) > 0 /\ Slots(t) = 0 .. Capacity(t) - 1
    BY TableShape
  <2> HIDE DEF home
  <2> QED BY <1>2, <1>8, <1>14, <2>1 DEF Before
<1>16. P(home) <= P(f) /\ (f # a => P(f) < P(a))
  <2>1. f # a => P(home) <= P(f) /\ P(f) < P(a)
    BY <1>2, <1>8, <1>13, <1>15, PassedPlaces
  <2> QED BY <1>13, <2>1
<1>17. \A u \in Slots(t) : P(home) <= P(u) /\ P(u) < P(f) => u \in OccupiedSlots(t)
  <2> SUFFICES ASSUME NEW u \in Slots(t), P(home) <= P(u), P(u) < P(f)
               PROVE  u \in OccupiedSlots(t)
    OBVIOUS
  <2>1. u \in Before(t, home, f)
    BY <1>2, <1>8, <1>16, PassedPlaces
  <2> QED BY <1>8, <2>1 DEF Stops, OccupiedSlots
<1>18. CASE Cut(v, c)
  <2>1. \A u \in Passed(v, a) : Occupied(v, u)
    BY <1>4, <1>18 DEF Cut
  <2>2. Passed(v, a) = Before(t, home, a)
    BY <1>4, SameWay DEF Passed
  <2>3. f = a
    BY <1>4, <1>8, <1>9, <1>15, <2>1, <2>2 DEF OccupiedSlots
  <2> QED BY <1>8, <1>9, <1>10, <1>11, <1>12, <1>18, <2>3
<1>19. CASE Mending(v, c, h, a)
  <2>1. /\ P(h) < P(a)
        /\ \A s \in OccupiedSlots(t) :
             /\ P(Home(t, t[s].key)) <= P(s)
             /\ \A u \in Slots(t) :
                  P(Home(t, t[s].key)) <= P(u) /\ P(u) < P(s)
                  => \/ Occupied(v, u)
                     \/ P(a) <= P(s) /\ P(h) <= P(u) /\ P(u) < P(a)
    <3>1. P(h) < P(a)
      BY <1>4, <1>19, SameWay DEF Mending
    <3>2. ASSUME NEW s \in OccupiedSlots(t)
          PROVE  /\ P(Home(t, t[s].key)) <= P(s)
                 /\ \A u \in Slots(t) :
                      P(Home(t, t[s].key)) <= P(u) /\ P(u) < P(s)
                      => \/ Occupied(v, u)
                         \/ P(a) <= P(s) /\ P(h) <= P(u) /\ P(u) < P(a)
      <4>1. s \in OccupiedSlots(v) /\ v[s] = t[s]
        BY <1>4, <1>6
      <4>2. /\ \A x : Place(v, c, x) = P(x)
            /\ \A k : Home(v, k) = Home(t, k)
        BY <1>4, SameWay
      <4> QED BY <1>4, <1>19, <4>1, <4>2 DEF Mending
    <3> QED BY <3>1, <3>2
  <2>2. ASSUME NEW s \in OccupiedSlots(t), NEW u \in Slots(t), ~Occupied(w, u),
               P(Home(t, t[s].key)) <= P(u), P(u) < P(s)
        PROVE  P(a) + 1 <= P(s) /\ P(h) <= P(u) /\ P(u) < P(a) + 1
    <3>1. s \in Slots(t) /\ s # a
      BY <1>5
    <3>2. P(s) # P(a)
      BY <3>1, Places
    <3>3. u = a \/ ~Occupied(v, u)
      BY <1>4, <1>10, <2>2 DEF OccupiedSlots
    <3>4. P(s) \in Nat /\ P(u) \in Nat /\ P(a) \in Nat /\ P(h) \in Nat
      BY <1>3, <3>1
    <3>5. CASE u = a
      BY <2>1, <2>2, <3>4, <3>5
    <3>6. CASE ~Occupied(v, u)
      <4>1. P(a) <= P(s) /\ P(h) <= P(u) /\ P(u) < P(a)
        BY <2>1, <2>2, <3>6
      <4> QED BY <3>2, <3>4, <4>1
    <3> QED BY <3>3, <3>5, <3>6
  <2>3. ASSUME NEW s \in OccupiedSlots(w)
        PROVE  /\ P(Home(t, w[s].key)) <= P(s)
               /\ \A u \in Slots(t) :
                    P(Home(t, w[s].key)) <= P(u) /\ P(u) < P(s)
                    => \/ Occupied(w, u)
                       \/ P(a) + 1 <= P(s) /\ P(h) <= P(u) /\ P(u) < P(a) + 1
    <3>1. CASE s = f
      <4>1. \A u \in OccupiedSlots(t) : Occupied(w, u)
        BY <1>10 DEF OccupiedSlots
      <4> QED BY <1>10, <1>16, <1>17, <3>1, <4>1
    <3>2. CASE s # f
      <4>1. s \in OccupiedSlots(t) /\ w[s] = t[s]
        BY <1>10, <1>11, <3>2
      <4> QED BY <2>1, <2>2, <4>1
    <3> QED BY <3>1, <3>2
  <2>4. /\ \A x : Place(w, c, x) = P(x)
        /\ \A k : Home(w, k) = Home(t, k)
    BY <1>10, SameWay
  <2>5. CASE a # c
    <3>1. Place(w, c, Succ(w, a)) = P(a) + 1
      BY <1>10, <2>4, <2>5, Places
    <3>2. P(h) < P(a) + 1
      BY <1>3, <2>1
    <3>3. Mending(w, c, h, Succ(w, a))
      <4> HIDE DEF P
      <4> QED BY <1>10, <2>3, <2>4, <3>1, <3>2 DEF Mending
    <3> QED BY <1>8, <1>9, <1>10, <1>11, <1>12, <3>3
  <2>6. CASE a = c
    <3>1. \A s \in Slots(t) : ~(P(a) + 1 <= P(s))
      BY <2>6, Places, TableShape
    <3>2. OccupiedSlots(w) \subseteq Slots(t)
      BY <1>10 DEF OccupiedSlots
    <3>3. Cut(w, c)
      <4> HIDE DEF P
      <4> QED BY <1>10, <2>3, <2>4, <3>1, <3>2, CutPlaces
    <3> QED BY <1>8, <1>9, <1>10, <1>11, <1>12, <3>3
  <2> QED BY <2>5, <2>6
<1> QED BY <1>18, <1>19

-----------------------------------------------------------------------------
(* What the invariant says of a state.                                     *)

LEMMA CountKinds ==
  ASSUME NEW t, IsTable(t)
  PROVE  /\ Cardinality(OccupiedSlots(t)) \in 0 .. Capacity(t)
         /\ Cardinality(OccupiedSlots(t)) < Capacity(t) => \E s \in Slots(t) : ~Occupied(t, s)
<1>1. IsFiniteSet(Slots(t)) /\ Cardinality(Slots(t)) = Capacity(t)
  <2>1. IsFiniteSet(0 .. Capacity(t) - 1)
    BY TableShape, FS_Interval
  <2> QED BY <2>1, TableShape DEF Capacity, Slots
<1>2. OccupiedSlots(t) \in SUBSET Slots(t)
  BY DEF OccupiedSlots
<1>3. /\ Cardinality(OccupiedSlots(t)) <= Capacity(t)
      /\ Cardinality(OccupiedSlots(t)) \in Nat
  BY <1>1, <1>2, FS_Subset, FS_CardinalityType
<1>4. (\A s \in Slots(t) : Occupied(t, s)) => Cardinality(OccupiedSlots(t)) = Capacity(t)
  <2>1. (\A s \in Slots(t) : Occupied(t, s)) => OccupiedSlots(t) = Slots(t)
    BY DEF OccupiedSlots
  <2> QED BY <1>1, <2>1
<1> QED BY <1>3, <1>4, TableShape

LEMMA OneMore ==
  ASSUME NEW t, IsTable(t), NEW w, NEW f, f \notin OccupiedSlots(t),
         OccupiedSlots(w) = OccupiedSlots(t) \cup {f}
  PROVE  Cardinality(OccupiedSlots(w)) = Cardinality(OccupiedSlots(t)) + 1
BY TableShape, FS_AddElement

LEMMA OneLess ==
  ASSUME NEW t, IsTable(t), NEW w, NEW f \in OccupiedSlots(t),
         OccupiedSlots(w) = OccupiedSlots(t) \ {f}
  PROVE  Cardinality(OccupiedSlots(w)) = Cardinality(OccupiedSlots(t)) - 1
BY TableShape, FS_RemoveElement

\* How many entries the loop of map_copy has passed.
LEMMA BelowCount ==
  ASSUME NEW t, IsTable(t), NEW i \in 0 .. Capacity(t)
  PROVE  /\ Cardinality(Below(t, i)) \in Nat
         /\ Cardinality(Below(t, i)) <= Cardinality(OccupiedSlots(t))
         /\ i \in OccupiedSlots(t) =>
              /\ Cardinality(Below(t, i + 1)) = Cardinality(Below(t, i)) + 1
              /\ Cardinality(Below(t, i)) + 1 <= Cardinality(OccupiedSlots(t))
              /\ Below(t, i + 1) = Below(t, i) \cup {i} /\ i \notin Below(t, i)
         /\ i \notin OccupiedSlots(t) => Below(t, i + 1) = Below(t, i)
         /\ i = Capacity(t) => Below(t, i) = OccupiedSlots(t)
         /\ Below(t, 0) = {}
<1>1. /\ IsFiniteSet(OccupiedSlots(t)) /\ Capacity(t) \in Nat
      /\ OccupiedSlots(t) \subseteq 0 .. Capacity(t) - 1
  BY TableShape
<1>2. \A j \in 0 .. Capacity(t) + 1 :
        /\ IsFiniteSet(Below(t, j)) /\ Cardinality(Below(t, j)) \in Nat
        /\ Cardinality(Below(t, j)) <= Cardinality(OccupiedSlots(t))
  <2> TAKE j \in 0 .. Capacity(t) + 1
  <2>1. Below(t, j) \in SUBSET OccupiedSlots(t)
    BY DEF Below
  <2> QED BY <1>1, <2>1, FS_Subset, FS_CardinalityType
<1>3. i \in OccupiedSlots(t) => Below(t, i + 1) = Below(t, i) \cup {i} /\ i \notin Below(t, i)
  BY <1>1 DEF Below
<1>4. i \notin OccupiedSlots(t) => Below(t, i + 1) = Below(t, i)
  BY <1>1 DEF Below
<1>5. i \in OccupiedSlots(t) => Cardinality(Below(t, i + 1)) = Cardinality(Below(t, i)) + 1
  BY <1>1, <1>2, <1>3, FS_AddElement
<1>6. (i = Capacity(t) => Below(t, i) = OccupiedSlots(t)) /\ Below(t, 0) = {}
  BY <1>1 DEF Below
<1>7. i \in 0 .. Capacity(t) + 1 /\ i + 1 \in 0 .. Capacity(t) + 1
  BY <1>1
<1> QED BY <1>2, <1>3, <1>4, <1>5, <1>6, <1>7

\* A table that is not full has room for every key.
LEMMA FreeIsRoom ==
  ASSUME NEW t, IsTable(t), hashOf \in [Keys -> Hashes], NEW k \in Keys,
         \E s \in Slots(t) : ~Occupied(t, s)
  PROVE  find_entry(t, k) # Nowhere /\ find_entry(t, k) \in Slots(t)
<1>1. \E s \in Slots(t) : Stops(t, k, s)
  BY DEF Stops
<1> QED BY <1>1, FindsFirst

LEMMA LightIsRoom ==
  ASSUME NEW t, IsTable(t), hashOf \in [Keys -> Hashes], NEW k \in Keys,
         4 * Cardinality(OccupiedSlots(t)) <= 3 * Capacity(t)
  PROVE  find_entry(t, k) # Nowhere /\ find_entry(t, k) \in Slots(t)
<1>1. Cardinality(OccupiedSlots(t)) < Capacity(t)
  BY CountKinds, TableShape
<1> QED BY <1>1, CountKinds, FreeIsRoom

\* The loops of map_remove and map_copy put in what there is room for.
LEMMA LoopsAreLight ==
  ASSUME IInv, phase = "set", caller # "program"
  PROVE  ~map_needs_expansion
<1> USE DEF IInv
<1>1. count \in Nat /\ Capacity(slots) \in Nat
  BY CountKinds, TableShape DEF CountExact, KindInv
<1>2. CASE caller = "remove"
  BY <1>1, <1>2 DEF LoadInv, map_needs_expansion
<1>3. CASE caller = "copy"
  <2>1. Copying
    BY <1>3 DEF Copying
  <2>2. count + 1 <= Cardinality(OccupiedSlots(source))
    BY <1>3, <2>1, BelowCount DEF CopyInv
  <2>3. Cardinality(OccupiedSlots(source)) \in Nat
    BY <2>1, CountKinds, TableShape DEF CopyInv
  <2> QED BY <1>1, <2>1, <2>2, <2>3 DEF CopyInv, map_needs_expansion
<1> QED BY <1>2, <1>3 DEF KindInv, Callers

LEMMA Sound == IInv => TableSound
<1> SUFFICES ASSUME IInv PROVE TableSound
  OBVIOUS
<1> USE DEF IInv
<1>1. TypeOK
  <2>1. count \in 0 .. Capacity(slots)
    BY CountKinds DEF KindInv, CountExact
  <2>2. slots \in [0 .. Capacity(slots) - 1 -> Entries] /\ Capacity(slots) > 0
    BY DEF KindInv, IsTable
  <2> QED BY <2>1, <2>2 DEF TypeOK, KindInv, ControlInv, Removing
<1>2. Findable
  BY CutFinds DEF Findable, OrderInv, Whole, Removing, ControlInv, KindInv
<1>3. Room
  <2>1. ASSUME phase = "insert" PROVE find_entry(slots, pending.key) # Nowhere
    BY <2>1, LightIsRoom DEF KindInv, ControlInv, LoadInv, CountExact
  <2>2. ASSUME phase = "grow", NEW s \in OccupiedSlots(old), s >= growAt
        PROVE  find_entry(slots, old[s].key) # Nowhere
    <3>1. /\ IsTable(old) /\ IsTable(slots) /\ hashOf \in [Keys -> Hashes]
          /\ old[s].key \in Keys
      BY <2>2, TableShape DEF GrowInv, KindInv
    <3>2. Cardinality(OccupiedSlots(slots)) < Capacity(slots)
      <4>1. Capacity(old) \in Nat /\ Capacity(old) > 0
        BY <3>1, TableShape
      <4>2. /\ growAt \in 0 .. Capacity(old) /\ count <= growAt
            /\ Capacity(slots) = 2 * Capacity(old) /\ count \in Nat
        BY <2>2, <3>1, CountKinds DEF GrowInv, CountExact
      <4> QED BY <4>1, <4>2 DEF CountExact
    <3>3. PICK f \in Slots(slots) : ~Occupied(slots, f)
      BY <3>1, <3>2, CountKinds
    <3> QED BY <3>1, <3>3, FreeIsRoom
  <2> QED BY <2>1, <2>2 DEF Room
<1>4. LoopsKeepTable
  BY DEF LoopsKeepTable, ControlInv
<1> QED BY <1>1, <1>2, <1>3, <1>4 DEF TableSound

-----------------------------------------------------------------------------
(* Every step keeps the invariant.                                         *)

LEMMA Begins == Init => IInv
<1> SUFFICES ASSUME Init PROVE IInv
  OBVIOUS
<1>1. PICK n \in Capacities : slots = NewTable(n)
  BY DEF Init
<1>2. n \in Nat /\ n > 0
  BY MapAssumption
<1>3. IsTable(slots) /\ Capacity(slots) = n /\ OccupiedSlots(slots) = {}
  BY <1>1, <1>2, EmptyTable
<1>4. 0 \in Slots(slots)
  BY <1>2, <1>3, TableShape
<1>5. KindInv
  BY <1>3, <1>4, EntryKinds DEF Init, KindInv, Phases, Callers
<1>6. CountExact
  BY <1>3, FS_EmptySet DEF Init, CountExact
<1>7. OneEach(slots) /\ Ordered(slots)
  BY <1>3, <1>4 DEF OneEach, Ordered, Cut
<1>8. ~Removing /\ ~Copying /\ Whole = slots
  BY DEF Init, Removing, Copying, Whole
<1>9. OrderInv
  BY <1>7, <1>8 DEF OrderInv
<1>10. ControlInv /\ LoadInv /\ GrowInv /\ CopyInv /\ RemoveInv
  BY <1>2, <1>3, <1>8 DEF Init, ControlInv, LoadInv, GrowInv, CopyInv, RemoveInv
<1> QED BY <1>5, <1>6, <1>9, <1>10 DEF IInv

\* After a step outside map_remove the table has a cut.
LEMMA CutAfter ==
  ASSUME NEW t, slots' = t, hashOf' = hashOf, OneEach(t), Ordered(t),
         phase' # "rehash", caller' # "remove"
  PROVE  OrderInv'
<1>1. Ordered(slots)'
  BY DEF Ordered, Cut, Passed, Home
<1>2. OneEach(slots)'
  OBVIOUS
<1> QED BY <1>1, <1>2 DEF OrderInv, Whole, Removing

\* After a step of map_remove the table is mended as far as the loop has come.
LEMMA MendAfter ==
  ASSUME NEW t, Whole' = t, hashOf' = hashOf, OneEach(t), Removing',
         NEW c, c \in Slots(slots'),
         NEW h, hole' = h, NEW a, at' = a, Cut(t, c) \/ Mending(t, c, h, a)
  PROVE  OrderInv'
<1>1. ASSUME Cut(t, c) PROVE Cut(Whole, c)'
  BY <1>1 DEF Cut, Passed, Home
<1>2. ASSUME Mending(t, c, h, a) PROVE Mending(Whole, c, hole, at)'
  BY <1>2 DEF Mending, Home
<1>3. (\E x \in Slots(slots) : Cut(Whole, x) \/ Mending(Whole, x, hole, at))'
  BY <1>1, <1>2
<1> QED BY <1>3 DEF OrderInv

LEMMA SetStep == ASSUME IInv, Set PROVE IInv'
<1> USE DEF IInv
<1>1. /\ phase = "idle" /\ phase' = "set" /\ caller = "program" /\ caller' = "program"
      /\ UNCHANGED <<hashOf, slots, count, old, growAt, source, hole, at>>
  BY DEF Set, ControlInv
<1>2. pending' \in Entries /\ pending'.key \in Keys
  BY EntryKinds DEF Set, Entry
<1>3. KindInv'
  BY <1>1, <1>2 DEF KindInv, Phases
<1>4. OrderInv'
  <2>1. OneEach(slots) /\ Ordered(slots)
    BY <1>1 DEF OrderInv, Removing, Whole
  <2> QED BY <1>1, <2>1, CutAfter
<1>5. ControlInv' /\ LoadInv' /\ GrowInv' /\ CopyInv' /\ RemoveInv' /\ CountExact'
  BY <1>1, <1>2 DEF ControlInv, LoadInv, GrowInv, CopyInv, RemoveInv, CountExact, Copying, Removing
<1> QED BY <1>3, <1>4, <1>5

LEMMA NoGrowthStep == ASSUME IInv, NoGrowth PROVE IInv'
<1> USE DEF IInv
<1>1. /\ phase = "set" /\ phase' = "insert" /\ ~map_needs_expansion
      /\ UNCHANGED <<hashOf, slots, count, caller, pending, old, growAt, source, hole, at>>
  BY DEF NoGrowth
<1>2. count \in Nat /\ Capacity(slots) \in Nat
  BY CountKinds, TableShape DEF CountExact, KindInv
<1>3. KindInv' /\ CountExact' /\ ControlInv' /\ RemoveInv'
  BY <1>1 DEF KindInv, CountExact, ControlInv, RemoveInv, Phases, Removing
<1>4. LoadInv'
  BY <1>1, <1>2 DEF LoadInv, map_needs_expansion
<1>5. GrowInv' /\ CopyInv'
  BY <1>1, ZenonT(60) DEF GrowInv, CopyInv, Copying
<1>6. OrderInv'
  BY <1>1 DEF OrderInv, Whole, Removing, Ordered, Cut, Mending, Passed, Home
<1> QED BY <1>3, <1>4, <1>5, <1>6

LEMMA ExpandStep == ASSUME IInv, Expand PROVE IInv'
<1> USE DEF IInv
<1>1. /\ phase = "set" /\ phase' = "grow" /\ caller = "program" /\ caller' = "program"
      /\ old' = slots /\ growAt' = 0 /\ count' = 0
      /\ UNCHANGED <<hashOf, pending, source, hole, at>>
  BY LoopsAreLight DEF Expand, FirstOld
<1>2. PICK t : t = NewTable(2 * Capacity(slots))
  OBVIOUS
<1>3. slots' = t
  BY <1>2 DEF Expand
<1>4. IsTable(slots) /\ Capacity(slots) \in Nat /\ Capacity(slots) > 0
  BY TableShape DEF KindInv
<1>5. IsTable(t) /\ Capacity(t) = 2 * Capacity(slots) /\ OccupiedSlots(t) = {}
  BY <1>2, <1>4, EmptyTable
<1>6. hole \in Slots(t)
  BY <1>4, <1>5, TableShape DEF KindInv
<1>7. KindInv'
  BY <1>1, <1>3, <1>5, <1>6 DEF KindInv, Phases
<1>8. CountExact'
  BY <1>1, <1>3, <1>5, FS_EmptySet DEF CountExact
<1>9. OneEach(t) /\ Ordered(t)
  BY <1>5, <1>6 DEF OneEach, Ordered, Cut
<1>10. OrderInv'
  BY <1>1, <1>3, <1>9, CutAfter
<1>11. OneEach(slots)
  BY <1>1 DEF OrderInv, Whole
<1>12. GrowInv'
  BY <1>1, <1>3, <1>4, <1>5, <1>11 DEF GrowInv
<1>13. ControlInv' /\ LoadInv' /\ CopyInv' /\ RemoveInv'
  BY <1>1 DEF ControlInv, LoadInv, CopyInv, RemoveInv, Copying, Removing
<1> QED BY <1>7, <1>8, <1>10, <1>12, <1>13

\* What Reinsert and Insert do is Written.
LEMMA PutInWrites == ASSUME NEW e, NEW s, PutIn(e, s) PROVE slots' = Written(slots, s, e)
BY DEF PutIn, Written

LEMMA ReinsertStep == ASSUME IInv, Reinsert PROVE IInv'
<1> USE DEF IInv
<1>1. /\ phase = "grow" /\ phase' = "grow" /\ growAt' = growAt + 1
      /\ caller = "program" /\ caller' = "program"
      /\ UNCHANGED <<hashOf, pending, old, source, hole, at>>
  BY DEF Reinsert, ControlInv
<1>2. /\ IsTable(old) /\ OneEach(old) /\ IsTable(slots) /\ hashOf \in [Keys -> Hashes]
      /\ Capacity(slots) = 2 * Capacity(old) /\ count <= growAt
      /\ Capacity(old) \in Nat /\ Capacity(old) > 0
      /\ growAt \in Slots(old) /\ growAt \in 0 .. Capacity(old) - 1 /\ count \in Nat
  BY <1>1, TableShape, CountKinds DEF Reinsert, GrowInv, KindInv, CountExact
<1>3. OneEach(slots) /\ Ordered(slots)
  BY <1>1 DEF OrderInv, Removing, Whole
<1>4. ControlInv' /\ LoadInv' /\ CopyInv' /\ RemoveInv'
  BY <1>1 DEF ControlInv, LoadInv, CopyInv, RemoveInv, Copying, Removing
<1> DEFINE e == old[growAt]
           f == find_entry(slots, e.key)
<1>5. CASE e = Free
  <2>1. UNCHANGED <<slots, count>>
    BY <1>5 DEF Reinsert
  <2>2. KindInv' /\ CountExact'
    BY <1>1, <2>1 DEF KindInv, CountExact
  <2>3. \A s \in OccupiedSlots(old) : s \in Nat /\ (s >= growAt + 1 => s >= growAt)
    BY <1>2, TableShape
  <2>4. growAt + 1 \in 0 .. Capacity(old) /\ count <= growAt + 1
    BY <1>2
  <2>5. GrowInv'
    BY <1>1, <1>2, <2>1, <2>3, <2>4 DEF GrowInv
  <2>6. OrderInv'
    BY <1>1, <1>3, <2>1, CutAfter
  <2> QED BY <1>4, <2>2, <2>5, <2>6
<1>6. CASE e # Free
  <2>1. e \in Entries /\ e.key \in Keys /\ growAt \in OccupiedSlots(old)
    BY <1>2, <1>6, TableShape DEF OccupiedSlots, Occupied
  <2>2. Cardinality(OccupiedSlots(slots)) < Capacity(slots)
    BY <1>2 DEF CountExact
  <2>3. f # Nowhere /\ f \in Slots(slots)
    BY <1>2, <2>1, <2>2, CountKinds, FreeIsRoom
  <2>4. ~Occupied(slots, f)
    <3>1. Stops(slots, e.key, f)
      BY <1>2, <2>1, <2>3, FoundOrNowhere, FindsFirst
    <3>2. \A u \in OccupiedSlots(slots) : e.key # slots[u].key
      BY <1>1, <1>2, <2>1 DEF GrowInv
    <3> QED BY <2>3, <3>1, <3>2 DEF Stops, OccupiedSlots
  <2>5. PutIn(e, f) /\ count' = count + 1
    BY <1>6, <2>3 DEF Reinsert
  <2>6. PICK w : w = Written(slots, f, e)
    OBVIOUS
  <2>7. slots' = w
    BY <2>5, <2>6, PutInWrites
  <2>8. /\ IsTable(w) /\ OneEach(w) /\ Ordered(w) /\ Capacity(w) = Capacity(slots)
        /\ OccupiedSlots(w) = OccupiedSlots(slots) \cup {f} /\ f \notin OccupiedSlots(slots)
        /\ \A s \in OccupiedSlots(slots) : w[s] = slots[s]
        /\ w[f] = e
    <3>1. f = find_entry(slots, e.key)
      OBVIOUS
    <3> HIDE DEF f, e
    <3> QED BY <1>2, <1>3, <1>6, <2>1, <2>3, <2>4, <2>6, <3>1, PutInNew
  <2>9. hole \in Slots(w)
    BY <1>2, <2>8, TableShape DEF KindInv
  <2>10. KindInv'
    BY <1>1, <1>2, <2>7, <2>8, <2>9 DEF KindInv
  <2>11. CountExact'
    BY <1>2, <2>5, <2>7, <2>8, OneMore DEF CountExact
  <2>12. OrderInv'
    BY <1>1, <2>7, <2>8, CutAfter
  <2>13. \A s \in OccupiedSlots(old) : \A u \in OccupiedSlots(w) :
           s >= growAt + 1 => old[s].key # w[u].key
    <3> SUFFICES ASSUME NEW s \in OccupiedSlots(old), NEW u \in OccupiedSlots(w),
                        s >= growAt + 1
                 PROVE  old[s].key # w[u].key
      OBVIOUS
    <3>1. s # growAt /\ s >= growAt
      BY <1>2, TableShape
    <3>2. old[s].key # e.key
      BY <1>2, <2>1, <3>1 DEF OneEach
    <3>3. u # f => old[s].key # slots[u].key /\ w[u] = slots[u]
      BY <1>1, <2>8, <3>1 DEF GrowInv
    <3> QED BY <2>8, <3>2, <3>3
  <2>14. GrowInv'
    BY <1>1, <1>2, <2>5, <2>7, <2>8, <2>13 DEF GrowInv
  <2> QED BY <1>4, <2>10, <2>11, <2>12, <2>14
<1> QED BY <1>5, <1>6

LEMMA ExpandedStep == ASSUME IInv, Expanded PROVE IInv'
<1> USE DEF IInv
<1>1. /\ phase = "grow" /\ phase' = "insert" /\ caller = "program" /\ caller' = "program"
      /\ growAt' = 0
      /\ UNCHANGED <<hashOf, slots, count, pending, source, hole, at>>
  BY DEF Expanded, ControlInv
<1>2. KindInv' /\ CountExact' /\ ControlInv' /\ GrowInv' /\ CopyInv' /\ RemoveInv'
  BY <1>1 DEF KindInv, CountExact, ControlInv, GrowInv, CopyInv, RemoveInv, Phases,
              Removing, Copying
<1>3. LoadInv'
  <2>1. /\ growAt \in 0 .. Capacity(old) /\ count <= growAt
        /\ Capacity(slots) = 2 * Capacity(old)
    BY <1>1 DEF GrowInv
  <2>2. Capacity(old) \in Nat /\ count \in Nat
    BY <1>1, TableShape, CountKinds DEF GrowInv, CountExact, KindInv
  <2>3. 4 * count <= 3 * Capacity(slots)
    BY <2>1, <2>2
  <2> QED BY <1>1, <2>3 DEF LoadInv
<1>4. OrderInv'
  <2>1. OneEach(slots) /\ Ordered(slots)
    BY <1>1 DEF OrderInv, Removing, Whole
  <2> QED BY <1>1, <2>1, CutAfter
<1> QED BY <1>2, <1>3, <1>4

\* What Insert does when there is room, which there always is.
LEMMA InsertRoom ==
  ASSUME IInv, Insert
  PROVE  /\ phase = "insert" /\ caller' = "program" /\ pending' = Free
         /\ UNCHANGED <<hashOf, old, growAt, source, hole>>
         /\ find_entry(slots, pending.key) # Nowhere
         /\ find_entry(slots, pending.key) \in Slots(slots)
         /\ slots' = Written(slots, find_entry(slots, pending.key), pending)
         /\ count' = CountWith(slots, find_entry(slots, pending.key))
         /\ Return(TRUE)
<1> USE DEF IInv
<1>1. phase = "insert" /\ pending.key \in Keys /\ IsTable(slots) /\ hashOf \in [Keys -> Hashes]
  BY DEF Insert, ControlInv, KindInv
<1>2. 4 * Cardinality(OccupiedSlots(slots)) <= 3 * Capacity(slots)
  BY <1>1 DEF LoadInv, CountExact
<1>3. /\ find_entry(slots, pending.key) # Nowhere
      /\ find_entry(slots, pending.key) \in Slots(slots)
  BY <1>1, <1>2, LightIsRoom
<1>4. /\ PutIn(pending, find_entry(slots, pending.key))
      /\ count' = CountWith(slots, find_entry(slots, pending.key)) /\ Return(TRUE)
      /\ UNCHANGED <<hashOf, old, growAt, source, hole>>
  BY <1>3 DEF Insert
<1>5. slots' = Written(slots, find_entry(slots, pending.key), pending)
  BY <1>4, PutInWrites
<1> QED BY <1>1, <1>3, <1>4, <1>5 DEF Return

LEMMA InsertProgram ==
  ASSUME IInv, Insert, caller = "program"
  PROVE  IInv'
<1> USE DEF IInv
<1> DEFINE f == find_entry(slots, pending.key)
<1>1. /\ phase = "insert" /\ phase' = "idle" /\ caller' = "program" /\ pending' = Free
      /\ UNCHANGED <<hashOf, old, growAt, source, hole, at>>
      /\ f \in Slots(slots) /\ count' = CountWith(slots, f)
      /\ slots' = Written(slots, f, pending)
  BY InsertRoom DEF Return
<1>2. PICK w : w = Written(slots, f, pending)
  OBVIOUS
<1>3. slots' = w
  BY <1>1, <1>2
<1>4. /\ pending \in Entries /\ pending # Free /\ pending.key \in Keys
      /\ IsTable(slots) /\ hashOf \in [Keys -> Hashes]
  BY <1>1, EntryKinds DEF KindInv, ControlInv
<1>5. OneEach(slots) /\ Ordered(slots)
  BY <1>1 DEF OrderInv, Removing, Whole
<1>6. /\ IsTable(w) /\ OneEach(w) /\ Ordered(w) /\ Capacity(w) = Capacity(slots)
      /\ Occupied(slots, f) => OccupiedSlots(w) = OccupiedSlots(slots)
      /\ ~Occupied(slots, f) => /\ OccupiedSlots(w) = OccupiedSlots(slots) \cup {f}
                                /\ f \notin OccupiedSlots(slots)
  <2>1. f = find_entry(slots, pending.key) /\ f \in Slots(slots)
    BY <1>1
  <2> HIDE DEF f
  <2>2. CASE Occupied(slots, f)
    <3>1. f \in OccupiedSlots(slots)
      BY <2>1, <2>2 DEF OccupiedSlots
    <3> QED BY <1>2, <1>4, <1>5, <2>1, <2>2, <3>1, PutInAgain
  <2>3. CASE ~Occupied(slots, f)
    BY <1>2, <1>4, <1>5, <2>1, <2>3, PutInNew
  <2> QED BY <2>2, <2>3
<1>7. hole \in Slots(w)
  BY <1>4, <1>6, TableShape DEF KindInv
<1>8. KindInv'
  BY <1>1, <1>3, <1>6, <1>7, EntryKinds DEF KindInv, Phases
<1>9. count \in Nat /\ (count' = count \/ count' = count + 1) /\ Capacity(slots) \in Nat
  BY <1>1, <1>4, CountKinds, TableShape DEF CountWith, CountExact
<1>10. CountExact'
  <2>1. CASE Occupied(slots, f)
    BY <1>1, <1>3, <1>6, <2>1 DEF CountExact, CountWith
  <2>2. CASE ~Occupied(slots, f)
    BY <1>1, <1>3, <1>4, <1>6, <2>2, OneMore DEF CountExact, CountWith
  <2> QED BY <2>1, <2>2
<1>11. LoadInv'
  BY <1>1, <1>3, <1>6, <1>9 DEF LoadInv
<1>12. OrderInv'
  BY <1>1, <1>3, <1>6, CutAfter
<1>13. ControlInv' /\ GrowInv' /\ CopyInv' /\ RemoveInv'
  BY <1>1 DEF ControlInv, GrowInv, CopyInv, RemoveInv, Removing, Copying
<1> QED BY <1>8, <1>10, <1>11, <1>12, <1>13

LEMMA InsertRemove ==
  ASSUME IInv, Insert, caller = "remove"
  PROVE  IInv'
<1> USE DEF IInv
<1> DEFINE f == find_entry(slots, pending.key)
<1>1. /\ phase = "insert" /\ phase' = "rehash" /\ caller' = "program" /\ pending' = Free
      /\ UNCHANGED <<hashOf, old, growAt, source, hole>> /\ at' = Succ(slots, at)
      /\ f \in Slots(slots) /\ count' = CountWith(slots, f)
      /\ slots' = Written(slots, f, pending)
  BY InsertRoom DEF Return, NextAt
<1>2. PICK w : w = Written(slots, f, pending)
  OBVIOUS
<1>3. PICK v : v = Written(slots, at, pending)
  OBVIOUS
<1>4. /\ pending \in Entries /\ pending # Free
      /\ IsTable(slots) /\ hashOf \in [Keys -> Hashes]
      /\ at \in Slots(slots) /\ ~Occupied(slots, at) /\ hole \in Slots(slots)
  BY <1>1, EntryKinds DEF KindInv, ControlInv, RemoveInv, Removing
<1>5. OneEach(v) /\ \E c \in Slots(slots) : Cut(v, c) \/ Mending(v, c, hole, at)
  BY <1>3 DEF OrderInv, Removing, Whole
<1>6. PICK c \in Slots(slots) : Cut(v, c) \/ Mending(v, c, hole, at)
  BY <1>5
<1>7. /\ ~Occupied(slots, f) /\ IsTable(w) /\ OneEach(w)
      /\ Slots(w) = Slots(slots) /\ Capacity(w) = Capacity(slots)
      /\ OccupiedSlots(w) = OccupiedSlots(slots) \cup {f} /\ f \notin OccupiedSlots(slots)
      /\ Cut(w, c) \/ Mending(w, c, hole, Succ(w, at))
  <2>1. f = find_entry(slots, pending.key)
    OBVIOUS
  <2> HIDE DEF f
  <2> QED BY <1>2, <1>3, <1>4, <1>5, <1>6, <2>1, MendGoesOn
<1>8. slots' = w
  BY <1>1, <1>2
<1>9. Succ(w, at) = Succ(slots, at) /\ Succ(slots, at) \in Slots(slots) /\ Succ(slots, at) \in Nat
  BY <1>4, <1>7, SameWay, SuccSlot, TableShape
<1>10. KindInv'
  <2>1. at' \in Nat /\ hole' \in Slots(slots') /\ IsTable(slots')
    BY <1>1, <1>4, <1>7, <1>8, <1>9
  <2>2. Free \in Entries
    BY EntryKinds
  <2> QED BY <1>1, <2>1, <2>2 DEF KindInv, Phases, Callers
<1>11. count' = count + 1
  BY <1>1, <1>7 DEF CountWith
<1>12. CountExact'
  BY <1>4, <1>7, <1>8, <1>11, OneMore DEF CountExact
<1>13. LoadInv'
  BY <1>1, <1>7, <1>8, <1>11 DEF LoadInv
<1>14. ControlInv' /\ GrowInv' /\ CopyInv' /\ RemoveInv'
  BY <1>1, <1>7, <1>8, <1>9 DEF ControlInv, GrowInv, CopyInv, RemoveInv, Removing, Copying
<1>15. Whole' = w /\ Removing' /\ c \in Slots(slots')
  BY <1>1, <1>7, <1>8 DEF Whole, Removing
<1>16. OrderInv'
  BY <1>1, <1>7, <1>9, <1>15, MendAfter
<1> QED BY <1>10, <1>12, <1>13, <1>14, <1>16

LEMMA InsertCopy ==
  ASSUME IInv, Insert, caller = "copy"
  PROVE  IInv'
<1> USE DEF IInv
<1> DEFINE f == find_entry(slots, pending.key)
<1>1. /\ phase = "insert" /\ phase' = "copy" /\ caller' = "program" /\ pending' = Free
      /\ UNCHANGED <<hashOf, old, growAt, source, hole>> /\ at' = at + 1
      /\ f # Nowhere /\ f \in Slots(slots) /\ count' = CountWith(slots, f)
      /\ slots' = Written(slots, f, pending)
  BY InsertRoom DEF Return, NextAt
<1>2. PICK w : w = Written(slots, f, pending)
  OBVIOUS
<1>3. slots' = w
  BY <1>1, <1>2
<1>4. /\ pending \in Entries /\ pending # Free /\ pending.key \in Keys
      /\ IsTable(slots) /\ hashOf \in [Keys -> Hashes]
  BY <1>1, EntryKinds DEF KindInv, ControlInv
<1>5. OneEach(slots) /\ Ordered(slots)
  BY <1>1 DEF OrderInv, Removing, Whole
<1>6. /\ IsTable(source) /\ OneEach(source) /\ Capacity(source) = Capacity(slots)
      /\ at \in OccupiedSlots(source) /\ pending = source[at] /\ at \in 0 .. Capacity(source)
      /\ count = Cardinality(Below(source, at))
      /\ 4 * (Cardinality(OccupiedSlots(source)) - 1) <= 3 * Capacity(source)
      /\ {slots[u] : u \in OccupiedSlots(slots)} = {source[s] : s \in Below(source, at)}
  BY DEF CopyInv, Copying
<1>7. \A u \in OccupiedSlots(slots) : slots[u].key # pending.key
  <2> SUFFICES ASSUME NEW u \in OccupiedSlots(slots), slots[u].key = pending.key
               PROVE  FALSE
    OBVIOUS
  <2>1. PICK s \in Below(source, at) : slots[u] = source[s]
    BY <1>6
  <2>2. s \in OccupiedSlots(source) /\ s < at
    BY DEF Below
  <2>3. s = at
    BY <1>6, <2>1, <2>2 DEF OneEach
  <2> QED BY <1>6, <2>2, <2>3
<1>8. ~Occupied(slots, f)
  <2>1. Stops(slots, pending.key, f)
    BY <1>1, <1>4, FoundOrNowhere, FindsFirst
  <2> QED BY <1>1, <1>7, <2>1 DEF Stops, OccupiedSlots
<1>9. /\ IsTable(w) /\ OneEach(w) /\ Ordered(w) /\ Capacity(w) = Capacity(slots)
      /\ OccupiedSlots(w) = OccupiedSlots(slots) \cup {f} /\ f \notin OccupiedSlots(slots)
      /\ \A s \in OccupiedSlots(slots) : w[s] = slots[s]
      /\ w[f] = pending
  <2>1. f = find_entry(slots, pending.key) /\ f \in Slots(slots)
    BY <1>1
  <2> HIDE DEF f
  <2> QED BY <1>2, <1>4, <1>5, <1>8, <2>1, PutInNew
<1>10. /\ Cardinality(Below(source, at + 1)) = count + 1
       /\ Below(source, at + 1) = Below(source, at) \cup {at}
       /\ at + 1 \in 0 .. Capacity(source) /\ at + 1 \in Nat
  <2>1. at \in 0 .. Capacity(source) - 1 /\ Capacity(source) \in Nat
    BY <1>6, TableShape
  <2> QED BY <1>6, <2>1, BelowCount
<1>11. {w[u] : u \in OccupiedSlots(w)} = {source[s] : s \in Below(source, at + 1)}
  <2>1. {w[u] : u \in OccupiedSlots(w)} = {slots[u] : u \in OccupiedSlots(slots)} \cup {pending}
    BY <1>9
  <2>2. {source[s] : s \in Below(source, at + 1)}
          = {source[s] : s \in Below(source, at)} \cup {pending}
    BY <1>6, <1>10
  <2> QED BY <1>6, <2>1, <2>2
<1>12. count' = count + 1
  BY <1>1, <1>8 DEF CountWith
<1>13. hole \in Slots(w)
  BY <1>4, <1>9, TableShape DEF KindInv
<1>14. KindInv'
  BY <1>1, <1>3, <1>9, <1>10, <1>13, EntryKinds DEF KindInv, Phases, Callers
<1>15. CountExact'
  BY <1>3, <1>4, <1>9, <1>12, OneMore DEF CountExact
<1>16. CopyInv'
  BY <1>1, <1>3, <1>6, <1>9, <1>10, <1>11, <1>12 DEF CopyInv
<1>17. OrderInv'
  BY <1>1, <1>3, <1>9, CutAfter
<1>18. ControlInv' /\ LoadInv' /\ GrowInv' /\ RemoveInv'
  BY <1>1 DEF ControlInv, LoadInv, GrowInv, RemoveInv, Removing
<1> QED BY <1>14, <1>15, <1>16, <1>17, <1>18

LEMMA InsertStep == ASSUME IInv, Insert PROVE IInv'
<1>1. caller \in Callers
  BY DEF IInv, KindInv
<1> QED BY <1>1, InsertProgram, InsertRemove, InsertCopy DEF Callers

LEMMA IdleTable ==
  ASSUME IInv, phase = "idle"
  PROVE  /\ caller = "program" /\ ~Removing /\ ~Copying
         /\ IsTable(slots) /\ hashOf \in [Keys -> Hashes]
         /\ OneEach(slots) /\ Ordered(slots)
BY DEF IInv, KindInv, ControlInv, OrderInv, Whole, Removing, Copying

LEMMA RemoveStep == ASSUME IInv, Remove PROVE IInv'
<1> USE DEF IInv
<1>1. /\ phase = "idle" /\ caller = "program" /\ caller' = "program"
      /\ UNCHANGED <<hashOf, pending, old, growAt, source>>
      /\ IsTable(slots) /\ hashOf \in [Keys -> Hashes] /\ OneEach(slots) /\ Ordered(slots)
  BY IdleTable DEF Remove
<1>2. CASE UNCHANGED <<slots, count, hole, at, phase>>
  <2>1. OrderInv'
    BY <1>1, <1>2, CutAfter
  <2>2. KindInv' /\ CountExact' /\ ControlInv' /\ LoadInv' /\ GrowInv' /\ CopyInv' /\ RemoveInv'
    BY <1>1, <1>2 DEF KindInv, CountExact, ControlInv, LoadInv, GrowInv, CopyInv,
                      RemoveInv, Removing, Copying
  <2> QED BY <2>1, <2>2
<1>3. CASE ~UNCHANGED <<slots, count, hole, at, phase>>
  <2>1. PICK k \in Keys :
          /\ Finds(slots, k)
          /\ slots' = Written(slots, find_entry(slots, k), Free) /\ count' = count - 1
          /\ hole' = find_entry(slots, k) /\ at' = Succ(slots, find_entry(slots, k))
          /\ phase' = "rehash"
    BY <1>3 DEF Remove, AfterErase, Written
  <2>2. PICK h : h = find_entry(slots, k)
    OBVIOUS
  <2>3. h \in OccupiedSlots(slots)
    BY <1>1, <2>1, <2>2, FindsExactly
  <2>4. PICK w : w = Written(slots, h, Free)
    OBVIOUS
  <2>5. slots' = w /\ hole' = h /\ at' = Succ(slots, h)
    BY <2>1, <2>2, <2>4
  <2>6. /\ IsTable(w) /\ OneEach(w) /\ Slots(w) = Slots(slots) /\ Capacity(w) = Capacity(slots)
        /\ OccupiedSlots(w) = OccupiedSlots(slots) \ {h} /\ h \in Slots(slots)
    BY <1>1, <2>3, <2>4, Emptied
  <2>7. PICK c \in Slots(slots) : Cut(slots, c)
    BY <1>1 DEF Ordered
  <2>8. Cut(w, c) \/ Mending(w, c, h, Succ(w, h))
    BY <1>1, <2>3, <2>4, <2>7, MendBegins
  <2>9. Succ(w, h) = Succ(slots, h) /\ Succ(slots, h) \in Slots(slots) /\ Succ(slots, h) \in Nat
    BY <1>1, <2>6, SameWay, SuccSlot, TableShape
  <2>10. KindInv'
    BY <1>1, <2>1, <2>5, <2>6, <2>9 DEF KindInv, Phases
  <2>11. CountExact'
    BY <1>1, <2>1, <2>3, <2>5, <2>6, OneLess DEF CountExact
  <2>12. LoadInv'
    BY <1>1, <2>1, <2>5, <2>6 DEF LoadInv
  <2>13. ControlInv' /\ GrowInv' /\ CopyInv' /\ RemoveInv'
    BY <1>1, <2>1, <2>5, <2>6, <2>9 DEF ControlInv, GrowInv, CopyInv, RemoveInv, Copying
  <2>14. Whole' = w /\ Removing' /\ c \in Slots(slots')
    BY <1>1, <2>1, <2>5, <2>6 DEF Whole, Removing
  <2>15. OrderInv'
    BY <1>1, <2>5, <2>6, <2>8, <2>9, <2>14, MendAfter
  <2> QED BY <2>10, <2>11, <2>12, <2>13, <2>15
<1> QED BY <1>2, <1>3

LEMMA DisplaceStep == ASSUME IInv, Displace PROVE IInv'
<1> USE DEF IInv
<1>1. /\ phase = "rehash" /\ caller = "program" /\ phase' = "set" /\ caller' = "remove"
      /\ at # hole /\ Occupied(slots, at) /\ count' = count - 1 /\ pending' = slots[at]
      /\ slots' = Written(slots, at, Free)
      /\ UNCHANGED <<hashOf, old, growAt, source, hole, at>>
  BY DEF Displace, ControlInv, CountWithout, Written
<1>2. PICK w : w = Written(slots, at, Free)
  OBVIOUS
<1>3. /\ slots' = w /\ IsTable(slots) /\ at \in Slots(slots) /\ at \in OccupiedSlots(slots)
      /\ OneEach(slots)
  BY <1>1, <1>2 DEF KindInv, ControlInv, Removing, OccupiedSlots, OrderInv, Whole
<1>4. /\ IsTable(w) /\ OneEach(w) /\ Slots(w) = Slots(slots) /\ Capacity(w) = Capacity(slots)
      /\ OccupiedSlots(w) = OccupiedSlots(slots) \ {at} /\ ~Occupied(w, at)
  BY <1>2, <1>3, Emptied
<1>5. pending' \in Entries /\ pending'.key \in Keys
  BY <1>1, <1>3, TableShape
<1>6. KindInv'
  BY <1>1, <1>3, <1>4, <1>5 DEF KindInv, Phases, Callers
<1>7. CountExact'
  BY <1>1, <1>3, <1>4, OneLess DEF CountExact
<1>8. count \in Nat /\ Capacity(slots) \in Nat
  BY <1>3, CountKinds, TableShape DEF CountExact
<1>9. LoadInv'
  BY <1>1, <1>3, <1>4, <1>8 DEF LoadInv
<1>10. ControlInv' /\ GrowInv' /\ CopyInv' /\ RemoveInv'
  BY <1>1, <1>3, <1>4, <1>5 DEF ControlInv, GrowInv, CopyInv, RemoveInv, Removing, Copying
<1>11. PICK t : t = slots
  OBVIOUS
<1>12. Whole' = t
  <2>1. Written(w, at, t[at]) = t
    BY <1>2, <1>3, <1>11, PutBack
  <2>2. Whole' = Written(w, at, t[at])
    BY <1>1, <1>3, <1>11 DEF Whole, Written
  <2> QED BY <2>1, <2>2
<1>13. PICK c \in Slots(slots) : Cut(slots, c) \/ Mending(slots, c, hole, at)
  BY <1>1 DEF OrderInv, Removing, Whole
<1>14. Removing' /\ c \in Slots(slots')
  BY <1>1, <1>3, <1>4 DEF Removing
<1>15. OrderInv'
  <2>1. PICK h : h = hole
    OBVIOUS
  <2>2. PICK a : a = at
    OBVIOUS
  <2>3. /\ OneEach(t) /\ hole' = h /\ at' = a /\ hashOf' = hashOf
        /\ Cut(t, c) \/ Mending(t, c, h, a)
    BY <1>1, <1>3, <1>11, <1>13, <2>1, <2>2
  <2> QED BY <1>12, <1>14, <2>3, MendAfter
<1> QED BY <1>6, <1>7, <1>9, <1>10, <1>15

LEMMA EndRehashStep == ASSUME IInv, EndRehash PROVE IInv'
<1> USE DEF IInv
<1>1. /\ phase = "rehash" /\ caller = "program" /\ phase' = "idle" /\ caller' = "program"
      /\ at = hole \/ ~Occupied(slots, at)
      /\ hole' = 0 /\ at' = 0
      /\ UNCHANGED <<hashOf, slots, count, pending, old, growAt, source>>
  BY DEF EndRehash, ControlInv
<1>2. /\ IsTable(slots) /\ OneEach(slots) /\ hashOf \in [Keys -> Hashes]
      /\ at \in Slots(slots) /\ hole \in Slots(slots)
  BY <1>1 DEF KindInv, OrderInv, Whole, ControlInv, Removing
<1>3. PICK c \in Slots(slots) : Cut(slots, c) \/ Mending(slots, c, hole, at)
  BY <1>1 DEF OrderInv, Removing, Whole
<1>4. Cut(slots, c)
  <2>1. CASE Cut(slots, c)
    BY <2>1
  <2>2. CASE Mending(slots, c, hole, at)
    <3>1. Place(slots, c, hole) \in Int
      BY <1>2, Places
    <3>2. at # hole
      BY <2>2, <3>1 DEF Mending
    <3> QED BY <1>1, <1>2, <2>2, <3>2, MendEnds
  <2> QED BY <1>3, <2>1, <2>2
<1>5. OrderInv'
  BY <1>1, <1>2, <1>4, CutAfter DEF Ordered
<1>6. KindInv'
  BY <1>1, <1>2, TableShape DEF KindInv, Phases
<1>7. LoadInv'
  <2>1. count \in Nat /\ Capacity(slots) \in Nat
    BY <1>2, CountKinds, TableShape DEF CountExact
  <2> QED BY <1>1, <2>1 DEF LoadInv
<1>8. CountExact' /\ ControlInv' /\ GrowInv' /\ CopyInv' /\ RemoveInv'
  BY <1>1 DEF CountExact, ControlInv, GrowInv, CopyInv, RemoveInv, Removing, Copying
<1> QED BY <1>5, <1>6, <1>7, <1>8

\* map_clear, and the new map of map_copy.
LEMMA NewTableOrder ==
  ASSUME NEW n \in Nat, n > 0, slots' = NewTable(n), count' = 0, hashOf' = hashOf,
         phase' # "rehash", caller' # "remove"
  PROVE  /\ OrderInv' /\ CountExact' /\ IsTable(slots') /\ Capacity(slots') = n
         /\ OccupiedSlots(slots') = {} /\ Slots(slots') = 0 .. n - 1
<1>1. PICK t : t = NewTable(n)
  OBVIOUS
<1>2. /\ IsTable(t) /\ Capacity(t) = n /\ OccupiedSlots(t) = {}
      /\ Slots(t) = 0 .. n - 1
  BY <1>1, EmptyTable, TableShape
<1>3. OneEach(t) /\ Ordered(t)
  BY <1>2, 0 \in 0 .. n - 1 DEF OneEach, Ordered, Cut
<1>4. slots' = t
  BY <1>1
<1>5. OrderInv'
  BY <1>3, <1>4, CutAfter
<1>6. CountExact'
  BY <1>2, <1>4, FS_EmptySet DEF CountExact
<1> QED BY <1>2, <1>4, <1>5, <1>6

LEMMA ClearStep == ASSUME IInv, Clear PROVE IInv'
<1> USE DEF IInv
<1>1. /\ phase = "idle" /\ phase' = "idle" /\ caller = "program" /\ caller' = "program"
      /\ slots' = NewTable(Capacity(slots)) /\ count' = 0
      /\ UNCHANGED <<hashOf, pending, old, growAt, source, hole, at>>
  BY IdleTable DEF Clear
<1>2. Capacity(slots) \in Nat /\ Capacity(slots) > 0 /\ Slots(slots) = 0 .. Capacity(slots) - 1
  BY TableShape DEF KindInv
<1>3. PICK n : n = Capacity(slots)
  OBVIOUS
<1>4. /\ OrderInv' /\ CountExact' /\ IsTable(slots') /\ Capacity(slots') = Capacity(slots)
      /\ Slots(slots') = Slots(slots)
  BY <1>1, <1>2, <1>3, NewTableOrder
<1>5. KindInv'
  BY <1>1, <1>4 DEF KindInv
<1>6. LoadInv' /\ ControlInv' /\ GrowInv' /\ CopyInv' /\ RemoveInv'
  BY <1>1, <1>2, <1>4 DEF LoadInv, ControlInv, GrowInv, CopyInv, RemoveInv, Removing, Copying
<1> QED BY <1>4, <1>5, <1>6

LEMMA CopyStep == ASSUME IInv, Copy PROVE IInv'
<1> USE DEF IInv
<1>1. /\ phase = "idle" /\ phase' = "copy" /\ caller = "program" /\ caller' = "program"
      /\ slots' = NewTable(Capacity(slots)) /\ count' = 0 /\ source' = slots /\ at' = 0
      /\ UNCHANGED <<hashOf, pending, old, growAt, hole>>
  BY IdleTable DEF Copy
<1>2. /\ Capacity(slots) \in Nat /\ Capacity(slots) > 0 /\ Slots(slots) = 0 .. Capacity(slots) - 1
      /\ IsTable(slots) /\ OneEach(slots)
  BY <1>1, IdleTable, TableShape
<1>3. PICK n : n = Capacity(slots)
  OBVIOUS
<1>4. /\ OrderInv' /\ CountExact' /\ IsTable(slots') /\ Capacity(slots') = Capacity(slots)
      /\ Slots(slots') = Slots(slots) /\ OccupiedSlots(slots') = {}
  BY <1>1, <1>2, <1>3, NewTableOrder
<1>5. KindInv'
  BY <1>1, <1>4 DEF KindInv, Phases
<1>6. CopyInv'
  <2>1. Below(slots, 0) = {} /\ 0 \in 0 .. Capacity(slots)
    BY <1>2, BelowCount
  <2>2. 4 * (Cardinality(OccupiedSlots(slots)) - 1) <= 3 * Capacity(slots)
    BY <1>1 DEF LoadInv, CountExact
  <2>3. Below(source, at)' = {}
    BY <1>1, <2>1
  <2>4. {slots[u] : u \in OccupiedSlots(slots)}' = {source[s] : s \in Below(source, at)}'
    BY <1>4, <2>3
  <2>5. count' = Cardinality(Below(source, at)')
    BY <1>1, <2>3, FS_EmptySet
  <2> QED BY <1>1, <1>2, <1>4, <2>1, <2>2, <2>4, <2>5 DEF CopyInv
<1>7. LoadInv' /\ ControlInv' /\ GrowInv' /\ RemoveInv'
  BY <1>1, <1>2, <1>4 DEF LoadInv, ControlInv, GrowInv, RemoveInv, Removing
<1> QED BY <1>4, <1>5, <1>6, <1>7

LEMMA CopyNextStep == ASSUME IInv, CopyNext PROVE IInv'
<1> USE DEF IInv
<1>1. /\ phase = "copy" /\ caller = "program" /\ at \in Slots(source)
      /\ UNCHANGED <<hashOf, slots, count, old, growAt, source, hole>>
  BY DEF CopyNext, ControlInv
<1>2. /\ IsTable(source) /\ OneEach(source) /\ Capacity(source) = Capacity(slots)
      /\ count = Cardinality(Below(source, at))
      /\ 4 * (Cardinality(OccupiedSlots(source)) - 1) <= 3 * Capacity(source)
      /\ {slots[u] : u \in OccupiedSlots(slots)} = {source[s] : s \in Below(source, at)}
      /\ at \in 0 .. Capacity(source)
  BY <1>1 DEF CopyInv, Copying
<1>3. OneEach(slots) /\ Ordered(slots)
  BY <1>1 DEF OrderInv, Removing, Whole
<1>4. /\ at \in 0 .. Capacity(source) - 1 /\ Capacity(source) \in Nat
      /\ Cardinality(OccupiedSlots(source)) \in Nat
  BY <1>1, <1>2, TableShape, CountKinds
<1>5. CountExact' /\ GrowInv'
  BY <1>1 DEF CopyNext, CountExact, GrowInv
<1>6. CASE Occupied(source, at)
  <2>1. pending' = source[at] /\ caller' = "copy" /\ phase' = "set" /\ at' = at
    BY <1>6 DEF CopyNext
  <2>2. at \in OccupiedSlots(source)
    BY <1>1, <1>6 DEF OccupiedSlots
  <2>3. source[at] \in Entries /\ source[at].key \in Keys
    BY <1>2, <2>2, TableShape
  <2>4. KindInv'
    BY <1>1, <2>1, <2>3 DEF KindInv, Phases, Callers
  <2>5. OrderInv'
    BY <1>1, <1>3, <2>1, CutAfter
  <2>6. CopyInv'
    BY <1>1, <1>2, <2>1, <2>2 DEF CopyInv
  <2>7. count <= Cardinality(OccupiedSlots(source)) /\ count \in Nat
    BY <1>2, BelowCount
  <2>8. LoadInv'
    BY <1>1, <1>2, <1>4, <2>1, <2>7 DEF LoadInv
  <2>9. ControlInv' /\ RemoveInv'
    BY <1>1, <2>1, <2>3 DEF ControlInv, RemoveInv, Removing
  <2> QED BY <1>5, <2>4, <2>5, <2>6, <2>8, <2>9
<1>7. CASE ~Occupied(source, at)
  <2>1. pending' = pending /\ caller' = "program" /\ phase' = "copy" /\ at' = at + 1
    BY <1>1, <1>7 DEF CopyNext
  <2>2. at \notin OccupiedSlots(source)
    BY <1>7 DEF OccupiedSlots
  <2>3. Below(source, at + 1) = Below(source, at)
    BY <1>2, <2>2, BelowCount
  <2>4. at + 1 \in Nat /\ at + 1 \in 0 .. Capacity(source)
    BY <1>4
  <2>5. KindInv'
    BY <1>1, <2>1, <2>4 DEF KindInv, Phases, Callers
  <2>6. OrderInv'
    BY <1>1, <1>3, <2>1, CutAfter
  <2>7. Below(source, at)' = Below(source, at)
    BY <1>1, <2>1, <2>3
  <2>8. CopyInv'
    <3>1. {slots[u] : u \in OccupiedSlots(slots)}' = {source[s] : s \in Below(source, at)}'
      BY <1>1, <1>2, <2>7
    <3>2. count' = Cardinality(Below(source, at)')
      BY <1>1, <1>2, <2>7
    <3> QED BY <1>1, <1>2, <2>1, <2>4, <3>1, <3>2 DEF CopyInv
  <2>9. ControlInv' /\ RemoveInv' /\ LoadInv'
    BY <1>1, <2>1 DEF ControlInv, RemoveInv, LoadInv, Removing
  <2> QED BY <1>5, <2>5, <2>6, <2>8, <2>9
<1> QED BY <1>6, <1>7

LEMMA EndCopyStep == ASSUME IInv, EndCopy PROVE IInv'
<1> USE DEF IInv
<1>1. /\ phase = "copy" /\ caller = "program" /\ at \notin Slots(source)
      /\ phase' = "idle" /\ caller' = "program" /\ at' = 0
      /\ UNCHANGED <<hashOf, slots, count, pending, old, growAt, hole>>
  BY DEF EndCopy, ControlInv
<1>2. /\ IsTable(source) /\ Capacity(source) = Capacity(slots)
      /\ count = Cardinality(Below(source, at)) /\ at \in 0 .. Capacity(source)
      /\ 4 * (Cardinality(OccupiedSlots(source)) - 1) <= 3 * Capacity(source)
  BY <1>1 DEF CopyInv, Copying
<1>3. at = Capacity(source)
  BY <1>1, <1>2, TableShape
<1>4. 4 * (count - 1) <= 3 * Capacity(slots)
  BY <1>2, <1>3, BelowCount
<1>5. OrderInv'
  <2>1. OneEach(slots) /\ Ordered(slots)
    BY <1>1 DEF OrderInv, Removing, Whole
  <2> QED BY <1>1, <2>1, CutAfter
<1>6. KindInv' /\ CountExact'
  BY <1>1 DEF KindInv, CountExact, Phases
<1>7. LoadInv' /\ ControlInv' /\ GrowInv' /\ CopyInv' /\ RemoveInv'
  BY <1>1, <1>4 DEF LoadInv, ControlInv, GrowInv, CopyInv, RemoveInv, Removing, Copying
<1> QED BY <1>5, <1>6, <1>7

\* Asking, and steps of others, leave the map alone.
LEMMA SameMap ==
  ASSUME IInv,
         UNCHANGED <<hashOf, slots, count, phase, caller, pending, old, growAt, source, hole, at>>
  PROVE  IInv'
<1> USE DEF IInv
<1>1. KindInv' /\ CountExact' /\ ControlInv' /\ LoadInv' /\ GrowInv' /\ CopyInv' /\ RemoveInv'
  BY ZenonT(60) DEF KindInv, CountExact, ControlInv, LoadInv, GrowInv, CopyInv, RemoveInv, Removing, Copying
<1>2. OrderInv'
  BY DEF OrderInv, Whole, Removing, Ordered, Cut, Mending, Passed, Home
<1> QED BY <1>1, <1>2

LEMMA Keeps == IInv /\ [Next]_vars => IInv'
<1> SUFFICES ASSUME IInv, [Next]_vars PROVE IInv'
  OBVIOUS
<1>1. CASE UNCHANGED vars
  BY <1>1, SameMap DEF vars
<1>2. CASE Program
  <2>1. CASE Get \/ HasKey
    BY <2>1, SameMap DEF Get, HasKey
  <2> QED BY <1>2, <2>1, SetStep, RemoveStep, ClearStep, CopyStep DEF Program
<1>3. CASE Internal
  BY <1>3, NoGrowthStep, ExpandStep, ReinsertStep, ExpandedStep, InsertStep, DisplaceStep,
     EndRehashStep, CopyNextStep, EndCopyStep DEF Internal
<1> QED BY <1>1, <1>2, <1>3 DEF Next

\* At every step of every operation the table of value_map.c is in order: its
\* counter is right, every entry can be found, and no loop is about to lose an
\* entry or to grow the table under its own index.
THEOREM TableStaysSound == Spec => []TableSound
<1>1. Spec => []IInv
  BY Begins, Keeps, PTL DEF Spec
<1> QED BY <1>1, Sound, PTL

-----------------------------------------------------------------------------
(* The map as a function.                                                  *)

\* The entries of a table.
Here(t) == {t[s] : s \in OccupiedSlots(t)}

OnePerKey(S) ==
  /\ \A e \in S : e \in Entries /\ e.key \in Keys
  /\ \A e, d \in S : e.key = d.key => e = d

\* The function that a set of entries stands for.
Meaning(S) ==
  [k \in Keys |-> IF \E e \in S : e.key = k THEN (CHOOSE e \in S : e.key = k).value ELSE Absent]

LEMMA MeaningAt ==
  ASSUME NEW S, OnePerKey(S)
  PROVE  /\ \A e \in S : Meaning(S)[e.key] = e.value /\ e.value # Absent
         /\ \A k \in Keys : (\A e \in S : e.key # k) => Meaning(S)[k] = Absent
<1>1. ASSUME NEW e \in S PROVE Meaning(S)[e.key] = e.value
  <2>1. e.key \in Keys
    BY DEF OnePerKey
  <2>2. Meaning(S)[e.key] = (CHOOSE d \in S : d.key = e.key).value
    BY <2>1 DEF Meaning
  <2>3. PICK x : x = CHOOSE d \in S : d.key = e.key
    OBVIOUS
  <2>4. x \in S /\ x.key = e.key
    BY <2>3
  <2>5. x = e
    BY <2>4 DEF OnePerKey
  <2> QED BY <2>2, <2>3, <2>5
<1>2. ASSUME NEW e \in S PROVE e.value # Absent
  <2>1. e \in [key : Keys, value : Values]
    BY EntryKinds DEF OnePerKey
  <2> QED BY <2>1, MapAssumption
<1>3. ASSUME NEW k \in Keys, \A e \in S : e.key # k PROVE Meaning(S)[k] = Absent
  BY <1>3 DEF Meaning
<1> QED BY <1>1, <1>2, <1>3

LEMMA MeaningSame ==
  ASSUME NEW S, NEW T, OnePerKey(S), OnePerKey(T), NEW k \in Keys,
         \A x : x.key # k => (x \in S <=> x \in T)
  PROVE  \A j \in Keys : j # k => Meaning(T)[j] = Meaning(S)[j]
<1> SUFFICES ASSUME NEW j \in Keys, j # k PROVE Meaning(T)[j] = Meaning(S)[j]
  OBVIOUS
<1>1. CASE \E e \in S : e.key = j
  <2>1. PICK e \in S : e.key = j
    BY <1>1
  <2>2. e \in T
    BY <2>1
  <2> QED BY <2>1, <2>2, MeaningAt
<1>2. CASE ~\E e \in S : e.key = j
  <2>1. \A e \in T : e.key # j
    BY <1>2
  <2> QED BY <1>2, <2>1, MeaningAt
<1> QED BY <1>1, <1>2

\* One key gets a value, or loses it.
LEMMA MeaningPut ==
  ASSUME NEW S, NEW T, OnePerKey(S), OnePerKey(T), NEW e \in T,
         \A x : x.key # e.key => (x \in S <=> x \in T)
  PROVE  Meaning(T) = [Meaning(S) EXCEPT ![e.key] = e.value]
<1>1. e.key \in Keys
  BY DEF OnePerKey
<1>2. \A j \in Keys : j # e.key => Meaning(T)[j] = Meaning(S)[j]
  BY <1>1, MeaningSame
<1>3. Meaning(T)[e.key] = e.value
  BY MeaningAt
<1>4. DOMAIN Meaning(S) = Keys /\ DOMAIN Meaning(T) = Keys
  BY DEF Meaning
<1>5. Meaning(T) = [j \in Keys |-> Meaning(T)[j]]
  BY DEF Meaning
<1> HIDE DEF Meaning
<1>6. [Meaning(S) EXCEPT ![e.key] = e.value]
        = [j \in Keys |-> IF j = e.key THEN e.value ELSE Meaning(S)[j]]
  BY <1>4
<1> QED BY <1>2, <1>3, <1>5, <1>6

LEMMA MeaningDrop ==
  ASSUME NEW S, NEW T, OnePerKey(S), OnePerKey(T), NEW k \in Keys,
         \A x \in T : x.key # k,
         \A x : x.key # k => (x \in S <=> x \in T)
  PROVE  Meaning(T) = [Meaning(S) EXCEPT ![k] = Absent]
<1>1. \A j \in Keys : j # k => Meaning(T)[j] = Meaning(S)[j]
  BY MeaningSame
<1>2. Meaning(T)[k] = Absent
  BY MeaningAt
<1>3. DOMAIN Meaning(S) = Keys /\ DOMAIN Meaning(T) = Keys
  BY DEF Meaning
<1>4. Meaning(T) = [j \in Keys |-> Meaning(T)[j]]
  BY DEF Meaning
<1>5. [Meaning(S) EXCEPT ![k] = Absent]
        = [j \in Keys |-> IF j = k THEN Absent ELSE Meaning(S)[j]]
  BY <1>3
<1> QED BY <1>1, <1>2, <1>4, <1>5

LEMMA ContentsMeaning == Contents = Meaning(Stored) /\ Contents' = Meaning(Stored')
BY DEF Contents, Meaning

\* Where an entry is put in.
LEMMA HerePut ==
  ASSUME NEW t, IsTable(t), hashOf \in [Keys -> Hashes],
         NEW e \in Entries, e # Free,
         NEW f \in Slots(t), f = find_entry(t, e.key),
         \A s \in OccupiedSlots(t) : t[s].key = e.key => s = f,
         NEW w, w = Written(t, f, e)
  PROVE  Here(w) = {x \in Here(t) : x.key # e.key} \cup {e}
<1>1. e.key \in Keys /\ f # Nowhere
  BY EntryKinds, TableShape DEF Nowhere
<1>2. Stops(t, e.key, f)
  BY <1>1, FoundOrNowhere, FindsFirst
<1>3. /\ w[f] = e /\ \A u \in Slots(t) : u # f => w[u] = t[u]
      /\ OccupiedSlots(w) = OccupiedSlots(t) \cup {f}
  BY WriteSlot
<1>4. f \in OccupiedSlots(t) => t[f].key = e.key
  BY <1>2 DEF Stops, OccupiedSlots
<1>5. OccupiedSlots(t) \subseteq Slots(t)
  BY DEF OccupiedSlots
<1>6. ASSUME NEW x \in Here(w) PROVE x = e \/ (x \in Here(t) /\ x.key # e.key)
  <2>1. PICK s \in OccupiedSlots(w) : x = w[s]
    BY DEF Here
  <2>2. CASE s = f
    BY <1>3, <2>1, <2>2
  <2>3. CASE s # f
    <3>1. s \in OccupiedSlots(t) /\ x = t[s]
      BY <1>3, <1>5, <2>1, <2>3
    <3> QED BY <2>3, <3>1 DEF Here
  <2> QED BY <2>2, <2>3
<1>7. ASSUME NEW x \in Here(t), x.key # e.key PROVE x \in Here(w)
  <2>1. PICK s \in OccupiedSlots(t) : x = t[s]
    BY DEF Here
  <2>2. s # f
    BY <1>4, <1>7, <2>1
  <2>3. s \in OccupiedSlots(w) /\ x = w[s]
    BY <1>3, <1>5, <2>1, <2>2
  <2> QED BY <2>3 DEF Here
<1>8. e \in Here(w)
  BY <1>3 DEF Here
<1> QED BY <1>6, <1>7, <1>8

LEMMA HereEmptied ==
  ASSUME NEW t, IsTable(t), OneEach(t), NEW h \in OccupiedSlots(t),
         NEW w, w = Written(t, h, Free)
  PROVE  /\ Here(w) = {x \in Here(t) : x.key # t[h].key}
         /\ Here(t) = Here(w) \cup {t[h]}
<1>1. /\ OccupiedSlots(w) = OccupiedSlots(t) \ {h}
      /\ \A s \in OccupiedSlots(w) : w[s] = t[s] /\ t[s].key # t[h].key
  BY Emptied
<1> QED BY <1>1 DEF Here

-----------------------------------------------------------------------------
(* Every step is a step of the finite map, or none.                        *)

StoredOnce == OnePerKey(Stored)

\* No key has two entries, wherever in the operation the entries are.
LEMMA Once == IInv => StoredOnce
<1> SUFFICES ASSUME IInv PROVE OnePerKey(Stored)
  BY DEF StoredOnce
<1> USE DEF IInv
<1>1. ASSUME NEW t, IsTable(t), OneEach(t) PROVE OnePerKey(Here(t))
  BY <1>1, TableShape DEF OnePerKey, Here, OneEach
<1>2. CASE Copying
  <2>1. Stored = Here(source)
    BY <1>2 DEF Stored, Here, Copying
  <2> QED BY <1>1, <1>2, <2>1 DEF CopyInv
<1>3. CASE phase = "grow"
  <2> DEFINE rest == {old[s] : s \in {u \in OccupiedSlots(old) : u >= growAt}}
  <2>1. caller = "program"
    BY <1>3 DEF ControlInv
  <2>2. Stored = Here(slots) \cup rest
    BY <1>3, <2>1 DEF Stored, Here
  <2>3. OnePerKey(Here(slots)) /\ OnePerKey(Here(old))
    BY <1>1, <1>3, <2>1 DEF KindInv, GrowInv, OrderInv, Whole
  <2>4. rest \subseteq Here(old)
    BY DEF Here
  <2>5. \A x \in Here(slots), y \in rest : x.key # y.key
    BY <1>3 DEF GrowInv, Here
  <2> HIDE DEF rest
  <2> QED BY <2>2, <2>3, <2>4, <2>5 DEF OnePerKey
<1>4. CASE caller = "remove"
  <2>1. Stored = Here(slots) \cup {pending}
    BY <1>4 DEF Stored, Here, ControlInv
  <2>2. PICK v : v = Written(slots, at, pending)
    OBVIOUS
  <2>3. OneEach(v)
    BY <1>4, <2>2 DEF OrderInv, Whole
  <2>4. /\ pending \in Entries /\ pending # Free
        /\ at \in Slots(slots) /\ ~Occupied(slots, at) /\ IsTable(slots)
    BY <1>4, EntryKinds DEF KindInv, ControlInv, RemoveInv, Removing, Phases
  <2>5. /\ IsTable(v) /\ v[at] = pending
        /\ \A u \in Slots(slots) : u # at => v[u] = slots[u]
        /\ OccupiedSlots(v) = OccupiedSlots(slots) \cup {at}
    BY <2>2, <2>4, WriteSlot
  <2>6. Here(v) = Here(slots) \cup {pending}
    <3>1. at \notin OccupiedSlots(slots) /\ OccupiedSlots(slots) \subseteq Slots(slots)
      BY <2>4 DEF OccupiedSlots
    <3> QED BY <2>5, <3>1 DEF Here
  <2> QED BY <1>1, <2>1, <2>3, <2>5, <2>6
<1>5. CASE ~Copying /\ phase # "grow" /\ caller # "remove"
  <2>1. Stored = Here(slots)
    BY <1>5 DEF Stored, Here, Copying
  <2> QED BY <1>1, <1>5, <2>1 DEF KindInv, OrderInv, Whole
<1> QED BY <1>2, <1>3, <1>4, <1>5

MapStep == [Map!Next]_(Map!vars)

LEMMA Stutters ==
  ASSUME Stored' = Stored, result' = result
  PROVE  MapStep
BY ContentsMeaning DEF MapStep, Map!vars

LEMMA IdleStored ==
  ASSUME IInv, phase = "idle"
  PROVE  Stored = Here(slots)
BY IdleTable DEF Stored, Here

\* What the program asks is answered from what is stored.
LEMMA Answers ==
  ASSUME IInv, StoredOnce, phase = "idle", NEW k \in Keys
  PROVE  /\ Finds(slots, k) <=> Contents[k] # Absent
         /\ Finds(slots, k) => Contents[k] = slots[find_entry(slots, k)].value
<1>1. Stored = Here(slots) /\ OnePerKey(Here(slots)) /\ Contents = Meaning(Here(slots))
  BY IdleStored, ContentsMeaning DEF StoredOnce
<1>2. /\ Finds(slots, k) <=> \E s \in OccupiedSlots(slots) : slots[s].key = k
      /\ Finds(slots, k) => /\ find_entry(slots, k) \in OccupiedSlots(slots)
                            /\ slots[find_entry(slots, k)].key = k
  BY IdleTable, FindsExactly
<1>3. CASE Finds(slots, k)
  <2>1. slots[find_entry(slots, k)] \in Here(slots)
    BY <1>2, <1>3 DEF Here
  <2> QED BY <1>1, <1>2, <1>3, <2>1, MeaningAt
<1>4. CASE ~Finds(slots, k)
  <2>1. \A e \in Here(slots) : e.key # k
    BY <1>2, <1>4 DEF Here
  <2> QED BY <1>1, <1>4, <2>1, MeaningAt
<1> QED BY <1>3, <1>4

LEMMA SetMaps == ASSUME IInv, Set PROVE MapStep
<1>1. Stored' = Stored /\ result' = result
  BY IdleTable DEF Set, Stored
<1> QED BY <1>1, Stutters

LEMMA NoGrowthMaps == ASSUME IInv, NoGrowth PROVE MapStep
<1>1. Stored' = Stored /\ result' = result
  BY DEF NoGrowth, Stored
<1> QED BY <1>1, Stutters

LEMMA ExpandMaps == ASSUME IInv, Expand PROVE MapStep
<1>1. /\ phase = "set" /\ caller = "program" /\ phase' = "grow" /\ caller' = "program"
      /\ old' = slots /\ growAt' = 0 /\ result' = result
      /\ slots' = NewTable(2 * Capacity(slots))
  BY LoopsAreLight DEF Expand, FirstOld
<1>2. OccupiedSlots(slots') = {} /\ OccupiedSlots(slots) \subseteq Nat
  <2>1. IsTable(slots) /\ Capacity(slots) \in Nat /\ Capacity(slots) > 0
    BY TableShape DEF IInv, KindInv
  <2>2. PICK n : n = 2 * Capacity(slots)
    OBVIOUS
  <2>3. n \in Nat /\ n > 0
    BY <2>1, <2>2
  <2>4. OccupiedSlots(NewTable(n)) = {}
    BY <2>3, EmptyTable
  <2> QED BY <1>1, <2>1, <2>2, <2>4, TableShape
<1>3. Stored = {slots[s] : s \in OccupiedSlots(slots)}
  BY <1>1 DEF Stored
<1>4. Stored' = {slots'[s] : s \in OccupiedSlots(slots')}
                  \cup {slots[s] : s \in {u \in OccupiedSlots(slots) : u >= 0}}
  BY <1>1 DEF Stored
<1>5. Stored' = Stored
  BY <1>2, <1>3, <1>4
<1> QED BY <1>1, <1>5, Stutters

LEMMA ExpandedMaps == ASSUME IInv, Expanded PROVE MapStep
<1>1. /\ phase = "grow" /\ phase' = "insert" /\ caller = "program" /\ caller' = "program"
      /\ growAt \notin Slots(old) /\ UNCHANGED <<slots, result>>
  BY DEF Expanded, IInv, ControlInv
<1>2. {u \in OccupiedSlots(old) : u >= growAt} = {}
  <2>1. IsTable(old) /\ growAt \in 0 .. Capacity(old)
    BY <1>1 DEF IInv, GrowInv
  <2> QED BY <1>1, <2>1, TableShape
<1>3. Stored' = Stored
  BY <1>1, <1>2 DEF Stored
<1> QED BY <1>1, <1>3, Stutters

LEMMA ReinsertMaps == ASSUME IInv, Reinsert PROVE MapStep
<1> USE DEF IInv
<1> DEFINE e == old[growAt]
           f == find_entry(slots, e.key)
           Rest(i) == {old[s] : s \in {u \in OccupiedSlots(old) : u >= i}}
<1>1. /\ phase = "grow" /\ phase' = "grow" /\ growAt' = growAt + 1
      /\ caller = "program" /\ caller' = "program" /\ old' = old /\ result' = result
  BY DEF Reinsert, ControlInv
<1>2. /\ IsTable(old) /\ IsTable(slots) /\ hashOf \in [Keys -> Hashes]
      /\ growAt \in Slots(old) /\ growAt \in Nat
      /\ \A s \in OccupiedSlots(old) : s \in Nat
      /\ OneEach(slots) /\ Ordered(slots)
  BY <1>1, TableShape DEF Reinsert, GrowInv, KindInv, OrderInv, Removing, Whole
<1>3. Stored = Here(slots) \cup Rest(growAt)
  BY <1>1 DEF Stored, Here
<1>4. Stored' = Here(slots') \cup Rest(growAt + 1)
  BY <1>1 DEF Stored, Here
<1>5. CASE e = Free
  <2>1. slots' = slots
    BY <1>5 DEF Reinsert
  <2>2. growAt \notin OccupiedSlots(old)
    BY <1>5 DEF OccupiedSlots, Occupied
  <2>3. {u \in OccupiedSlots(old) : u >= growAt} = {u \in OccupiedSlots(old) : u >= growAt + 1}
    BY <1>2, <2>2
  <2>4. Stored' = Stored
    BY <1>3, <1>4, <2>1, <2>3
  <2> QED BY <1>1, <2>4, Stutters
<1>6. CASE e # Free
  <2>1. growAt \in OccupiedSlots(old) /\ e \in Entries /\ e.key \in Keys
    BY <1>2, <1>6, TableShape DEF OccupiedSlots, Occupied
  <2>2. f # Nowhere
    BY <1>1, <1>2, <2>1, Sound DEF TableSound, Room
  <2>3. f \in Slots(slots)
    BY <1>2, <2>1, <2>2, FoundOrNowhere
  <2>4. PutIn(e, f)
    BY <1>6, <2>2 DEF Reinsert
  <2>5. PICK w : w = Written(slots, f, e)
    OBVIOUS
  <2>6. slots' = w
    BY <2>4, <2>5, PutInWrites
  <2>7. \A s \in OccupiedSlots(slots) : slots[s].key # e.key
    BY <1>1, <1>2, <2>1 DEF GrowInv
  <2>8. Here(w) = {x \in Here(slots) : x.key # e.key} \cup {e}
    <3>1. f = find_entry(slots, e.key)
      OBVIOUS
    <3> HIDE DEF f, e
    <3> QED BY <1>2, <1>6, <2>1, <2>3, <2>5, <2>7, <3>1, HerePut
  <2>9. Here(slots') = Here(slots) \cup {e}
    BY <2>6, <2>7, <2>8 DEF Here
  <2>10. {u \in OccupiedSlots(old) : u >= growAt}
           = {u \in OccupiedSlots(old) : u >= growAt + 1} \cup {growAt}
    <3>1. \A u \in OccupiedSlots(old) : u >= growAt <=> (u >= growAt + 1 \/ u = growAt)
      BY <1>2
    <3>2. growAt \in OccupiedSlots(old) /\ growAt >= growAt
      BY <1>2, <2>1
    <3> QED BY ONLY <3>1, <3>2
  <2>11. Rest(growAt) = Rest(growAt + 1) \cup {e}
    BY <2>10
  <2>12. Stored' = Stored
    BY <1>3, <1>4, <2>9, <2>11
  <2> QED BY <1>1, <2>12, Stutters
<1> QED BY <1>5, <1>6

\* The slot that Insert writes is the only one that may have the key.
LEMMA InsertHere ==
  ASSUME IInv, Insert
  PROVE  Here(slots') = {x \in Here(slots) : x.key # pending.key} \cup {pending}
<1> USE DEF IInv
<1> DEFINE f == find_entry(slots, pending.key)
<1>1. /\ phase = "insert" /\ f \in Slots(slots) /\ f # Nowhere
      /\ slots' = Written(slots, f, pending)
  BY InsertRoom
<1>2. /\ pending \in Entries /\ pending # Free /\ pending.key \in Keys
      /\ IsTable(slots) /\ hashOf \in [Keys -> Hashes]
  BY <1>1, EntryKinds DEF KindInv, ControlInv
<1>3. \A s \in OccupiedSlots(slots) : slots[s].key = pending.key => s = f
  <2>1. CASE caller = "remove"
    <3>1. PICK v : v = Written(slots, at, pending)
      OBVIOUS
    <3>2. OneEach(v) /\ at \in Slots(slots) /\ ~Occupied(slots, at)
      BY <2>1, <3>1 DEF OrderInv, Whole, ControlInv, RemoveInv, Removing
    <3>3. /\ v[at] = pending /\ OccupiedSlots(v) = OccupiedSlots(slots) \cup {at}
          /\ \A u \in Slots(slots) : u # at => v[u] = slots[u]
      BY <1>2, <3>1, <3>2, WriteSlot
    <3>4. \A s \in OccupiedSlots(slots) : s # at /\ s \in Slots(slots)
      BY <3>2 DEF OccupiedSlots
    <3> QED BY <3>2, <3>3, <3>4 DEF OneEach
  <2>2. CASE caller # "remove"
    <3>1. OneEach(slots) /\ Ordered(slots)
      BY <1>1, <2>2 DEF OrderInv, Whole, Removing
    <3> QED BY <1>2, <3>1, CutFinds
  <2> QED BY <2>1, <2>2
<1>4. PICK w : w = Written(slots, f, pending)
  OBVIOUS
<1>5. Here(w) = {x \in Here(slots) : x.key # pending.key} \cup {pending}
  <2>1. f = find_entry(slots, pending.key) /\ f \in Slots(slots)
    BY <1>1
  <2> HIDE DEF f
  <2> QED BY <1>2, <1>3, <1>4, <2>1, HerePut
<1>6. slots' = w
  BY <1>1, <1>4
<1> QED BY <1>5, <1>6

LEMMA InsertMaps == ASSUME IInv, StoredOnce, StoredOnce', Insert PROVE MapStep
<1> USE DEF IInv
<1>1. /\ phase = "insert" /\ caller' = "program" /\ source' = source /\ Return(TRUE)
  BY InsertRoom
<1>2. /\ Here(slots') = {x \in Here(slots) : x.key # pending.key} \cup {pending}
      /\ pending \in Entries /\ pending.key \in Keys /\ pending # Free
  BY <1>1, InsertHere, EntryKinds DEF KindInv, ControlInv
<1>3. OnePerKey(Stored) /\ OnePerKey(Stored')
  BY DEF StoredOnce
<1>4. CASE caller = "program"
  <2>1. phase' = "idle" /\ result' = TRUE
    BY <1>1, <1>4 DEF Return
  <2>2. Stored = Here(slots) /\ Stored' = Here(slots')
    BY <1>1, <1>4, <2>1 DEF Stored, Here
  <2>3. pending \in [key : Keys, value : Values]
    BY <1>2, EntryKinds
  <2>4. PICK k \in Keys, v \in Values : k = pending.key /\ v = pending.value
    BY <2>3
  <2>5. Meaning(Stored') = [Meaning(Stored) EXCEPT ![pending.key] = pending.value]
    <3>1. PICK S : S = Stored
      OBVIOUS
    <3>2. PICK T : T = Stored'
      OBVIOUS
    <3>3. PICK e : e = pending
      OBVIOUS
    <3>4. e \in T /\ \A x : x.key # e.key => (x \in S <=> x \in T)
      BY <1>2, <2>2, <3>1, <3>2, <3>3
    <3>5. Meaning(T) = [Meaning(S) EXCEPT ![e.key] = e.value]
      BY <1>3, <3>1, <3>2, <3>4, MeaningPut
    <3> QED BY <3>1, <3>2, <3>3, <3>5
  <2>6. Map!Set
    BY <2>1, <2>4, <2>5, ContentsMeaning DEF Map!Set
  <2> QED BY <2>6 DEF MapStep, Map!Next
<1>5. CASE caller = "remove"
  <2>1. phase' = "rehash" /\ result' = result
    BY <1>1, <1>5 DEF Return
  <2>2. Stored = Here(slots) \cup {pending} /\ Stored' = Here(slots')
    BY <1>1, <1>5, <2>1 DEF Stored, Here
  <2>3. \A x \in Here(slots) : x.key = pending.key => x = pending
    BY <1>3, <2>2 DEF OnePerKey
  <2>4. Here(slots) \cup {pending}
          = {x \in Here(slots) : x.key # pending.key} \cup {pending}
    BY <2>3
  <2>5. Stored' = Stored
    BY <1>2, <2>2, <2>4
  <2> QED BY <2>1, <2>5, Stutters
<1>6. CASE caller = "copy"
  <2>1. phase' = "copy" /\ result' = result
    BY <1>1, <1>6 DEF Return
  <2>2. Stored' = Stored
    BY <1>1, <1>6, <2>1 DEF Stored
  <2> QED BY <2>1, <2>2, Stutters
<1> QED BY <1>4, <1>5, <1>6 DEF KindInv, Callers

LEMMA RemoveMaps == ASSUME IInv, StoredOnce, StoredOnce', Remove PROVE MapStep
<1>1. /\ phase = "idle" /\ caller = "program" /\ caller' = "program"
      /\ IsTable(slots) /\ hashOf \in [Keys -> Hashes] /\ OneEach(slots) /\ Ordered(slots)
      /\ UNCHANGED <<old, growAt, source>>
  BY IdleTable DEF Remove
<1>2. Stored = Here(slots) /\ OnePerKey(Stored) /\ OnePerKey(Stored')
  BY <1>1, IdleStored DEF StoredOnce
<1>3. PICK k \in Keys :
        LET s == find_entry(slots, k)
        IN  \/ /\ Finds(slots, k)
               /\ slots' = [slots EXCEPT ![s] = Free] /\ count' = count - 1
               /\ hole' = s /\ at' = Succ(slots, s)
               /\ phase' = AfterErase /\ result' = TRUE
            \/ /\ ~Finds(slots, k)
               /\ result' = FALSE
               /\ UNCHANGED <<slots, count, hole, at, phase>>
  BY DEF Remove
<1>4. Finds(slots, k) <=> Contents[k] # Absent
  BY <1>1, Answers
<1>5. CASE Finds(slots, k)
  <2>1. slots' = Written(slots, find_entry(slots, k), Free) /\ phase' = "rehash" /\ result' = TRUE
    BY <1>3, <1>5 DEF Written, AfterErase
  <2>2. PICK h : h = find_entry(slots, k)
    OBVIOUS
  <2>3. h \in OccupiedSlots(slots) /\ slots[h].key = k
    BY <1>1, <1>5, <2>2, FindsExactly
  <2>4. PICK w : w = Written(slots, h, Free)
    OBVIOUS
  <2>5. Here(w) = {x \in Here(slots) : x.key # k}
    BY <1>1, <2>3, <2>4, HereEmptied
  <2>6. Stored' = Here(slots') /\ slots' = w
    BY <1>1, <2>1, <2>2, <2>4 DEF Stored, Here
  <2>7. Stored' = {x \in Stored : x.key # k}
    BY <1>2, <2>5, <2>6
  <2>8. Meaning(Stored') = [Meaning(Stored) EXCEPT ![k] = Absent]
    <3>1. PICK S : S = Stored
      OBVIOUS
    <3>2. PICK T : T = Stored'
      OBVIOUS
    <3>3. /\ \A x \in T : x.key # k
          /\ \A x : x.key # k => (x \in S <=> x \in T)
      BY <2>7, <3>1, <3>2
    <3>4. Meaning(T) = [Meaning(S) EXCEPT ![k] = Absent]
      BY <1>2, <3>1, <3>2, <3>3, MeaningDrop
    <3> QED BY <3>1, <3>2, <3>4
  <2>9. Map!Remove
    BY <1>4, <1>5, <2>1, <2>8, ContentsMeaning DEF Map!Remove, Map!Has
  <2> QED BY <2>9 DEF MapStep, Map!Next
<1>6. CASE ~Finds(slots, k)
  <2>1. UNCHANGED <<slots, phase>> /\ result' = FALSE
    BY <1>3, <1>6
  <2>2. Stored' = Stored
    BY <1>1, <2>1 DEF Stored
  <2>3. Contents' = Contents
    BY <2>2, ContentsMeaning
  <2>4. [Contents EXCEPT ![k] = Absent] = Contents
    <3>1. PICK C : C = Contents
      OBVIOUS
    <3>2. C = [j \in Keys |-> C[j]] /\ C[k] = Absent
      BY <1>4, <1>6, <3>1 DEF Contents
    <3>3. [C EXCEPT ![k] = Absent] = C
      BY ONLY <3>2
    <3> QED BY <3>1, <3>3
  <2>5. Map!Remove
    BY <1>4, <1>6, <2>1, <2>3, <2>4 DEF Map!Remove, Map!Has
  <2> QED BY <2>5 DEF MapStep, Map!Next
<1> QED BY <1>5, <1>6

LEMMA DisplaceMaps == ASSUME IInv, Displace PROVE MapStep
<1>1. /\ phase = "rehash" /\ caller = "program" /\ phase' = "set" /\ caller' = "remove"
      /\ Occupied(slots, at) /\ pending' = slots[at] /\ slots' = Written(slots, at, Free)
      /\ result' = result
  BY DEF Displace, IInv, ControlInv, Written
<1>2. IsTable(slots) /\ OneEach(slots) /\ at \in OccupiedSlots(slots)
  BY <1>1 DEF IInv, KindInv, ControlInv, Removing, OccupiedSlots, OrderInv, Whole
<1>3. PICK w : w = Written(slots, at, Free)
  OBVIOUS
<1>4. Here(slots) = Here(w) \cup {slots[at]}
  BY <1>2, <1>3, HereEmptied
<1>5. slots' = w
  BY <1>1, <1>3
<1>6. Stored = Here(slots) /\ Stored' = Here(slots') \cup {pending'}
  BY <1>1 DEF Stored, Here
<1>7. Stored' = Stored
  BY <1>1, <1>4, <1>5, <1>6
<1> QED BY <1>1, <1>7, Stutters

LEMMA EndRehashMaps == ASSUME IInv, EndRehash PROVE MapStep
<1>1. Stored' = Stored /\ result' = result
  BY DEF EndRehash, Stored, IInv, ControlInv
<1> QED BY <1>1, Stutters

LEMMA ClearMaps == ASSUME IInv, Clear PROVE MapStep
<1>1. /\ phase' = "idle" /\ caller' = "program" /\ result' = result
      /\ slots' = NewTable(Capacity(slots))
  BY IdleTable DEF Clear
<1>2. Capacity(slots) \in Nat /\ Capacity(slots) > 0
  BY TableShape DEF IInv, KindInv
<1>3. PICK n \in Nat : n = Capacity(slots) /\ n > 0
  BY <1>2
<1>4. OccupiedSlots(slots') = {}
  BY <1>1, <1>3, EmptyTable
<1>5. Stored' = {}
  BY <1>1, <1>4 DEF Stored
<1>6. Contents' = [k \in Keys |-> Absent]
  BY <1>5, ContentsMeaning DEF Meaning
<1>7. Map!Clear
  BY <1>1, <1>6 DEF Map!Clear
<1> QED BY <1>7 DEF MapStep, Map!Next

LEMMA AskMaps == ASSUME IInv, StoredOnce, Get \/ HasKey PROVE MapStep
<1>1. phase = "idle" /\ UNCHANGED <<slots, phase, caller, pending, old, growAt, source>>
  BY DEF Get, HasKey
<1>2. Contents' = Contents
  <2>1. Stored' = Stored
    BY <1>1 DEF Stored
  <2> QED BY <2>1, ContentsMeaning
<1>3. CASE Get
  <2>1. PICK k \in Keys :
          result' = IF Finds(slots, k) THEN slots[find_entry(slots, k)].value ELSE Null
    BY <1>3 DEF Get
  <2>2. result' = IF Contents[k] # Absent THEN Contents[k] ELSE Null
    BY <1>1, <2>1, Answers
  <2>3. Map!Get
    BY <1>2, <2>2 DEF Map!Get, Map!Has
  <2> QED BY <2>3 DEF MapStep, Map!Next
<1>4. CASE HasKey
  <2>1. PICK k \in Keys : result' = Finds(slots, k)
    BY <1>4 DEF HasKey
  <2>2. Finds(slots, k) \in BOOLEAN /\ (Finds(slots, k) <=> Contents[k] # Absent)
    BY <1>1, Answers DEF Finds
  <2>3. result' = (Contents[k] # Absent)
    BY <2>1, <2>2
  <2>4. Map!HasKey
    BY <1>2, <2>3 DEF Map!HasKey, Map!Has
  <2> QED BY <2>4 DEF MapStep, Map!Next
<1> QED BY <1>3, <1>4

LEMMA CopyMaps == ASSUME IInv, Copy PROVE MapStep
<1>1. phase' = "copy" /\ source' = slots /\ result' = result /\ Stored = Here(slots)
  BY IdleStored DEF Copy
<1>2. Stored' = Stored
  BY <1>1 DEF Stored, Here
<1> QED BY <1>1, <1>2, Stutters

LEMMA CopyNextMaps == ASSUME IInv, CopyNext PROVE MapStep
<1>1. Stored' = Stored /\ result' = result
  BY DEF CopyNext, Stored
<1> QED BY <1>1, Stutters

LEMMA EndCopyMaps == ASSUME IInv, EndCopy PROVE MapStep
<1>1. /\ phase = "copy" /\ caller = "program" /\ phase' = "idle" /\ caller' = "program"
      /\ at \notin Slots(source) /\ UNCHANGED <<slots, result>>
  BY DEF EndCopy, IInv, ControlInv
<1>2. /\ IsTable(source) /\ at \in 0 .. Capacity(source)
      /\ {slots[u] : u \in OccupiedSlots(slots)} = {source[s] : s \in Below(source, at)}
  BY <1>1 DEF IInv, CopyInv, Copying
<1>3. Below(source, at) = OccupiedSlots(source)
  <2>1. at = Capacity(source)
    BY <1>1, <1>2, TableShape
  <2> QED BY <1>2, <2>1, BelowCount
<1>4. Stored' = Stored
  BY <1>1, <1>2, <1>3 DEF Stored
<1> QED BY <1>1, <1>4, Stutters

LEMMA EveryStepMaps == ASSUME IInv, StoredOnce, StoredOnce', [Next]_vars PROVE MapStep
<1>1. CASE UNCHANGED vars
  <2>1. Stored' = Stored /\ result' = result
    BY <1>1 DEF vars, Stored
  <2> QED BY <2>1, Stutters
<1>2. CASE Program
  BY <1>2, SetMaps, RemoveMaps, ClearMaps, AskMaps, CopyMaps DEF Program
<1>3. CASE Internal
  BY <1>3, NoGrowthMaps, ExpandMaps, ReinsertMaps, ExpandedMaps, InsertMaps, DisplaceMaps,
     EndRehashMaps, CopyNextMaps, EndCopyMaps DEF Internal
<1> QED BY <1>1, <1>2, <1>3 DEF Next

\* To the program the hash map of value_map.c is a finite map: every operation
\* takes effect in one step, and growing, copying and putting entries in again
\* change nothing that the program can ask for.
THEOREM MapIsFiniteMap == Spec => IsFiniteMap
<1>1. Spec => []IInv
  BY Begins, Keeps, PTL DEF Spec
<1>2. Init => Map!Init
  <2> SUFFICES ASSUME Init PROVE Map!Init
    OBVIOUS
  <2>1. PICK n \in Capacities : slots = NewTable(n)
    BY DEF Init
  <2>2. n \in Nat /\ n > 0
    BY MapAssumption
  <2>3. OccupiedSlots(slots) = {}
    BY <2>1, <2>2, EmptyTable
  <2>4. Stored = {} /\ result = Null
    BY <2>3 DEF Init, Stored
  <2>5. Contents = [k \in Keys |-> Absent]
    BY <2>4, ContentsMeaning DEF Meaning
  <2> QED BY <2>4, <2>5 DEF Map!Init
<1>3. IInv /\ IInv' /\ [Next]_vars => [Map!Next]_(Map!vars)
  <2>1. IInv => StoredOnce
    BY Once
  <2>2. (IInv => StoredOnce)'
    BY Once, PTL
  <2> QED BY <2>1, <2>2, EveryStepMaps DEF MapStep
<1> QED BY <1>1, <1>2, <1>3, PTL DEF Spec, IsFiniteMap, Map!Spec
=============================================================================
