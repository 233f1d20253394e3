------------------------------ MODULE HashMap ------------------------------
(***************************************************************************)
(* The hash map of the C runtime, MS2Proto3/cpp/core/value_map.c: open     *)
(* addressing with linear probing, growth in place, removal that puts the  *)
(* rest of the cluster in again.                                           *)
(*                                                                         *)
(* map_set is a procedure with three callers: the program, the loop of     *)
(* map_remove, the loop of map_copy.  Each round of a loop is a step.  The *)
(* map has no VarMap data (VMFrames models VarMaps).  Keys are those that  *)
(* value_equal tells apart exactly when they differ, so that the hash kept *)
(* in an entry is always its key's.                                        *)
(***************************************************************************)
EXTENDS Integers, FiniteSets, FiniteSetsExt

CONSTANTS
  Keys, Values,
  Null,          \* what map_get returns for no key
  Absent,        \* no key: not a Value of the program
  Hashes,        \* what value_hash may return
  Capacities     \* with which the program makes maps

ASSUME MapAssumption ==
  /\ IsFiniteSet(Keys) /\ Absent \notin Keys \cup Values
  /\ Hashes \subseteq Nat /\ Capacities \subseteq Nat \ {0}

VARIABLES
  hashOf,        \* value_hash, any function, chosen at the beginning
  slots,         \* map->entries
  count,         \* map->count
  phase,         \* where control is, see Phases
  caller,        \* of map_set
  pending,       \* the entry map_set is to put in
  old, growAt,   \* map_expand_capacity: old_entries and the loop's index
  source,        \* map_copy: the entries of the map that is copied
  hole, at,      \* map_remove: index and rehash_index; map_copy: at is i
  result         \* of the last operation

vars == <<hashOf, slots, count, phase, caller, pending, old, growAt, source, hole, at, result>>

Phases  == {"idle", "set", "grow", "insert", "rehash", "copy"}
Callers == {"program", "remove", "copy"}

Entry(k, v) == [key |-> k, value |-> v]
Free        == Entry(Absent, Null)
Entries     == [key : Keys, value : Values] \cup {Free}

\* An entries array is a function on 0 .. capacity - 1.
Slots(t)       == DOMAIN t
Capacity(t)    == Cardinality(DOMAIN t)
Occupied(t, s) == t[s] # Free
NewTable(n)    == [s \in 0 .. n - 1 |-> Free]

Home(t, k) == hashOf[k] % Capacity(t)
Succ(t, s) == (s + 1) % Capacity(t)

\* The slots that linear probing from slot h passes before it comes to s.
Before(t, h, s) == IF h <= s THEN h .. s - 1 ELSE (h .. Capacity(t) - 1) \cup (0 .. s - 1)

-----------------------------------------------------------------------------
(* find_entry: the first slot from the key's home on that is free or holds *)
(* the key.                                                                *)

Nowhere == -1

Stops(t, k, s) == ~Occupied(t, s) \/ t[s].key = k

find_entry(t, k) ==
  IF \A s \in Slots(t) : ~Stops(t, k, s) THEN Nowhere
  ELSE CHOOSE s \in Slots(t) :
         Stops(t, k, s) /\ \A u \in Before(t, Home(t, k), s) : ~Stops(t, k, u)

Finds(t, k) == find_entry(t, k) # Nowhere /\ Occupied(t, find_entry(t, k))

-----------------------------------------------------------------------------
(* map_set.                                                                *)

\* LOAD_FACTOR_THRESHOLD is 3/4.
map_needs_expansion == 4 * count > 3 * Capacity(slots)

\* The program calls map_set.
Set ==
  /\ phase = "idle"
  /\ \E k \in Keys, v \in Values : pending' = Entry(k, v)
  /\ phase' = "set"
  /\ UNCHANGED <<hashOf, slots, count, caller, old, growAt, source, hole, at, result>>

NoGrowth ==
  /\ phase = "set" /\ ~map_needs_expansion
  /\ phase' = "insert"
  /\ UNCHANGED <<hashOf, slots, count, caller, pending, old, growAt, source, hole, at, result>>

\* Mutant: the loop over the old entries starts at 1.
FirstOld_Second == 1
FirstOld == 0

\* map_expand_capacity up to its loop.
Expand ==
  /\ phase = "set" /\ map_needs_expansion
  /\ old' = slots /\ growAt' = FirstOld
  /\ slots' = NewTable(2 * Capacity(slots)) /\ count' = 0
  /\ phase' = "grow"
  /\ UNCHANGED <<hashOf, caller, pending, source, hole, at, result>>

CountWith(t, s) == IF Occupied(t, s) THEN count ELSE count + 1

\* Entry e goes where find_entry says.
PutIn(e, s) == slots' = [slots EXCEPT ![s] = e]

\* One round of the loop of map_expand_capacity.
Reinsert ==
  /\ phase = "grow" /\ growAt \in Slots(old)
  /\ LET e == old[growAt]
         s == find_entry(slots, e.key)
     IN  IF e # Free /\ s # Nowhere
         THEN PutIn(e, s) /\ count' = count + 1
         ELSE UNCHANGED <<slots, count>>
  /\ growAt' = growAt + 1
  /\ UNCHANGED <<hashOf, phase, caller, pending, old, source, hole, at, result>>

Expanded ==
  /\ phase = "grow" /\ growAt \notin Slots(old)
  /\ phase' = "insert" /\ old' = <<>> /\ growAt' = 0
  /\ UNCHANGED <<hashOf, slots, count, caller, pending, source, hole, at, result>>

\* Mutant: rehash_index is not advanced.
NextAt_Stuck == at
\* The index of the caller's loop for its next round.
NextAt == IF caller = "remove" THEN Succ(slots, at) ELSE at + 1

\* map_set returns; the loops of map_remove and map_copy ignore the answer.
Return(answer) ==
  /\ pending' = Free /\ caller' = "program"
  /\ CASE caller = "program" -> phase' = "idle" /\ result' = answer /\ at' = at
       [] caller = "remove"  -> phase' = "rehash" /\ result' = result /\ at' = NextAt
       [] caller = "copy"    -> phase' = "copy" /\ result' = result /\ at' = NextAt

Insert ==
  /\ phase = "insert"
  /\ LET s == find_entry(slots, pending.key)
     IN  IF s = Nowhere
         THEN UNCHANGED <<slots, count>> /\ Return(FALSE)
         ELSE PutIn(pending, s) /\ count' = CountWith(slots, s) /\ Return(TRUE)
  /\ UNCHANGED <<hashOf, old, growAt, source, hole>>

-----------------------------------------------------------------------------
(* map_remove.                                                             *)

\* Mutant: the rest of the cluster stays where it is.
AfterErase_Done == "idle"
AfterErase == "rehash"

Remove ==
  /\ phase = "idle"
  /\ \E k \in Keys :
       LET s == find_entry(slots, k)
       IN  \/ /\ Finds(slots, k)
              /\ slots' = [slots EXCEPT ![s] = Free] /\ count' = count - 1
              /\ hole' = s /\ at' = Succ(slots, s)
              /\ phase' = AfterErase /\ result' = TRUE
           \/ /\ ~Finds(slots, k)
              /\ result' = FALSE
              /\ UNCHANGED <<slots, count, hole, at, phase>>
  /\ UNCHANGED <<hashOf, caller, pending, old, growAt, source>>

\* Mutant: the entry is taken out of the table, but not of the count.
CountWithout_Same == count
CountWithout == count - 1

\* One round of the loop, up to its call of map_set.
Displace ==
  /\ phase = "rehash" /\ at # hole /\ Occupied(slots, at)
  /\ slots' = [slots EXCEPT ![at] = Free] /\ count' = CountWithout
  /\ pending' = slots[at] /\ caller' = "remove" /\ phase' = "set"
  /\ UNCHANGED <<hashOf, old, growAt, source, hole, at, result>>

EndRehash ==
  /\ phase = "rehash" /\ (at = hole \/ ~Occupied(slots, at))
  /\ phase' = "idle" /\ hole' = 0 /\ at' = 0
  /\ UNCHANGED <<hashOf, slots, count, caller, pending, old, growAt, source, result>>

-----------------------------------------------------------------------------
(* map_clear, map_get, map_try_get and map_has_key, map_copy.              *)

Clear ==
  /\ phase = "idle"
  /\ slots' = NewTable(Capacity(slots)) /\ count' = 0
  /\ UNCHANGED <<hashOf, phase, caller, pending, old, growAt, source, hole, at, result>>

Get ==
  /\ phase = "idle"
  /\ \E k \in Keys :
       result' = IF Finds(slots, k) THEN slots[find_entry(slots, k)].value ELSE Null
  /\ UNCHANGED <<hashOf, slots, count, phase, caller, pending, old, growAt, source, hole, at>>

HasKey ==
  /\ phase = "idle"
  /\ \E k \in Keys : result' = Finds(slots, k)
  /\ UNCHANGED <<hashOf, slots, count, phase, caller, pending, old, growAt, source, hole, at>>

\* The program goes on with the copy.
Copy ==
  /\ phase = "idle"
  /\ source' = slots /\ at' = 0
  /\ slots' = NewTable(Capacity(slots)) /\ count' = 0
  /\ phase' = "copy"
  /\ UNCHANGED <<hashOf, caller, pending, old, growAt, hole, result>>

CopyNext ==
  /\ phase = "copy" /\ at \in Slots(source)
  /\ IF Occupied(source, at)
     THEN pending' = source[at] /\ caller' = "copy" /\ phase' = "set" /\ UNCHANGED at
     ELSE at' = at + 1 /\ UNCHANGED <<pending, caller, phase>>
  /\ UNCHANGED <<hashOf, slots, count, old, growAt, source, hole, result>>

EndCopy ==
  /\ phase = "copy" /\ at \notin Slots(source)
  /\ phase' = "idle" /\ source' = <<>> /\ at' = 0
  /\ UNCHANGED <<hashOf, slots, count, caller, pending, old, growAt, hole, result>>

-----------------------------------------------------------------------------
Init ==
  /\ hashOf \in [Keys -> Hashes]
  /\ \E n \in Capacities : slots = NewTable(n)
  /\ count = 0 /\ phase = "idle" /\ caller = "program" /\ pending = Free
  /\ old = <<>> /\ growAt = 0 /\ source = <<>> /\ hole = 0 /\ at = 0
  /\ result = Null

Program  == Set \/ Remove \/ Clear \/ Get \/ HasKey \/ Copy
Internal == NoGrowth \/ Expand \/ Reinsert \/ Expanded \/ Insert
              \/ Displace \/ EndRehash \/ CopyNext \/ EndCopy

Next == Program \/ Internal

\* An operation, once called, is executed.
Spec == Init /\ [][Next]_vars /\ WF_vars(Internal)
-----------------------------------------------------------------------------
(* Properties.                                                             *)

\* Every variable has a value of its kind, indices are within their arrays.
TypeOK ==
  /\ hashOf \in [Keys -> Hashes]
  /\ slots \in [0 .. Capacity(slots) - 1 -> Entries] /\ Capacity(slots) > 0
  /\ count \in 0 .. Capacity(slots)
  /\ phase \in Phases /\ caller \in Callers /\ pending \in Entries
  /\ hole \in Slots(slots) /\ (phase = "rehash" => at \in Slots(slots))
  /\ growAt \in Nat /\ at \in Nat

OccupiedSlots(t) == {s \in Slots(t) : Occupied(t, s)}

\* count is the number of occupied entries, in the middle of the loops of
\* map_remove, map_copy and map_expand_capacity too: the load factor and
\* map_count rely on it.
CountExact == count = Cardinality(OccupiedSlots(slots))

\* Every entry can be found: probing for its key from its home arrives where
\* it is, with no gap in between, whatever was removed and put in again.
Findable ==
  phase = "idle" => \A s \in OccupiedSlots(slots) : find_entry(slots, slots[s].key) = s

\* There is room for what is put in, also for an entry that a loop puts in
\* again and whose loss no one would notice (base_map_set: "Table is full -
\* this shouldn't happen if we expand properly").
Room ==
  /\ phase = "insert" => find_entry(slots, pending.key) # Nowhere
  /\ phase = "grow" => \A s \in OccupiedSlots(old) :
       s >= growAt => find_entry(slots, old[s].key) # Nowhere

\* The table grows for a map_set of the program only: in the loops of
\* map_remove and map_copy it would be replaced under their indices.
LoopsKeepTable == phase = "grow" => caller = "program"

\* The table is in order at every step of every operation: its counter tells
\* how many entries it has, each of them can be found, and no loop of
\* value_map.c is about to lose one.
TableSound == TypeOK /\ CountExact /\ Findable /\ Room /\ LoopsKeepTable

\* Where the entries of the map are.
Stored ==
  IF phase = "copy" \/ caller = "copy" THEN {source[s] : s \in OccupiedSlots(source)}
  ELSE {slots[s] : s \in OccupiedSlots(slots)}
         \cup (IF phase = "grow" THEN {old[s] : s \in {u \in OccupiedSlots(old) : u >= growAt}}
               ELSE {})
         \cup (IF caller = "remove" THEN {pending} ELSE {})

\* What the map is to the program.
Contents ==
  [k \in Keys |-> IF \E e \in Stored : e.key = k
                  THEN (CHOOSE e \in Stored : e.key = k).value ELSE Absent]

Map == INSTANCE FiniteMap WITH contents <- Contents

\* To the program it is a finite map: each operation takes effect at once,
\* and growing, copying and putting entries in again change nothing.
IsFiniteMap == Map!Spec

\* Every operation ends: the loop of map_remove comes to a free slot or round
\* to where it began.
OperationsEnd == phase # "idle" ~> phase = "idle"
=============================================================================
