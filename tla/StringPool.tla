----------------------------- MODULE StringPool -----------------------------
(***************************************************************************)
(* Pools of blocks and the strings interned in them, MS2Proto3/cpp/core:   *)
(* MemPool.cpp, StringPool.cpp.                                            *)
(*                                                                         *)
(* A pool holds blocks by index; index 0 is the null reference.  A string  *)
(* takes two blocks, its storage and an entry of the pool's hash table;    *)
(* entries of a bin are chained by index.  A list takes one.  An operation *)
(* maps the pools before to the pools after, or to Exhausted when a pool   *)
(* it needs has no free block: the code from there on loses strings and    *)
(* list items, or writes through a null entry (StringPool.cpp:78, 153).    *)
(***************************************************************************)
EXTENDS Integers, FiniteSets, FiniteSetsExt, Sequences

CONSTANTS
  LastPool,     \* 255
  LastBlock,    \* MAX_BLOCKS - 1
  Texts,        \* what a string may hold
  Empty,        \* the empty string
  Bins, Bin     \* the hash table's indices, and each text's

ASSUME PoolAssumption ==
  /\ LastPool \in Nat \ {0} /\ LastBlock \in Nat \ {0}
  /\ Empty \in Texts /\ Bin \in [Texts -> Bins]

PoolNums == 0 .. LastPool
Indices  == 1 .. LastBlock
Refs     == [pool : PoolNums, index : 0 .. LastBlock]
NullRef  == [pool |-> 0, index |-> 0]

Unused       == [kind |-> "unused"]
ListBlock    == [kind |-> "list"]
Storage(t)   == [kind |-> "string", text |-> t]
Entry(s, n)  == [kind |-> "entry", ss |-> s, next |-> n]

Blocks == {Unused, ListBlock} \cup {Storage(t) : t \in Texts}
            \cup {Entry(s, n) : s \in Indices, n \in 0 .. LastBlock}

\* created: the MemPool exists.  initialized, table: the StringPool.
Pool == [created : BOOLEAN, blocks : [Indices -> Blocks],
         initialized : BOOLEAN, table : [Bins -> 0 .. LastBlock]]

NoBlocks == [i \in Indices |-> Unused]
NoTable  == [b \in Bins |-> 0]
NoPool   == [created |-> FALSE, blocks |-> NoBlocks, initialized |-> FALSE, table |-> NoTable]

Exhausted == <<>>

-----------------------------------------------------------------------------
(* MemPool.                                                                *)

InUse(pools, p)    == {i \in Indices : pools[p].blocks[i] # Unused}
HasSlots(pools, p, n) == Cardinality(Indices \ InUse(pools, p)) >= n

\* allocateBlockSlot: the lowest free index (all from blockCount on are free).
FreeSlot(pools, p) == Min(Indices \ InUse(pools, p))

\* alloc and adopt, where the pool has a slot.
Put(pools, p, block) ==
  [pools EXCEPT ![p].created = TRUE, ![p].blocks[FreeSlot(pools, p)] = block]

\* findUnusedPool: a cleared pool still exists and does not count.
FindUnusedPool(pools) ==
  LET unused == {p \in 1 .. LastPool : ~pools[p].created}
  IN  IF unused = {} THEN 0 ELSE Min(unused)

\* A list's first item makes its storage, in pool 0 unless told otherwise.
AllocList(pools) ==
  IF HasSlots(pools, 0, 1) THEN Put(pools, 0, ListBlock) ELSE Exhausted

-----------------------------------------------------------------------------
(* StringPool.                                                             *)

\* The block a reference leads to: getPtr is null where none is in use.
Block(pools, ref) ==
  IF ref.index = 0 THEN Unused ELSE pools[ref.pool].blocks[ref.index]

\* String::c_str: the empty string where there is no storage.
Text(pools, ref) ==
  LET block == Block(pools, ref)
  IN  IF block.kind = "string" THEN block.text ELSE Empty

\* The index that n links of a bin's chain lead to, 0 behind its end.
ChainAt(pool, b) ==
  LET at[n \in 0 .. LastBlock] ==
        IF n = 0 THEN pool.table[b]
        ELSE LET i == at[n - 1]
             IN  IF i = 0 \/ pool.blocks[i].kind # "entry" THEN 0 ELSE pool.blocks[i].next
  IN  at

Chain(pool, b) == LET at == ChainAt(pool, b) IN {at[n] : n \in 0 .. LastBlock} \ {0}

\* The entries a lookup stops at: the first with the same text is the only one.
Matches(pools, p, t) ==
  {i \in Chain(pools[p], Bin[t]) :
     LET entry == pools[p].blocks[i]
     IN  entry.kind = "entry" /\ Text(pools, [pool |-> p, index |-> entry.ss]) = t}

\* storeInPool, behind allocStringStorage or adopt.
Store(pools, p, t) ==
  LET s       == FreeSlot(pools, p)
      stored  == Put(pools, p, Storage(t))
      e       == FreeSlot(stored, p)
  IN  [Put(stored, p, Entry(s, pools[p].table[Bin[t]])) EXCEPT ![p].table[Bin[t]] = e]

\* initPool: the empty string is interned first.
InitPool(pools, p) ==
  IF pools[p].initialized THEN pools
  ELSE IF ~HasSlots(pools, p, 2) THEN Exhausted
  ELSE Store([pools EXCEPT ![p].initialized = TRUE, ![p].table = NoTable], p, Empty)

\* internString, and internOrAdoptString with a new storage.
Intern(pools, p, t) ==
  LET ready == InitPool(pools, p)
  IN  IF ready = Exhausted THEN Exhausted
      ELSE IF t = Empty \/ Matches(ready, p, t) # {} THEN ready
      ELSE IF HasSlots(ready, p, 2) THEN Store(ready, p, t) ELSE Exhausted

\* What both return, in the pools they leave.
RefOf(pools, p, t) ==
  IF t = Empty \/ Matches(pools, p, t) = {} THEN NullRef
  ELSE [pool |-> p, index |-> pools[p].blocks[Max(Matches(pools, p, t))].ss]

\* Mutant: the pool's hash table survives its blocks.
ClearPool_KeepsTable(pools, p) == [pools EXCEPT ![p].blocks = NoBlocks]

\* clearPool.
ClearPool(pools, p) ==
  [pools EXCEPT ![p].initialized = FALSE, ![p].table = NoTable, ![p].blocks = NoBlocks]
=============================================================================
