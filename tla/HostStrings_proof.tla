--------------------------- MODULE HostStrings_proof ---------------------------
(***************************************************************************)
(* The string pools, for any texts and hash, any number of pools and       *)
(* blocks (from four on), and any sources.                                 *)
(*                                                                         *)
(* First one pool.  The chain of a bin is a recursive function; it is the  *)
(* least set that holds the bin's first entry and, with an entry, the one  *)
(* it leads to (ChainLeast, ChainFollows), and only this is used of it.    *)
(* An entry leads to an earlier block, so a new one, at the head, adds     *)
(* itself to its chain and changes no other (SoundPool, StoreSound).       *)
(*                                                                         *)
(* Then operations: each leaves sound pools that hold what they held       *)
(* (Extended), or is ClearPool.  Making several strings is a recursive     *)
(* function again, and argued from a first string that goes wrong.         *)
(*                                                                         *)
(* Last the programs.  IInv says at every step which references are live   *)
(* (LinesInv, NamesInv) and which pools hold anything (OwnersInv): that    *)
(* the pool a program drains is not the pool of a name someone still holds *)
(* is a fact about both.                                                   *)
(***************************************************************************)
EXTENDS HostStrings, TLAPS, FiniteSetTheorems, WellFoundedInduction

-----------------------------------------------------------------------------
(* Least and greatest numbers.                                             *)

LEMMA LeastNumber ==
  ASSUME NEW S \in SUBSET Nat, S # {}
  PROVE  \E n \in S : \A m \in S : n <= m
<1>1. PICK n \in S : \A m \in S : ~(<<m, n>> \in OpToRel(<, Nat))
  BY NatLessThanWellFounded, WFMin
<1>2. \A m \in S : ~(m < n)
  BY <1>1 DEF OpToRel
<1> QED BY <1>2

LEMMA MinLeast ==
  ASSUME NEW S, S \subseteq Nat, S # {}
  PROVE  Min(S) \in S /\ \A m \in S : Min(S) <= m
BY LeastNumber DEF Min

LEMMA MaxGreatest ==
  ASSUME NEW k \in Nat, NEW S, S \subseteq 0 .. k, S # {}
  PROVE  Max(S) \in S /\ \A m \in S : m <= Max(S)
<1> DEFINE D == {d \in Nat : \E m \in S : d = k - m}
<1>1. D \in SUBSET Nat /\ D # {}
  <2>1. PICK m \in S : TRUE
    OBVIOUS
  <2>2. k - m \in D
    BY <2>1
  <2> QED BY <2>2
<1>2. PICK d \in D : \A c \in D : d <= c
  <2> HIDE DEF D
  <2> QED BY <1>1, LeastNumber
<1>3. PICK n \in S : d = k - n
  OBVIOUS
<1>4. \A m \in S : m <= n
  BY <1>2, <1>3
<1> QED BY <1>4 DEF Max

-----------------------------------------------------------------------------
(* Blocks and pools.                                                       *)

LEMMA BlockKinds ==
  ASSUME NEW x \in Blocks
  PROVE  /\ x.kind = "unused" <=> x = Unused
         /\ x.kind = "string" => x = Storage(x.text) /\ x.text \in Texts
         /\ x.kind = "entry" => /\ x = Entry(x.ss, x.next)
                                /\ x.ss \in Indices /\ x.next \in 0 .. LastBlock
<1>1. CASE x = Unused
  BY <1>1 DEF Unused
<1>2. CASE x = ListBlock
  BY <1>2 DEF Unused, ListBlock
<1>3. ASSUME NEW t \in Texts, x = Storage(t)
      PROVE  x.kind = "string" /\ x # Unused /\ x.text = t
  BY <1>3 DEF Unused, Storage
<1>4. ASSUME NEW s \in Indices, NEW n \in 0 .. LastBlock, x = Entry(s, n)
      PROVE  x.kind = "entry" /\ x # Unused /\ x.ss = s /\ x.next = n
  BY <1>4 DEF Unused, Entry
<1> QED BY <1>1, <1>2, <1>3, <1>4 DEF Blocks

LEMMA NewBlocks ==
  /\ Unused \in Blocks /\ Unused.kind = "unused"
  /\ ListBlock \in Blocks /\ ListBlock.kind = "list" /\ ListBlock # Unused
  /\ \A t \in Texts : /\ Storage(t) \in Blocks /\ Storage(t) # Unused
                      /\ Storage(t).kind = "string" /\ Storage(t).text = t
  /\ \A s \in Indices, n \in 0 .. LastBlock :
       /\ Entry(s, n) \in Blocks /\ Entry(s, n) # Unused
       /\ Entry(s, n).kind = "entry" /\ Entry(s, n).ss = s /\ Entry(s, n).next = n
<1>1. Unused.kind = "unused" /\ ListBlock.kind = "list" /\ ListBlock # Unused
  BY DEF Unused, ListBlock
<1>2. \A t \in Texts : /\ Storage(t) # Unused
                       /\ Storage(t).kind = "string" /\ Storage(t).text = t
  BY DEF Unused, Storage
<1>3. \A s \in Indices, n \in 0 .. LastBlock :
       /\ Entry(s, n) # Unused
       /\ Entry(s, n).kind = "entry" /\ Entry(s, n).ss = s /\ Entry(s, n).next = n
  BY DEF Unused, Entry
<1>4. /\ Unused \in Blocks /\ ListBlock \in Blocks
      /\ \A t \in Texts : Storage(t) \in Blocks
      /\ \A s \in Indices, n \in 0 .. LastBlock : Entry(s, n) \in Blocks
  BY DEF Blocks
<1> QED BY <1>1, <1>2, <1>3, <1>4

StringsOf(P) == {i \in Indices : P.blocks[i].kind = "string"}

\* Block i is an entry, for a string of bin b.
EntryOf(P, i, b) ==
  /\ i \in Indices /\ P.blocks[i].kind = "entry"
  /\ P.blocks[i].ss \in StringsOf(P) /\ Bin[P.blocks[P.blocks[i].ss].text] = b

\* The blocks in use are the first ones: none is freed but with all others.
FirstUsed(P) ==
  \A i, j \in Indices : i < j /\ P.blocks[j] # Unused => P.blocks[i] # Unused

OneString(P) ==
  \A i, j \in StringsOf(P) : P.blocks[i].text = P.blocks[j].text => i = j

Heads(P) == \A b \in Bins : P.table[b] # 0 => EntryOf(P, P.table[b], b)

\* An entry leads to an earlier one of its bin.
Links(P) ==
  \A i \in Indices : P.blocks[i].kind = "entry" =>
    /\ P.blocks[i].next < i
    /\ \E b \in Bins : /\ EntryOf(P, i, b)
                       /\ P.blocks[i].next # 0 => EntryOf(P, P.blocks[i].next, b)

Reached(P) ==
  \A s \in StringsOf(P) :
    \E i \in Chain(P, Bin[P.blocks[s].text]) : P.blocks[i].kind = "entry" /\ P.blocks[i].ss = s

\* Nothing in a pool that was not set up.
Blank(P) ==
  /\ ~P.created => P.blocks = NoBlocks
  /\ ~P.initialized => /\ P.table = NoTable
                       /\ \A i \in Indices : P.blocks[i].kind \in {"unused", "list"}

SoundPool(P) ==
  P \in Pool /\ FirstUsed(P) /\ OneString(P) /\ Heads(P) /\ Links(P) /\ Reached(P) /\ Blank(P)

-----------------------------------------------------------------------------
(* The chain of a bin.                                                     *)

\* The links of a chain, up to the n-th.
LinksUpTo(P, b, f, n) ==
  f = [m \in 0 .. n |->
         IF m = 0 THEN P.table[b]
         ELSE IF f[m - 1] = 0 \/ P.blocks[f[m - 1]].kind # "entry" THEN 0
              ELSE P.blocks[f[m - 1]].next]

LEMMA LinksExist ==
  ASSUME NEW P, NEW b, NEW n \in Nat
  PROVE  \E f : LinksUpTo(P, b, f, n)
<1> DEFINE Missing == {m \in Nat : ~ \E f : LinksUpTo(P, b, f, m)}
<1> SUFFICES ASSUME Missing # {} PROVE FALSE
  OBVIOUS
<1>1. PICK m \in Missing : \A k \in Missing : m <= k
  BY LeastNumber
<1>2. CASE m = 0
  <2> DEFINE z == [k \in 0 .. 0 |-> P.table[b]]
  <2>1. z = [k \in 0 .. 0 |->
         IF k = 0 THEN P.table[b]
         ELSE IF z[k - 1] = 0 \/ P.blocks[z[k - 1]].kind # "entry" THEN 0
              ELSE P.blocks[z[k - 1]].next]
    OBVIOUS
  <2> HIDE DEF z
  <2>2. LinksUpTo(P, b, z, 0)
    BY <2>1 DEF LinksUpTo
  <2> QED BY <1>2, <2>2
<1>3. CASE m # 0
  <2>1. m - 1 \in Nat /\ m - 1 \notin Missing
    BY <1>1, <1>3
  <2>2. PICK f : LinksUpTo(P, b, f, m - 1)
    BY <2>1
  <2> DEFINE g == [k \in 0 .. m |->
         IF k = 0 THEN P.table[b]
         ELSE IF f[k - 1] = 0 \/ P.blocks[f[k - 1]].kind # "entry" THEN 0
              ELSE P.blocks[f[k - 1]].next]
  <2>3. \A k \in 0 .. m - 1 : g[k] = f[k]
    <3> SUFFICES ASSUME NEW k \in 0 .. m - 1 PROVE g[k] = f[k]
      OBVIOUS
    <3>1. f[k] = IF k = 0 THEN P.table[b]
                 ELSE IF f[k - 1] = 0 \/ P.blocks[f[k - 1]].kind # "entry" THEN 0
                      ELSE P.blocks[f[k - 1]].next
      BY <2>2 DEF LinksUpTo
    <3>2. k \in 0 .. m
      BY <2>1
    <3> QED BY <3>1, <3>2
  <2>4. \A k \in 0 .. m : k # 0 => g[k - 1] = f[k - 1]
    <3> HIDE DEF g
    <3> QED BY <2>1, <2>3
  <2>5. g = [k \in 0 .. m |->
         IF k = 0 THEN P.table[b]
         ELSE IF g[k - 1] = 0 \/ P.blocks[g[k - 1]].kind # "entry" THEN 0
              ELSE P.blocks[g[k - 1]].next]
    BY <2>4
  <2> HIDE DEF g
  <2>6. LinksUpTo(P, b, g, m)
    BY <2>5 DEF LinksUpTo
  <2> QED BY <2>6
<1> QED BY <1>2, <1>3

LEMMA ChainLinks ==
  ASSUME NEW P, NEW b
  PROVE  LinksUpTo(P, b, ChainAt(P, b), LastBlock)
<1> DEFINE at[n \in 0 .. LastBlock] ==
             IF n = 0 THEN P.table[b]
             ELSE LET i == at[n - 1]
                  IN  IF i = 0 \/ P.blocks[i].kind # "entry" THEN 0 ELSE P.blocks[i].next
<1>1. PICK f : LinksUpTo(P, b, f, LastBlock)
  BY LinksExist, PoolAssumption
<1>2. f = [n \in 0 .. LastBlock |->
             IF n = 0 THEN P.table[b]
             ELSE LET i == f[n - 1]
                  IN  IF i = 0 \/ P.blocks[i].kind # "entry" THEN 0 ELSE P.blocks[i].next]
  BY <1>1 DEF LinksUpTo
<1>3. at = [n \in 0 .. LastBlock |->
             IF n = 0 THEN P.table[b]
             ELSE LET i == at[n - 1]
                  IN  IF i = 0 \/ P.blocks[i].kind # "entry" THEN 0 ELSE P.blocks[i].next]
  BY <1>2
<1>4. ChainAt(P, b) = at
  BY DEF ChainAt
<1> HIDE DEF at
<1> QED BY <1>3, <1>4 DEF LinksUpTo

LEMMA ChainStep ==
  ASSUME NEW P, NEW b, NEW at, at = ChainAt(P, b)
  PROVE  /\ at[0] = P.table[b]
         /\ \A n \in 1 .. LastBlock :
              at[n] = IF at[n - 1] = 0 \/ P.blocks[at[n - 1]].kind # "entry" THEN 0
                      ELSE P.blocks[at[n - 1]].next
         /\ Chain(P, b) = {at[n] : n \in 0 .. LastBlock} \ {0}
<1>1. LinksUpTo(P, b, at, LastBlock)
  BY ChainLinks
<1>2. \A n \in 0 .. LastBlock :
         at[n] = IF n = 0 THEN P.table[b]
                 ELSE IF at[n - 1] = 0 \/ P.blocks[at[n - 1]].kind # "entry" THEN 0
                      ELSE P.blocks[at[n - 1]].next
  BY <1>1 DEF LinksUpTo
<1>3. 0 \in 0 .. LastBlock /\ \A n \in 1 .. LastBlock : n \in 0 .. LastBlock /\ n # 0
  BY PoolAssumption
<1>4. Chain(P, b) = {at[n] : n \in 0 .. LastBlock} \ {0}
  BY DEF Chain
<1> QED BY <1>2, <1>3, <1>4

\* The chain is the least set with the bin's first entry and, with an entry,
\* the one it leads to.
Follows(P, b, S) ==
  /\ P.table[b] \in S \cup {0}
  /\ \A i \in S : P.blocks[i].kind = "entry" => P.blocks[i].next \in S \cup {0}

LEMMA ChainLeast ==
  ASSUME NEW P, NEW b, NEW S, Follows(P, b, S)
  PROVE  Chain(P, b) \subseteq S
<1> PICK at : at = ChainAt(P, b)
  OBVIOUS
<1> DEFINE Failing == {n \in Nat : n \in 0 .. LastBlock /\ at[n] \notin S \cup {0}}
<1>1. ASSUME Failing # {} PROVE FALSE
  <2>1. PICK n \in Failing : \A m \in Failing : n <= m
    BY <1>1, LeastNumber
  <2>2. n # 0
    BY ChainStep DEF Follows
  <2>3. n \in 1 .. LastBlock /\ n - 1 \in 0 .. LastBlock /\ n - 1 \notin Failing /\ n - 1 \in Nat
    <3>1. n \in 1 .. LastBlock /\ n - 1 \in 0 .. LastBlock /\ n - 1 \in Nat
      BY <2>1, <2>2, PoolAssumption
    <3>2. ~(n <= n - 1)
      BY <3>1
    <3> HIDE DEF Failing
    <3> QED BY <2>1, <3>1, <3>2
  <2>4. at[n - 1] \in S \cup {0}
    BY <2>3
  <2>5. at[n] = IF at[n - 1] = 0 \/ P.blocks[at[n - 1]].kind # "entry" THEN 0
                ELSE P.blocks[at[n - 1]].next
    BY <2>3, ChainStep
  <2> QED BY <2>4, <2>5 DEF Follows
<1>2. \A n \in 0 .. LastBlock : at[n] \in S \cup {0}
  BY <1>1
<1>3. Chain(P, b) = {at[n] : n \in 0 .. LastBlock} \ {0}
  BY ChainStep
<1> QED BY <1>2, <1>3

LEMMA ChainFollows ==
  ASSUME NEW P \in Pool, Links(P), NEW b \in Bins
  PROVE  Follows(P, b, Chain(P, b))
<1> PICK at : at = ChainAt(P, b)
  OBVIOUS
<1> PICK C : C = Chain(P, b)
  OBVIOUS
<1>0. C = {at[n] : n \in 0 .. LastBlock} \ {0} /\ LastBlock \in Nat \ {0}
  BY ChainStep, PoolAssumption
<1>1. P.table[b] \in 0 .. LastBlock /\ P.blocks \in [Indices -> Blocks]
  BY DEF Pool
<1> DEFINE Failing == {n \in Nat : n \in 0 .. LastBlock /\ ~(at[n] \in 0 .. LastBlock - n)}
<1>2. ASSUME Failing # {} PROVE FALSE
  <2>1. PICK n \in Failing : \A m \in Failing : n <= m
    BY <1>2, LeastNumber
  <2>2. n # 0
    BY <1>0, <1>1, ChainStep
  <2>3. n \in 1 .. LastBlock /\ n - 1 \in 0 .. LastBlock /\ n - 1 \notin Failing /\ n - 1 \in Nat
    <3>1. n \in 1 .. LastBlock /\ n - 1 \in 0 .. LastBlock /\ n - 1 \in Nat
      BY <2>1, <2>2, PoolAssumption
    <3>2. ~(n <= n - 1)
      BY <3>1
    <3> HIDE DEF Failing
    <3> QED BY <2>1, <3>1, <3>2
  <2>4. at[n - 1] \in 0 .. LastBlock - (n - 1)
    BY <2>3
  <2> PICK i : i = at[n - 1]
    OBVIOUS
  <2>5. at[n] = IF i = 0 \/ P.blocks[i].kind # "entry" THEN 0 ELSE P.blocks[i].next
    BY <2>3, ChainStep
  <2>6. CASE i = 0 \/ P.blocks[i].kind # "entry"
    BY <1>0, <2>3, <2>5, <2>6
  <2>7. CASE i # 0 /\ P.blocks[i].kind = "entry"
    <3>1. i \in Indices
      BY <1>0, <2>3, <2>4, <2>7 DEF Indices
    <3>2. P.blocks[i].next < i /\ P.blocks[i].next \in 0 .. LastBlock
      BY <1>1, <2>7, <3>1, BlockKinds DEF Links
    <3> QED BY <1>0, <2>3, <2>4, <2>5, <2>7, <3>2
  <2> QED BY <2>6, <2>7
<1>3. \A n \in 0 .. LastBlock : at[n] \in 0 .. LastBlock - n
  BY <1>2
<1>4. P.table[b] \in C \cup {0}
  <2>1. at[0] = P.table[b] /\ 0 \in 0 .. LastBlock
    BY <1>0, ChainStep
  <2> QED BY <1>0, <2>1
<1>5. ASSUME NEW i \in C, P.blocks[i].kind = "entry"
      PROVE  P.blocks[i].next \in C \cup {0}
  <2>1. PICK n \in 0 .. LastBlock : i = at[n] /\ i # 0
    BY <1>0
  <2>2. n # LastBlock
    BY <1>0, <1>3, <2>1
  <2>3. n + 1 \in 1 .. LastBlock /\ n + 1 \in 0 .. LastBlock /\ (n + 1) - 1 = n
    BY <1>0, <2>2
  <2>4. at[n + 1] = P.blocks[i].next
    <3>1. at[n + 1] = IF at[(n + 1) - 1] = 0 \/ P.blocks[at[(n + 1) - 1]].kind # "entry" THEN 0
                      ELSE P.blocks[at[(n + 1) - 1]].next
      BY <2>3, ChainStep
    <3> QED BY <1>5, <2>1, <2>3, <3>1
  <2> QED BY <1>0, <2>3, <2>4
<1> QED BY <1>4, <1>5 DEF Follows

-----------------------------------------------------------------------------
(* What happens to one pool.                                               *)

\* What is in use stays.
Kept(P, Q) == \A i \in Indices : P.blocks[i] # Unused => Q.blocks[i] = P.blocks[i]

LEMMA KeptEntries ==
  ASSUME NEW P \in Pool, NEW Q, Kept(P, Q), NEW i, NEW b, EntryOf(P, i, b)
  PROVE  EntryOf(Q, i, b)
<1> PICK s : s = P.blocks[i].ss
  OBVIOUS
<1>1. i \in Indices /\ s \in Indices /\ P.blocks \in [Indices -> Blocks]
  BY DEF EntryOf, StringsOf, Pool
<1>2. P.blocks[i] # Unused /\ P.blocks[s] # Unused
  BY <1>1, NewBlocks DEF EntryOf, StringsOf
<1>3. Q.blocks[i] = P.blocks[i] /\ Q.blocks[s] = P.blocks[s]
  BY <1>1, <1>2 DEF Kept
<1> QED BY <1>1, <1>3 DEF EntryOf, StringsOf

LEMMA KeptChains ==
  ASSUME NEW P \in Pool, NEW Q \in Pool, Kept(P, Q), Heads(P), Links(P), Links(Q),
         NEW b \in Bins, P.table[b] \in Chain(Q, b) \cup {0}
  PROVE  Chain(P, b) \subseteq Chain(Q, b)
<1> PICK C : C = Chain(Q, b)
  OBVIOUS
<1>1. Follows(Q, b, C)
  BY ChainFollows
<1> DEFINE S == C \cap {i \in Indices : P.blocks[i].kind = "entry"}
<1>2. ASSUME NEW i \in S PROVE P.blocks[i].next \in S \cup {0}
  <2>1. i \in Indices /\ P.blocks[i].kind = "entry" /\ P.blocks \in [Indices -> Blocks]
    BY DEF Pool
  <2>2. P.blocks[i] # Unused
    BY <2>1, NewBlocks
  <2>3. Q.blocks[i] = P.blocks[i]
    BY <2>1, <2>2 DEF Kept
  <2>4. P.blocks[i].next \in C \cup {0}
    BY <1>1, <2>1, <2>3 DEF Follows
  <2>5. P.blocks[i].next # 0 => /\ P.blocks[i].next \in Indices
                                /\ P.blocks[P.blocks[i].next].kind = "entry"
    BY <2>1 DEF Links, EntryOf
  <2> QED BY <2>4, <2>5
<1>3. P.table[b] \in S \cup {0}
  BY DEF Heads, EntryOf
<1>4. Follows(P, b, S)
  BY <1>2, <1>3 DEF Follows
<1> HIDE DEF S
<1>5. Chain(P, b) \subseteq S
  BY <1>4, ChainLeast
<1> QED BY <1>5 DEF S

\* The strings found before are found still.
LEMMA KeptReached ==
  ASSUME NEW P \in Pool, NEW Q \in Pool, Kept(P, Q), Heads(P), Links(P), Links(Q), Reached(P),
         \A b \in Bins : P.table[b] \in Chain(Q, b) \cup {0},
         NEW s \in StringsOf(P)
  PROVE  \E i \in Chain(Q, Bin[Q.blocks[s].text]) :
            Q.blocks[i].kind = "entry" /\ Q.blocks[i].ss = s
<1>1. s \in Indices /\ P.blocks[s].kind = "string" /\ P.blocks \in [Indices -> Blocks]
  BY DEF StringsOf, Pool
<1>2. P.blocks[s] # Unused /\ P.blocks[s].text \in Texts
  BY <1>1, BlockKinds, NewBlocks
<1>3. Q.blocks[s] = P.blocks[s]
  BY <1>1, <1>2 DEF Kept
<1> PICK b : b = Bin[P.blocks[s].text]
  OBVIOUS
<1>4. b \in Bins
  BY <1>2, PoolAssumption
<1>5. PICK i \in Chain(P, b) : P.blocks[i].kind = "entry" /\ P.blocks[i].ss = s
  BY DEF Reached
<1>6. Chain(P, b) \subseteq Chain(Q, b)
  BY <1>4, KeptChains
<1> DEFINE S == {j \in Indices : P.blocks[j].kind = "entry"}
<1>7. Follows(P, b, S)
  BY <1>4 DEF Follows, Heads, Links, EntryOf
<1>8. i \in Indices
  <2> HIDE DEF S
  <2>1. Chain(P, b) \subseteq S
    BY <1>7, ChainLeast
  <2> QED BY <2>1 DEF S
<1>9. Q.blocks[i] = P.blocks[i]
  BY <1>5, <1>8, NewBlocks DEF Kept
<1> QED BY <1>3, <1>5, <1>6, <1>9

\* s is the next block to be taken, e the one after it.
NextFree(P, s) ==
  s \in Indices /\ P.blocks[s] = Unused /\ \A i \in Indices : i < s => P.blocks[i] # Unused

TwoFree(P, s, e) ==
  /\ NextFree(P, s)
  /\ e \in Indices /\ s < e /\ P.blocks[e] = Unused
  /\ \A i \in Indices : i < e /\ i # s => P.blocks[i] # Unused

\* A string and its entry in the table.
StoredPool(P, s, e, t) ==
  [created |-> TRUE,
   blocks |-> [P.blocks EXCEPT ![s] = Storage(t), ![e] = Entry(s, P.table[Bin[t]])],
   initialized |-> P.initialized,
   table |-> [P.table EXCEPT ![Bin[t]] = e]]

LEMMA StoreSound ==
  ASSUME NEW P, SoundPool(P), P.initialized, NEW t \in Texts,
         \A i \in StringsOf(P) : P.blocks[i].text # t,
         NEW s, NEW e, TwoFree(P, s, e), NEW Q, Q = StoredPool(P, s, e, t)
  PROVE  /\ SoundPool(Q) /\ Kept(P, Q) /\ Q.initialized
         /\ s \in StringsOf(Q) /\ Q.blocks[s].text = t
<1> PICK bt : bt = Bin[t]
  OBVIOUS
<1>0. bt \in Bins /\ LastBlock \in Nat
  BY PoolAssumption
<1>1. /\ P \in Pool /\ P.blocks \in [Indices -> Blocks] /\ P.table \in [Bins -> 0 .. LastBlock]
      /\ FirstUsed(P) /\ OneString(P) /\ Heads(P) /\ Links(P) /\ Reached(P)
  BY DEF SoundPool, Pool
<1>2. /\ s \in Indices /\ e \in Indices /\ s < e /\ s # e
      /\ P.blocks[s] = Unused /\ P.blocks[e] = Unused
      /\ \A i \in Indices : i < s => P.blocks[i] # Unused
      /\ \A i \in Indices : i < e /\ i # s => P.blocks[i] # Unused
  BY DEF TwoFree, NextFree, Indices
<1> PICK nx : nx = P.table[bt]
  OBVIOUS
<1>3. nx \in 0 .. LastBlock
  BY <1>0, <1>1
<1>4. /\ Q.blocks \in [Indices -> Blocks] /\ Q.blocks[s] = Storage(t) /\ Q.blocks[e] = Entry(s, nx)
      /\ \A i \in Indices : i # s /\ i # e => Q.blocks[i] = P.blocks[i]
      /\ Q.initialized = P.initialized /\ Q.created = TRUE
      /\ Q.table \in [Bins -> 0 .. LastBlock] /\ Q.table[bt] = e
      /\ \A b \in Bins : b # bt => Q.table[b] = P.table[b]
  <2>1. Storage(t) \in Blocks /\ Entry(s, nx) \in Blocks /\ e \in 0 .. LastBlock
    BY <1>2, <1>3, NewBlocks DEF Indices
  <2> QED BY <1>0, <1>1, <1>2, <2>1 DEF StoredPool
<1>5. Q \in Pool
  <2>1. P.initialized \in BOOLEAN
    BY <1>1 DEF Pool
  <2>2. Q = [created |-> Q.created, blocks |-> Q.blocks, initialized |-> Q.initialized,
             table |-> Q.table]
    BY DEF StoredPool
  <2> QED BY <1>4, <2>1, <2>2 DEF Pool
<1>6. Kept(P, Q)
  BY <1>2, <1>4 DEF Kept
<1>7. /\ Storage(t).kind = "string" /\ Storage(t).text = t /\ Storage(t) # Unused
      /\ Entry(s, nx).kind = "entry" /\ Entry(s, nx) # Unused
      /\ Entry(s, nx).ss = s /\ Entry(s, nx).next = nx
  BY <1>2, <1>3, NewBlocks
<1>8. s \in StringsOf(Q) /\ Q.blocks[s].text = t
  BY <1>2, <1>4, <1>7 DEF StringsOf
<1>9. \A i \in StringsOf(Q) : i # s => i \in StringsOf(P) /\ Q.blocks[i] = P.blocks[i]
  BY <1>4, <1>7 DEF StringsOf
<1>10. FirstUsed(Q)
  <2> SUFFICES ASSUME NEW i \in Indices, NEW j \in Indices, i < j, Q.blocks[j] # Unused
               PROVE  Q.blocks[i] # Unused
    BY DEF FirstUsed
  <2>1. CASE i = s \/ i = e
    BY <1>4, <1>7, <2>1
  <2>2. CASE i # s /\ i # e
    <3>1. j = s \/ j = e \/ P.blocks[j] # Unused
      BY <1>4
    <3>2. P.blocks[i] # Unused
      BY <1>1, <1>2, <2>2, <3>1 DEF FirstUsed
    <3> QED BY <1>4, <2>2, <3>2
  <2> QED BY <2>1, <2>2
<1>11. OneString(Q)
  BY <1>1, <1>8, <1>9 DEF OneString
<1>12. EntryOf(Q, e, bt)
  BY <1>2, <1>4, <1>7, <1>8 DEF EntryOf
<1>13. Heads(Q)
  <2>1. \A b \in Bins : b # bt /\ Q.table[b] # 0 => EntryOf(Q, Q.table[b], b)
    BY <1>1, <1>4, <1>6, KeptEntries DEF Heads
  <2> QED BY <1>4, <1>12, <2>1 DEF Heads
<1>14. nx # 0 => EntryOf(P, nx, bt)
  BY <1>0, <1>1 DEF Heads
<1>15. nx < e
  <2>1. CASE nx = 0
    BY <1>2, <2>1 DEF Indices
  <2>2. CASE nx # 0
    <3>1. nx \in Indices /\ P.blocks[nx] # Unused
      BY <1>14, <2>2, NewBlocks DEF EntryOf
    <3>2. ~(s < nx) /\ nx # s
      BY <1>1, <1>2, <3>1 DEF FirstUsed
    <3> QED BY <1>2, <3>1, <3>2 DEF Indices
  <2> QED BY <2>1, <2>2
<1>16. Links(Q)
  <2> SUFFICES ASSUME NEW i \in Indices, Q.blocks[i].kind = "entry"
               PROVE  /\ Q.blocks[i].next < i
                      /\ \E b \in Bins : /\ EntryOf(Q, i, b)
                                         /\ Q.blocks[i].next # 0 => EntryOf(Q, Q.blocks[i].next, b)
    BY DEF Links
  <2>1. CASE i = e
    BY <1>0, <1>1, <1>4, <1>6, <1>7, <1>12, <1>14, <1>15, <2>1, KeptEntries
  <2>2. CASE i # e
    <3>1. Q.blocks[i] = P.blocks[i]
      BY <1>4, <1>7, <2>2
    <3>2. /\ P.blocks[i].next < i
          /\ \E b \in Bins : /\ EntryOf(P, i, b)
                             /\ P.blocks[i].next # 0 => EntryOf(P, P.blocks[i].next, b)
      BY <1>1, <3>1 DEF Links
    <3> QED BY <1>1, <1>6, <3>1, <3>2, KeptEntries
  <2> QED BY <2>1, <2>2
<1>17. e \in Chain(Q, bt)
  <2>1. Follows(Q, bt, Chain(Q, bt))
    BY <1>0, <1>5, <1>16, ChainFollows
  <2> QED BY <1>2, <1>4, <2>1 DEF Follows, Indices
<1>18. \A b \in Bins : P.table[b] \in Chain(Q, b) \cup {0}
  <2> SUFFICES ASSUME NEW b \in Bins PROVE P.table[b] \in Chain(Q, b) \cup {0}
    OBVIOUS
  <2>1. Follows(Q, b, Chain(Q, b))
    BY <1>5, <1>16, ChainFollows
  <2>2. CASE b # bt
    BY <1>4, <2>1, <2>2 DEF Follows
  <2>3. CASE b = bt
    BY <1>4, <1>7, <1>17, <2>1, <2>3 DEF Follows
  <2> QED BY <2>2, <2>3
<1>19. Reached(Q)
  <2> SUFFICES ASSUME NEW i \in StringsOf(Q)
               PROVE  \E j \in Chain(Q, Bin[Q.blocks[i].text]) :
                         Q.blocks[j].kind = "entry" /\ Q.blocks[j].ss = i
    BY DEF Reached
  <2>1. CASE i = s
    BY <1>4, <1>7, <1>17, <2>1
  <2>2. CASE i # s
    BY <1>1, <1>5, <1>6, <1>9, <1>16, <1>18, <2>2, KeptReached
  <2> QED BY <2>1, <2>2
<1>20. Blank(Q)
  BY <1>4 DEF Blank
<1> QED BY <1>4, <1>5, <1>6, <1>8, <1>10, <1>11, <1>13, <1>16, <1>19, <1>20 DEF SoundPool

\* A list's storage.
ListedPool(P, s) ==
  [created |-> TRUE, blocks |-> [P.blocks EXCEPT ![s] = ListBlock],
   initialized |-> P.initialized, table |-> P.table]

LEMMA ListSound ==
  ASSUME NEW P, SoundPool(P), NEW s, NextFree(P, s), NEW Q, Q = ListedPool(P, s)
  PROVE  SoundPool(Q) /\ Kept(P, Q) /\ Q.initialized = P.initialized
<1>1. /\ P \in Pool /\ P.blocks \in [Indices -> Blocks] /\ P.table \in [Bins -> 0 .. LastBlock]
      /\ FirstUsed(P) /\ OneString(P) /\ Heads(P) /\ Links(P) /\ Reached(P)
      /\ P.initialized \in BOOLEAN
  BY DEF SoundPool, Pool
<1>2. /\ ListBlock \in Blocks /\ ListBlock # Unused /\ ListBlock.kind = "list"
      /\ Unused.kind = "unused"
  BY NewBlocks
<1>3. s \in Indices /\ P.blocks[s] = Unused /\ \A i \in Indices : i < s => P.blocks[i] # Unused
  BY DEF NextFree
<1>4. /\ Q.blocks \in [Indices -> Blocks] /\ Q.blocks[s] = ListBlock
      /\ \A i \in Indices : i # s => Q.blocks[i] = P.blocks[i]
      /\ Q.initialized = P.initialized /\ Q.created = TRUE /\ Q.table = P.table
  BY <1>1, <1>2, <1>3 DEF ListedPool
<1>5. Q \in Pool
  <2>1. Q = [created |-> Q.created, blocks |-> Q.blocks, initialized |-> Q.initialized,
             table |-> Q.table]
    BY DEF ListedPool
  <2> QED BY <1>1, <1>4, <2>1 DEF Pool
<1>6. Kept(P, Q)
  BY <1>3, <1>4 DEF Kept
<1>7. \A i \in Indices : Q.blocks[i].kind \in {"string", "entry"} => Q.blocks[i] = P.blocks[i]
  BY <1>2, <1>4
<1>8. \A i \in StringsOf(Q) : i \in StringsOf(P) /\ Q.blocks[i] = P.blocks[i]
  BY <1>7 DEF StringsOf
<1>9. FirstUsed(Q) /\ OneString(Q)
  <2>1. FirstUsed(Q)
    <3> SUFFICES ASSUME NEW i \in Indices, NEW j \in Indices, i < j, Q.blocks[j] # Unused
                 PROVE  Q.blocks[i] # Unused
      BY DEF FirstUsed
    <3>1. CASE i = s
      BY <1>2, <1>4, <3>1
    <3>2. CASE i # s
      BY <1>1, <1>3, <1>4, <3>2 DEF FirstUsed
    <3> QED BY <3>1, <3>2
  <2> QED BY <1>1, <1>8, <2>1 DEF OneString
<1>10. Heads(Q)
  BY <1>1, <1>4, <1>6, KeptEntries DEF Heads
<1>11. Links(Q)
  <2> SUFFICES ASSUME NEW i \in Indices, Q.blocks[i].kind = "entry"
               PROVE  /\ Q.blocks[i].next < i
                      /\ \E b \in Bins : /\ EntryOf(Q, i, b)
                                         /\ Q.blocks[i].next # 0 => EntryOf(Q, Q.blocks[i].next, b)
    BY DEF Links
  <2>1. Q.blocks[i] = P.blocks[i]
    BY <1>7
  <2>2. /\ P.blocks[i].next < i
        /\ \E b \in Bins : /\ EntryOf(P, i, b)
                           /\ P.blocks[i].next # 0 => EntryOf(P, P.blocks[i].next, b)
    BY <1>1, <2>1 DEF Links
  <2> QED BY <1>1, <1>6, <2>1, <2>2, KeptEntries
<1>12. \A b \in Bins : P.table[b] \in Chain(Q, b) \cup {0}
  BY <1>4, <1>5, <1>11, ChainFollows DEF Follows
<1>13. Reached(Q)
  <2> SUFFICES ASSUME NEW i \in StringsOf(Q)
               PROVE  \E j \in Chain(Q, Bin[Q.blocks[i].text]) :
                         Q.blocks[j].kind = "entry" /\ Q.blocks[j].ss = i
    BY DEF Reached
  <2> QED BY <1>1, <1>5, <1>6, <1>8, <1>11, <1>12, KeptReached
<1>14. Blank(Q)
  <2>1. Blank(P)
    BY DEF SoundPool
  <2> QED BY <1>2, <1>4, <2>1 DEF Blank
<1> QED BY <1>4, <1>5, <1>6, <1>9, <1>10, <1>11, <1>13, <1>14 DEF SoundPool

\* A pool without strings.
LEMMA BlankSound ==
  ASSUME NEW P \in Pool, P.table = NoTable, FirstUsed(P), P.created \/ P.blocks = NoBlocks,
         \A i \in Indices : P.blocks[i].kind \in {"unused", "list"}
  PROVE  SoundPool(P)
<1>1. StringsOf(P) = {} /\ \A i \in Indices : P.blocks[i].kind # "entry"
  BY DEF StringsOf
<1>2. OneString(P) /\ Links(P) /\ Reached(P)
  BY <1>1 DEF OneString, Links, Reached
<1>3. Heads(P)
  BY DEF Heads, NoTable
<1> QED BY <1>2, <1>3 DEF SoundPool, Blank

LEMMA EmptySound ==
  ASSUME NEW P \in Pool, P.table = NoTable, P.blocks = NoBlocks
  PROVE  SoundPool(P)
<1>1. \A i \in Indices : P.blocks[i] = Unused
  BY DEF NoBlocks
<1>2. FirstUsed(P) /\ \A i \in Indices : P.blocks[i].kind \in {"unused", "list"}
  BY <1>1, NewBlocks DEF FirstUsed
<1> QED BY <1>2, BlankSound

\* An initialized pool.
ReadyPool(P) ==
  [created |-> P.created, blocks |-> P.blocks, initialized |-> TRUE, table |-> NoTable]

LEMMA TablesType == NoTable \in [Bins -> 0 .. LastBlock] /\ NoBlocks \in [Indices -> Blocks]
BY PoolAssumption, NewBlocks DEF NoTable, NoBlocks

LEMMA ReadySound ==
  ASSUME NEW P, SoundPool(P), ~P.initialized, NEW Q, Q = ReadyPool(P)
  PROVE  /\ SoundPool(Q) /\ Kept(P, Q) /\ Q.initialized /\ StringsOf(Q) = {}
         /\ Q.blocks = P.blocks
<1>1. P \in Pool /\ FirstUsed(P) /\ Blank(P)
  BY DEF SoundPool
<1>2. Q.blocks = P.blocks /\ Q.created = P.created /\ Q.initialized /\ Q.table = NoTable
  BY DEF ReadyPool
<1>3. Q \in Pool
  BY <1>1, TablesType DEF ReadyPool, Pool
<1>4. FirstUsed(Q) /\ Kept(P, Q)
  BY <1>1, <1>2 DEF FirstUsed, Kept
<1>5. \A i \in Indices : Q.blocks[i].kind \in {"unused", "list"}
  BY <1>1, <1>2 DEF Blank
<1>6. Q.created \/ Q.blocks = NoBlocks
  BY <1>1, <1>2, <1>3 DEF Blank, Pool
<1>7. SoundPool(Q)
  BY <1>2, <1>3, <1>4, <1>5, <1>6, BlankSound
<1> QED BY <1>2, <1>4, <1>5, <1>7 DEF StringsOf

-----------------------------------------------------------------------------
(* What happens to the pools.                                              *)

SoundPools(ps) == ps \in [PoolNums -> Pool] /\ \A p \in PoolNums : SoundPool(ps[p])

\* The pools of A have gained blocks, no pool has lost any.
Extended(ps, qs, A) ==
  /\ SoundPools(qs)
  /\ \A p \in PoolNums : Kept(ps[p], qs[p])
  /\ \A p \in PoolNums \ A : qs[p] = ps[p]

LEMMA ExtendedSame ==
  ASSUME NEW ps, SoundPools(ps), NEW A
  PROVE  Extended(ps, ps, A)
BY DEF Extended, Kept

LEMMA ExtendedTwice ==
  ASSUME NEW ps, NEW qs, NEW rs, NEW A, NEW B, NEW C, Extended(ps, qs, A), Extended(qs, rs, B),
         A \subseteq C, B \subseteq C
  PROVE  Extended(ps, rs, C)
<1>1. \A p \in PoolNums : Kept(ps[p], rs[p])
  <2> SUFFICES ASSUME NEW p \in PoolNums, NEW i \in Indices, ps[p].blocks[i] # Unused
               PROVE  rs[p].blocks[i] = ps[p].blocks[i]
    BY DEF Kept
  <2> QED BY DEF Extended, Kept
<1> QED BY <1>1 DEF Extended

LEMMA NotExhausted ==
  ASSUME NEW ps, SoundPools(ps)
  PROVE  ps # Exhausted
<1>1. 0 \in PoolNums
  BY PoolAssumption DEF PoolNums
<1>2. DOMAIN ps = PoolNums
  BY DEF SoundPools
<1>3. DOMAIN Exhausted = {}
  BY DEF Exhausted
<1> QED BY <1>1, <1>2, <1>3

LEMMA SlotsFinite ==
  /\ IsFiniteSet(Indices) /\ Indices \subseteq Nat
  /\ \A ps, p : IsFiniteSet(Indices \ InUse(ps, p)) /\ Indices \ InUse(ps, p) \subseteq Nat
<1>1. IsFiniteSet(Indices) /\ Indices \subseteq Nat
  BY FS_Interval, PoolAssumption DEF Indices
<1>2. \A ps, p : Indices \ InUse(ps, p) \subseteq Indices
  OBVIOUS
<1> QED BY <1>1, <1>2, FS_Subset

\* A pool with a slot has a next free block, one with two slots two.
LEMMA FreeSlotIs ==
  ASSUME NEW ps, NEW p, HasSlots(ps, p, 1)
  PROVE  NextFree(ps[p], FreeSlot(ps, p))
<1> PICK F : F = Indices \ InUse(ps, p)
  OBVIOUS
<1>1. Cardinality(F) >= 1 /\ F \subseteq Nat
  BY SlotsFinite DEF HasSlots
<1>2. F # {}
  BY <1>1, FS_EmptySet
<1>3. Min(F) \in F /\ \A m \in F : Min(F) <= m
  BY <1>1, <1>2, MinLeast
<1>4. FreeSlot(ps, p) = Min(F)
  BY DEF FreeSlot
<1>5. F = {i \in Indices : ps[p].blocks[i] = Unused}
  BY DEF InUse
<1> QED BY <1>1, <1>3, <1>4, <1>5 DEF NextFree

LEMMA MoreSlots ==
  ASSUME NEW ps, NEW p, HasSlots(ps, p, 2)
  PROVE  /\ HasSlots(ps, p, 1)
         /\ \A s \in Indices \ InUse(ps, p) : (Indices \ InUse(ps, p)) \ {s} # {}
<1> PICK F : F = Indices \ InUse(ps, p)
  OBVIOUS
<1>1. Cardinality(F) >= 2 /\ IsFiniteSet(F) /\ Cardinality(F) \in Nat
  BY SlotsFinite, FS_CardinalityType DEF HasSlots
<1>2. HasSlots(ps, p, 1)
  BY <1>1 DEF HasSlots
<1>3. \A s \in F : F \ {s} # {}
  <2> SUFFICES ASSUME NEW s \in F, F \ {s} = {} PROVE FALSE
    OBVIOUS
  <2>1. Cardinality(F \ {s}) = Cardinality(F) - 1
    BY <1>1, FS_RemoveElement
  <2>2. Cardinality(F \ {s}) = 0
    BY FS_EmptySet
  <2> QED BY <1>1, <2>1, <2>2
<1> QED BY <1>2, <1>3

\* A pool with one more block.
PutPool(P, k, block) ==
  [created |-> TRUE, blocks |-> [P.blocks EXCEPT ![k] = block],
   initialized |-> P.initialized, table |-> P.table]

LEMMA PutAt ==
  ASSUME NEW ps \in [PoolNums -> Pool], NEW p \in PoolNums, NEW block \in Blocks,
         NEW k \in Indices, k = FreeSlot(ps, p), NEW qs, qs = Put(ps, p, block)
  PROVE  /\ qs \in [PoolNums -> Pool]
         /\ qs[p] = PutPool(ps[p], k, block)
         /\ \A q \in PoolNums : q # p => qs[q] = ps[q]
<1> PICK P : P = ps[p]
  OBVIOUS
<1> PICK Q : Q = PutPool(P, k, block)
  OBVIOUS
<1>1. P = [created |-> P.created, blocks |-> P.blocks,
           initialized |-> P.initialized, table |-> P.table] /\ P \in Pool
  BY DEF Pool
<1> PICK B : B = [P.blocks EXCEPT ![k] = block]
  OBVIOUS
<1> PICK T : T = TRUE
  OBVIOUS
<1>0. PICK R : R = [created |-> T, blocks |-> P.blocks,
                    initialized |-> P.initialized, table |-> P.table]
  OBVIOUS
<1>a. [P EXCEPT !.created = T] = R
  BY ONLY <1>0, <1>1, Z3
<1>b. /\ R = [created |-> R.created, blocks |-> R.blocks,
              initialized |-> R.initialized, table |-> R.table]
      /\ R.created = T /\ R.blocks = P.blocks /\ R.table = P.table
      /\ R.initialized = P.initialized
  BY ONLY <1>0
<1>c. [R EXCEPT !.blocks = B] = [created |-> R.created, blocks |-> B,
                                 initialized |-> R.initialized, table |-> R.table]
  BY ONLY <1>b, Z3
<1>d. [R EXCEPT !.blocks[k] = block] = [R EXCEPT !.blocks = B]
  BY <1>b
<1>e. [R EXCEPT !.blocks = B] = [created |-> T, blocks |-> B,
                                 initialized |-> P.initialized, table |-> P.table]
  BY <1>b, <1>c
<1>f. Q = [created |-> T, blocks |-> B, initialized |-> P.initialized, table |-> P.table]
  BY DEF PutPool
<1>2. Q = [[P EXCEPT !.created = TRUE] EXCEPT !.blocks[k] = block]
  BY <1>a, <1>d, <1>e, <1>f
<1>3. Q \in Pool
  BY <1>1 DEF PutPool, Pool
<1>4. qs = [[ps EXCEPT ![p].created = TRUE] EXCEPT ![p].blocks[k] = block]
  BY DEF Put
<1>5. qs = [ps EXCEPT ![p] = [[P EXCEPT !.created = TRUE] EXCEPT !.blocks[k] = block]]
  BY <1>4
<1>6. qs = [ps EXCEPT ![p] = Q]
  BY <1>2, <1>5
<1> QED BY <1>3, <1>6

LEMMA AllocListSound ==
  ASSUME NEW ps, SoundPools(ps), NEW qs, qs = AllocList(ps), qs # Exhausted
  PROVE  Extended(ps, qs, {0}) /\ \A p \in PoolNums : qs[p].initialized = ps[p].initialized
<1>0. 0 \in PoolNums /\ ps \in [PoolNums -> Pool]
  BY PoolAssumption DEF PoolNums, SoundPools
<1>1. HasSlots(ps, 0, 1) /\ qs = Put(ps, 0, ListBlock)
  BY DEF AllocList
<1> PICK k : k = FreeSlot(ps, 0)
  OBVIOUS
<1>2. NextFree(ps[0], k)
  BY <1>1, FreeSlotIs
<1>3. k \in Indices /\ ListBlock \in Blocks
  BY <1>2, NewBlocks DEF NextFree
<1>4. /\ qs \in [PoolNums -> Pool] /\ \A q \in PoolNums : q # 0 => qs[q] = ps[q]
      /\ qs[0] = PutPool(ps[0], k, ListBlock)
  BY <1>0, <1>1, <1>3, PutAt
<1>5. qs[0] = ListedPool(ps[0], k)
  BY <1>4 DEF ListedPool, PutPool
<1>6. SoundPool(qs[0]) /\ Kept(ps[0], qs[0]) /\ qs[0].initialized = ps[0].initialized
  BY <1>0, <1>2, <1>5, ListSound DEF SoundPools
<1> QED BY <1>4, <1>6 DEF Extended, SoundPools, Kept

\* A string of pool p.
HasString(ps, p, t) == \E i \in StringsOf(ps[p]) : ps[p].blocks[i].text = t

\* Pool p has gained two blocks at most.
TwoMore(ps, qs, p) == \E s, e \in Indices : InUse(qs, p) \subseteq InUse(ps, p) \cup {s, e}

LEMMA StoreExtends ==
  ASSUME NEW ps, SoundPools(ps), NEW p \in PoolNums, ps[p].initialized, NEW t \in Texts,
         ~HasString(ps, p, t), HasSlots(ps, p, 2), NEW qs, qs = Store(ps, p, t)
  PROVE  /\ Extended(ps, qs, {p}) /\ qs[p].initialized /\ HasString(qs, p, t)
         /\ TwoMore(ps, qs, p)
<1> PICK P : P = ps[p]
  OBVIOUS
<1> PICK s : s = FreeSlot(ps, p)
  OBVIOUS
<1> PICK rs : rs = Put(ps, p, Storage(t))
  OBVIOUS
<1> PICK e : e = FreeSlot(rs, p)
  OBVIOUS
<1>0. P \in Pool /\ ps \in [PoolNums -> Pool] /\ SoundPool(P) /\ Bin[t] \in Bins
  BY PoolAssumption DEF SoundPools
<1>1. NextFree(P, s)
  BY FreeSlotIs, MoreSlots
<1>2. s \in Indices /\ Storage(t) \in Blocks /\ Storage(t) # Unused /\ P.blocks[s] = Unused
  BY <1>1, NewBlocks DEF NextFree
<1>3. /\ rs \in [PoolNums -> Pool] /\ \A q \in PoolNums : q # p => rs[q] = ps[q]
      /\ rs[p] = PutPool(P, s, Storage(t))
  BY <1>0, <1>2, PutAt
<1>4. /\ rs[p].blocks = [P.blocks EXCEPT ![s] = Storage(t)] /\ P.blocks \in [Indices -> Blocks]
      /\ rs[p].initialized = P.initialized /\ rs[p].table = P.table
  <2>1. P.blocks \in [Indices -> Blocks]
    BY <1>0 DEF Pool
  <2> PICK R : R = rs[p]
    OBVIOUS
  <2>2. R = [created |-> TRUE, blocks |-> [P.blocks EXCEPT ![s] = Storage(t)],
             initialized |-> P.initialized, table |-> P.table]
    BY <1>3 DEF PutPool
  <2>3. /\ R.blocks = [P.blocks EXCEPT ![s] = Storage(t)]
        /\ R.initialized = P.initialized /\ R.table = P.table
    BY ONLY <2>2, Z3
  <2> QED BY <2>1, <2>3
<1>5. Indices \ InUse(rs, p) = (Indices \ InUse(ps, p)) \ {s}
  BY <1>2, <1>4 DEF InUse
<1>6. s \in Indices \ InUse(ps, p)
  BY <1>2 DEF InUse
<1>7. NextFree(rs[p], e)
  <2> PICK F : F = Indices \ InUse(rs, p)
    OBVIOUS
  <2>1. F # {} /\ F \subseteq Nat
    BY <1>5, <1>6, MoreSlots, SlotsFinite
  <2>2. e \in F /\ \A m \in F : e <= m
    BY <2>1, MinLeast DEF FreeSlot
  <2>3. F = {i \in Indices : rs[p].blocks[i] = Unused}
    BY DEF InUse
  <2> QED BY <2>1, <2>2, <2>3, SlotsFinite DEF NextFree
<1>8. TwoFree(P, s, e)
  <2>1. e \in Indices /\ e # s /\ P.blocks[e] = Unused
    BY <1>2, <1>4, <1>7 DEF NextFree
  <2>2. s < e
    BY <1>1, <2>1, SlotsFinite DEF NextFree, Indices
  <2>3. \A i \in Indices : i < e /\ i # s => P.blocks[i] # Unused
    BY <1>2, <1>4, <1>7 DEF NextFree
  <2> QED BY <1>1, <2>1, <2>2, <2>3 DEF TwoFree
<1> PICK n : n = P.table[Bin[t]]
  OBVIOUS
<1>9. n \in 0 .. LastBlock /\ e \in Indices /\ Entry(s, n) \in Blocks
  BY <1>0, <1>2, <1>8, NewBlocks DEF TwoFree, Pool
<1> PICK us : us = Put(rs, p, Entry(s, n))
  OBVIOUS
<1>10. /\ us \in [PoolNums -> Pool] /\ \A q \in PoolNums : q # p => us[q] = rs[q]
       /\ us[p] = PutPool(rs[p], e, Entry(s, n))
  BY <1>3, <1>9, PutAt
<1>11. qs = [us EXCEPT ![p].table[Bin[t]] = e]
  BY DEF Store
<1> PICK Q : Q = StoredPool(P, s, e, t)
  OBVIOUS
<1>12. /\ us[p] = [created |-> TRUE, blocks |-> us[p].blocks, initialized |-> P.initialized,
                   table |-> P.table]
       /\ us[p].blocks = [P.blocks EXCEPT ![s] = Storage(t), ![e] = Entry(s, n)]
  <2> PICK U, R : U = us[p] /\ R = rs[p]
    OBVIOUS
  <2>1. U = [created |-> TRUE, blocks |-> [R.blocks EXCEPT ![e] = Entry(s, n)],
             initialized |-> R.initialized, table |-> R.table]
    BY <1>10 DEF PutPool
  <2>2. /\ U.blocks = [R.blocks EXCEPT ![e] = Entry(s, n)]
        /\ U = [created |-> TRUE, blocks |-> U.blocks, initialized |-> R.initialized,
                table |-> R.table]
    BY <2>1
  <2>3. U.blocks = [P.blocks EXCEPT ![s] = Storage(t), ![e] = Entry(s, n)]
    BY <1>4, <2>2
  <2> QED BY <1>4, <2>2, <2>3
<1>13. qs[p] = Q
  <2> PICK U : U = us[p]
    OBVIOUS
  <2>0. U = [created |-> TRUE, blocks |-> U.blocks, initialized |-> P.initialized,
             table |-> P.table]
    BY <1>12
  <2>1. qs[p] = [U EXCEPT !.table[Bin[t]] = e]
    BY <1>10, <1>11
  <2>2. qs[p] = [created |-> TRUE, blocks |-> U.blocks, initialized |-> P.initialized,
                 table |-> [P.table EXCEPT ![Bin[t]] = e]]
    <3> PICK T : T = [P.table EXCEPT ![Bin[t]] = e]
      OBVIOUS
    <3>1. U.table = P.table
      BY <2>0
    <3>2. [U EXCEPT !.table[Bin[t]] = e] = [U EXCEPT !.table = T]
      BY <3>1
    <3>3. /\ U = [created |-> U.created, blocks |-> U.blocks, initialized |-> U.initialized,
                  table |-> U.table]
          /\ U.created = TRUE /\ U.initialized = P.initialized
      BY <2>0
    <3>4. [U EXCEPT !.table = T] = [created |-> U.created, blocks |-> U.blocks,
                                    initialized |-> U.initialized, table |-> T]
      BY ONLY <3>3, Z3
    <3> QED BY <2>1, <3>2, <3>3, <3>4, ZenonT(60)
  <2> QED BY <1>12, <2>2 DEF StoredPool
<1>14. DOMAIN qs = PoolNums /\ \A q \in PoolNums : q # p => qs[q] = ps[q]
  BY <1>3, <1>10, <1>11
<1>15. /\ SoundPool(Q) /\ Kept(P, Q) /\ Q.initialized
       /\ s \in StringsOf(Q) /\ Q.blocks[s].text = t
  <2>1. \A i \in StringsOf(P) : P.blocks[i].text # t
    BY DEF HasString
  <2> QED BY <1>0, <1>8, <2>1, StoreSound
<1>16. SoundPools(qs)
  <2>1. \A q \in PoolNums : SoundPool(qs[q])
    BY <1>13, <1>14, <1>15 DEF SoundPools
  <2>2. qs = [q \in PoolNums |-> qs[q]]
    BY <1>10, <1>11, <1>14
  <2> QED BY <2>1, <2>2 DEF SoundPools, SoundPool
<1>17. \A q \in PoolNums : Kept(ps[q], qs[q])
  BY <1>13, <1>14, <1>15 DEF Kept
<1>18. InUse(qs, p) \subseteq InUse(ps, p) \cup {s, e}
  <2>1. \A i \in Indices : i # s /\ i # e => Q.blocks[i] = P.blocks[i]
    BY <1>2, <1>4, <1>9 DEF StoredPool
  <2> QED BY <1>13, <2>1 DEF InUse
<1>19. TwoMore(ps, qs, p)
  <2>1. e \in Indices
    BY <1>9
  <2> QED BY <1>2, <1>18, <2>1, Zenon DEF TwoMore
<1> QED BY <1>2, <1>9, <1>13, <1>14, <1>15, <1>16, <1>17, <1>19 DEF Extended, HasString

\* A string that is there is found by its text, and nothing else is.
LEMMA MatchesFound ==
  ASSUME NEW ps, SoundPools(ps), NEW p \in PoolNums, NEW t \in Texts, t # Empty
  PROVE  /\ HasString(ps, p, t) => Matches(ps, p, t) # {}
         /\ Matches(ps, p, t) \subseteq Indices
         /\ \A i \in Matches(ps, p, t) :
              ps[p].blocks[i].ss \in Indices /\ ps[p].blocks[ps[p].blocks[i].ss] = Storage(t)
<1> PICK P : P = ps[p]
  OBVIOUS
<1> PICK b : b = Bin[t]
  OBVIOUS
<1>0. /\ P \in Pool /\ P.blocks \in [Indices -> Blocks] /\ b \in Bins
      /\ Heads(P) /\ Links(P) /\ Reached(P)
  BY PoolAssumption DEF SoundPools, SoundPool, Pool
<1>1. \A i : i \in Indices => i # 0
  BY DEF Indices
<1> DEFINE S == {j \in Indices : P.blocks[j].kind = "entry"}
<1>2. Chain(P, b) \subseteq S
  <2>1. Follows(P, b, S)
    BY <1>0 DEF Follows, Heads, Links, EntryOf
  <2> HIDE DEF S
  <2> QED BY <2>1, ChainLeast
<1>3. \A i \in Chain(P, b) :
         /\ i \in Indices /\ P.blocks[i].kind = "entry" /\ P.blocks[i].ss \in Indices
  BY <1>0, <1>2, BlockKinds
<1>4. \A s \in Indices :
         Text(ps, [pool |-> p, index |-> s]) =
           IF P.blocks[s].kind = "string" THEN P.blocks[s].text ELSE Empty
  <2> SUFFICES ASSUME NEW s \in Indices
               PROVE  Text(ps, [pool |-> p, index |-> s]) =
                         IF P.blocks[s].kind = "string" THEN P.blocks[s].text ELSE Empty
    OBVIOUS
  <2> PICK ref : ref = [pool |-> p, index |-> s]
    OBVIOUS
  <2>1. ref.pool = p /\ ref.index = s /\ s # 0
    BY <1>1
  <2>2. Block(ps, ref) = P.blocks[s]
    BY <2>1 DEF Block
  <2> QED BY <2>2 DEF Text
<1>5. Matches(ps, p, t) = {i \in Chain(P, b) :
         P.blocks[i].kind = "entry" /\ Text(ps, [pool |-> p, index |-> P.blocks[i].ss]) = t}
  BY DEF Matches
<1>6. ASSUME HasString(ps, p, t) PROVE Matches(ps, p, t) # {}
  <2>1. PICK s \in StringsOf(P) : P.blocks[s].text = t
    BY <1>6 DEF HasString
  <2>2. PICK i \in Chain(P, b) : P.blocks[i].kind = "entry" /\ P.blocks[i].ss = s
    BY <1>0, <2>1 DEF Reached
  <2>3. s \in Indices /\ P.blocks[s].kind = "string"
    BY <2>1 DEF StringsOf
  <2>4. Text(ps, [pool |-> p, index |-> P.blocks[i].ss]) = t
    BY <1>4, <2>1, <2>2, <2>3
  <2> QED BY <1>5, <2>2, <2>4
<1>7. \A i \in Matches(ps, p, t) : P.blocks[i].ss \in Indices /\ P.blocks[P.blocks[i].ss] = Storage(t)
  <2> SUFFICES ASSUME NEW i \in Matches(ps, p, t)
               PROVE  P.blocks[i].ss \in Indices /\ P.blocks[P.blocks[i].ss] = Storage(t)
    OBVIOUS
  <2> PICK s : s = P.blocks[i].ss
    OBVIOUS
  <2>1. s \in Indices /\ Text(ps, [pool |-> p, index |-> s]) = t
    BY <1>3, <1>5
  <2>2. P.blocks[s].kind = "string" /\ P.blocks[s].text = t
    BY <1>4, <2>1
  <2> QED BY <1>0, <2>1, <2>2, BlockKinds
<1>8. Matches(ps, p, t) \subseteq Indices
  BY <1>3, <1>5
<1> QED BY <1>6, <1>7, <1>8

\* initPool: the empty string is there, and what was.
LEMMA InitPoolSound ==
  ASSUME NEW ps, SoundPools(ps), NEW p \in PoolNums, NEW qs, qs = InitPool(ps, p), qs # Exhausted
  PROVE  Extended(ps, qs, {p}) /\ qs[p].initialized
<1> PICK P : P = ps[p]
  OBVIOUS
<1>0. P \in Pool /\ ps \in [PoolNums -> Pool] /\ SoundPool(P) /\ Empty \in Texts
  BY PoolAssumption DEF SoundPools
<1>1. CASE P.initialized
  <2>1. qs = ps
    BY <1>1 DEF InitPool
  <2> QED BY <1>1, <2>1, ExtendedSame
<1>2. CASE ~P.initialized
  <2> PICK rs : rs = [ps EXCEPT ![p].initialized = TRUE, ![p].table = NoTable]
    OBVIOUS
  <2>1. HasSlots(ps, p, 2) /\ qs = Store(rs, p, Empty)
    BY <1>2 DEF InitPool
  <2> PICK R : R = ReadyPool(P)
    OBVIOUS
  <2>2. P = [created |-> P.created, blocks |-> P.blocks,
             initialized |-> P.initialized, table |-> P.table]
    BY <1>0 DEF Pool
  <2>3. PICK T, N : T = TRUE /\ N = NoTable
    OBVIOUS
  <2>4. [[P EXCEPT !.initialized = T] EXCEPT !.table = N]
          = [created |-> P.created, blocks |-> P.blocks, initialized |-> T, table |-> N]
    <3>1. PICK U : U = [P EXCEPT !.initialized = T]
      OBVIOUS
    <3>2. U = [created |-> P.created, blocks |-> P.blocks, initialized |-> T,
               table |-> P.table]
      BY ONLY <2>2, <3>1, Z3
    <3>3. /\ U = [created |-> U.created, blocks |-> U.blocks,
                  initialized |-> U.initialized, table |-> U.table]
          /\ U.created = P.created /\ U.blocks = P.blocks /\ U.initialized = T
      BY ONLY <3>2
    <3>4. [U EXCEPT !.table = N] = [created |-> U.created, blocks |-> U.blocks,
                                    initialized |-> U.initialized, table |-> N]
      BY ONLY <3>3, Z3
    <3> QED BY <3>1, <3>3, <3>4
  <2>5. rs = [ps EXCEPT ![p] = [[P EXCEPT !.initialized = T] EXCEPT !.table = N]]
    BY <2>3
  <2>6. rs = [ps EXCEPT ![p] = R]
    BY <2>3, <2>4, <2>5 DEF ReadyPool
  <2>7. SoundPool(R) /\ Kept(P, R) /\ R.initialized /\ StringsOf(R) = {} /\ R.blocks = P.blocks
    BY <1>0, <1>2, ReadySound
  <2>8. rs[p] = R /\ \A q \in PoolNums : q # p => rs[q] = ps[q]
    BY <1>0, <2>6
  <2>9. SoundPools(rs)
    BY <1>0, <2>6, <2>7, <2>8 DEF SoundPools, SoundPool
  <2>10. Extended(ps, rs, {p})
    BY <2>7, <2>8, <2>9 DEF Extended, Kept
  <2>11. HasSlots(rs, p, 2) /\ ~HasString(rs, p, Empty) /\ rs[p].initialized
    BY <2>1, <2>7, <2>8 DEF HasSlots, InUse, HasString
  <2>12. Extended(rs, qs, {p}) /\ qs[p].initialized
    BY <1>0, <2>1, <2>9, <2>11, StoreExtends
  <2> QED BY <2>10, <2>12, ExtendedTwice
<1> QED BY <1>1, <1>2

\* The string is one of the pool's from then on; the empty one is everywhere.
Interned(ps, p, t) == t = Empty \/ HasString(ps, p, t)

LEMMA InternSound ==
  ASSUME NEW ps, SoundPools(ps), NEW p \in PoolNums, NEW t \in Texts,
         NEW qs, qs = Intern(ps, p, t), qs # Exhausted
  PROVE  Extended(ps, qs, {p}) /\ Interned(qs, p, t)
<1> PICK rs : rs = InitPool(ps, p)
  OBVIOUS
<1>1. rs # Exhausted
  BY DEF Intern
<1>2. Extended(ps, rs, {p}) /\ rs[p].initialized /\ SoundPools(rs)
  BY <1>1, InitPoolSound DEF Extended
<1>3. CASE t = Empty
  BY <1>1, <1>2, <1>3 DEF Intern, Interned
<1>4. CASE t # Empty /\ Matches(rs, p, t) # {}
  <2>1. qs = rs
    BY <1>1, <1>4 DEF Intern
  <2>2. PICK i : i \in Matches(rs, p, t)
    BY <1>4
  <2> PICK s : s = rs[p].blocks[i].ss
    OBVIOUS
  <2>3. s \in Indices /\ rs[p].blocks[s] = Storage(t)
    BY <1>2, <1>4, <2>2, MatchesFound
  <2>4. HasString(rs, p, t)
    BY <2>3, NewBlocks DEF HasString, StringsOf
  <2> QED BY <1>2, <2>1, <2>4 DEF Interned
<1>5. CASE t # Empty /\ Matches(rs, p, t) = {}
  <2>1. HasSlots(rs, p, 2) /\ qs = Store(rs, p, t)
    BY <1>1, <1>5 DEF Intern
  <2>2. ~HasString(rs, p, t)
    BY <1>2, <1>5, MatchesFound
  <2>3. Extended(rs, qs, {p}) /\ HasString(qs, p, t)
    BY <1>2, <2>1, <2>2, StoreExtends
  <2> QED BY <1>2, <2>3, ExtendedTwice DEF Interned
<1> QED BY <1>3, <1>4, <1>5

-----------------------------------------------------------------------------
(* Strings made one after the other.                                       *)

InternStep(before, p, t) ==
  IF before = Exhausted THEN before ELSE Intern(before, p, t)

InternsUpTo(ps, p, ts, f, n) ==
  f = [m \in 0 .. n |-> IF m = 0 THEN ps ELSE InternStep(f[m - 1], p, ts[m])]

LEMMA InternsExist ==
  ASSUME NEW ps, NEW p, NEW ts, NEW n \in Nat
  PROVE  \E f : InternsUpTo(ps, p, ts, f, n)
<1> DEFINE Missing == {m \in Nat : ~ \E f : InternsUpTo(ps, p, ts, f, m)}
<1> SUFFICES ASSUME Missing # {} PROVE FALSE
  OBVIOUS
<1>1. PICK m \in Missing : \A k \in Missing : m <= k
  BY LeastNumber
<1>2. CASE m = 0
  <2> DEFINE z == [k \in 0 .. 0 |-> ps]
  <2>1. z = [k \in 0 .. 0 |-> IF k = 0 THEN ps ELSE InternStep(z[k - 1], p, ts[k])]
    OBVIOUS
  <2> HIDE DEF z
  <2>2. InternsUpTo(ps, p, ts, z, 0)
    BY <2>1 DEF InternsUpTo
  <2> QED BY <1>2, <2>2
<1>3. CASE m # 0
  <2>1. m - 1 \in Nat /\ m - 1 \notin Missing
    BY <1>1, <1>3
  <2>2. PICK f : InternsUpTo(ps, p, ts, f, m - 1)
    BY <2>1
  <2> DEFINE g == [k \in 0 .. m |-> IF k = 0 THEN ps ELSE InternStep(f[k - 1], p, ts[k])]
  <2>3. \A k \in 0 .. m - 1 : g[k] = f[k]
    <3> SUFFICES ASSUME NEW k \in 0 .. m - 1 PROVE g[k] = f[k]
      OBVIOUS
    <3>1. f[k] = IF k = 0 THEN ps ELSE InternStep(f[k - 1], p, ts[k])
      BY <2>2 DEF InternsUpTo
    <3>2. k \in 0 .. m
      BY <2>1
    <3> QED BY <3>1, <3>2
  <2>4. \A k \in 0 .. m : k # 0 => g[k - 1] = f[k - 1]
    <3> HIDE DEF g
    <3> QED BY <2>1, <2>3
  <2>5. g = [k \in 0 .. m |-> IF k = 0 THEN ps ELSE InternStep(g[k - 1], p, ts[k])]
    BY <2>4
  <2> HIDE DEF g
  <2>6. InternsUpTo(ps, p, ts, g, m)
    BY <2>5 DEF InternsUpTo
  <2> QED BY <2>6
<1> QED BY <1>2, <1>3

LEMMA InternsOf ==
  ASSUME NEW ps, NEW p, NEW ts \in Seq(Texts)
  PROVE  \E f : /\ f[0] = ps /\ InternAll(ps, p, ts) = f[Len(ts)]
                /\ \A n \in 1 .. Len(ts) : f[n] = InternStep(f[n - 1], p, ts[n])
<1> DEFINE after[n \in 0 .. Len(ts)] ==
        IF n = 0 THEN ps
        ELSE LET before == after[n - 1]
             IN  IF before = Exhausted THEN before ELSE Intern(before, p, ts[n])
<1>0. Len(ts) \in Nat
  OBVIOUS
<1>1. PICK f : InternsUpTo(ps, p, ts, f, Len(ts))
  BY <1>0, InternsExist
<1>2. f = [n \in 0 .. Len(ts) |->
        IF n = 0 THEN ps
        ELSE LET before == f[n - 1]
             IN  IF before = Exhausted THEN before ELSE Intern(before, p, ts[n])]
  BY <1>1 DEF InternsUpTo, InternStep
<1>3. after = [n \in 0 .. Len(ts) |->
        IF n = 0 THEN ps
        ELSE LET before == after[n - 1]
             IN  IF before = Exhausted THEN before ELSE Intern(before, p, ts[n])]
  BY <1>2
<1>4. InternAll(ps, p, ts) = after[Len(ts)]
  BY DEF InternAll
<1> HIDE DEF after
<1>5. after = [n \in 0 .. Len(ts) |-> IF n = 0 THEN ps ELSE InternStep(after[n - 1], p, ts[n])]
  BY <1>3 DEF InternStep
<1>6. after[0] = ps /\ \A n \in 1 .. Len(ts) : after[n] = InternStep(after[n - 1], p, ts[n])
  BY <1>0, <1>5
<1> QED BY <1>4, <1>6

TokenStep(before, p, t) ==
  IF before = Exhausted \/ t = Empty THEN before
  ELSE IF Intern(before, p, t) = Exhausted THEN Intern(before, p, t)
       ELSE AllocList(Intern(before, p, t))

TokensUpTo(ps, p, ts, f, n) ==
  f = [m \in 0 .. n |-> IF m = 0 THEN ps ELSE TokenStep(f[m - 1], p, ts[m])]

LEMMA TokensExist ==
  ASSUME NEW ps, NEW p, NEW ts, NEW n \in Nat
  PROVE  \E f : TokensUpTo(ps, p, ts, f, n)
<1> DEFINE Missing == {m \in Nat : ~ \E f : TokensUpTo(ps, p, ts, f, m)}
<1> SUFFICES ASSUME Missing # {} PROVE FALSE
  OBVIOUS
<1>1. PICK m \in Missing : \A k \in Missing : m <= k
  BY LeastNumber
<1>2. CASE m = 0
  <2> DEFINE z == [k \in 0 .. 0 |-> ps]
  <2>1. z = [k \in 0 .. 0 |-> IF k = 0 THEN ps ELSE TokenStep(z[k - 1], p, ts[k])]
    OBVIOUS
  <2> HIDE DEF z
  <2>2. TokensUpTo(ps, p, ts, z, 0)
    BY <2>1 DEF TokensUpTo
  <2> QED BY <1>2, <2>2
<1>3. CASE m # 0
  <2>1. m - 1 \in Nat /\ m - 1 \notin Missing
    BY <1>1, <1>3
  <2>2. PICK f : TokensUpTo(ps, p, ts, f, m - 1)
    BY <2>1
  <2> DEFINE g == [k \in 0 .. m |-> IF k = 0 THEN ps ELSE TokenStep(f[k - 1], p, ts[k])]
  <2>3. \A k \in 0 .. m - 1 : g[k] = f[k]
    <3> SUFFICES ASSUME NEW k \in 0 .. m - 1 PROVE g[k] = f[k]
      OBVIOUS
    <3>1. f[k] = IF k = 0 THEN ps ELSE TokenStep(f[k - 1], p, ts[k])
      BY <2>2 DEF TokensUpTo
    <3>2. k \in 0 .. m
      BY <2>1
    <3> QED BY <3>1, <3>2
  <2>4. \A k \in 0 .. m : k # 0 => g[k - 1] = f[k - 1]
    <3> HIDE DEF g
    <3> QED BY <2>1, <2>3
  <2>5. g = [k \in 0 .. m |-> IF k = 0 THEN ps ELSE TokenStep(g[k - 1], p, ts[k])]
    BY <2>4
  <2> HIDE DEF g
  <2>6. TokensUpTo(ps, p, ts, g, m)
    BY <2>5 DEF TokensUpTo
  <2> QED BY <2>6
<1> QED BY <1>2, <1>3

LEMMA TokensOf ==
  ASSUME NEW ps, NEW p, NEW ts \in Seq(Texts)
  PROVE  \E f : /\ f[0] = ps /\ Tokenize(ps, p, ts) = f[Len(ts)]
                /\ \A n \in 1 .. Len(ts) : f[n] = TokenStep(f[n - 1], p, ts[n])
<1> DEFINE after[n \in 0 .. Len(ts)] ==
        IF n = 0 THEN ps
        ELSE LET before == after[n - 1]
                 tokens == Intern(before, p, ts[n])
             IN  IF before = Exhausted \/ ts[n] = Empty THEN before
                 ELSE IF tokens = Exhausted THEN tokens ELSE AllocList(tokens)
<1>0. Len(ts) \in Nat
  OBVIOUS
<1>1. PICK f : TokensUpTo(ps, p, ts, f, Len(ts))
  BY <1>0, TokensExist
<1>2. f = [n \in 0 .. Len(ts) |->
        IF n = 0 THEN ps
        ELSE LET before == f[n - 1]
                 tokens == Intern(before, p, ts[n])
             IN  IF before = Exhausted \/ ts[n] = Empty THEN before
                 ELSE IF tokens = Exhausted THEN tokens ELSE AllocList(tokens)]
  BY <1>1 DEF TokensUpTo, TokenStep
<1>3. after = [n \in 0 .. Len(ts) |->
        IF n = 0 THEN ps
        ELSE LET before == after[n - 1]
                 tokens == Intern(before, p, ts[n])
             IN  IF before = Exhausted \/ ts[n] = Empty THEN before
                 ELSE IF tokens = Exhausted THEN tokens ELSE AllocList(tokens)]
  BY <1>2
<1>4. Tokenize(ps, p, ts) = after[Len(ts)]
  BY DEF Tokenize
<1> HIDE DEF after
<1>5. after = [n \in 0 .. Len(ts) |-> IF n = 0 THEN ps ELSE TokenStep(after[n - 1], p, ts[n])]
  BY <1>3 DEF TokenStep
<1>6. after[0] = ps /\ \A n \in 1 .. Len(ts) : after[n] = TokenStep(after[n - 1], p, ts[n])
  BY <1>0, <1>5
<1> QED BY <1>4, <1>6

LEMMA InternedStays ==
  ASSUME NEW ps, NEW qs, NEW A, SoundPools(ps), Extended(ps, qs, A),
         NEW p \in PoolNums, NEW t, Interned(ps, p, t)
  PROVE  Interned(qs, p, t)
<1>1. CASE t = Empty
  BY <1>1 DEF Interned
<1>2. CASE t # Empty
  <2>1. PICK i \in Indices : ps[p].blocks[i].kind = "string" /\ ps[p].blocks[i].text = t
    BY <1>2 DEF Interned, HasString, StringsOf
  <2>2. qs[p].blocks[i] = ps[p].blocks[i]
    BY <2>1, NewBlocks DEF Extended, Kept
  <2> QED BY <2>1, <2>2 DEF Interned, HasString, StringsOf
<1> QED BY <1>1, <1>2

LEMMA InternAllSound ==
  ASSUME NEW ps, SoundPools(ps), NEW p \in PoolNums, NEW ts \in Seq(Texts),
         NEW qs, qs = InternAll(ps, p, ts), qs # Exhausted
  PROVE  Extended(ps, qs, {p}) /\ \A i \in DOMAIN ts : Interned(qs, p, ts[i])
<1>0. Len(ts) \in Nat /\ DOMAIN ts = 1 .. Len(ts) /\ \A i \in 1 .. Len(ts) : ts[i] \in Texts
  OBVIOUS
<1>1. PICK f : /\ f[0] = ps /\ qs = f[Len(ts)]
               /\ \A n \in 1 .. Len(ts) : f[n] = InternStep(f[n - 1], p, ts[n])
  BY InternsOf
<1> DEFINE Right(n) == f[n] # Exhausted =>
                          /\ Extended(ps, f[n], {p})
                          /\ \A i \in 1 .. n : Interned(f[n], p, ts[i])
           Failing == {n \in Nat : n <= Len(ts) /\ ~Right(n)}
<1>2. ASSUME Failing # {} PROVE FALSE
  <2>1. PICK n \in Failing : \A m \in Failing : n <= m
    BY <1>2, LeastNumber
  <2>2. CASE n = 0
    BY <1>1, <2>1, <2>2, ExtendedSame
  <2>3. CASE n # 0
    <3>1. n \in 1 .. Len(ts) /\ n - 1 \in Nat /\ n - 1 <= Len(ts) /\ ~(n <= n - 1) /\ f[n] # Exhausted
      BY <1>0, <2>1, <2>3
    <3> HIDE DEF Right
    <3>2. Right(n - 1)
      BY <2>1, <3>1
    <3> PICK a, b : a = f[n - 1] /\ b = f[n]
      OBVIOUS
    <3>3. b = InternStep(a, p, ts[n])
      BY <1>1, <3>1
    <3>4. a # Exhausted /\ b = Intern(a, p, ts[n])
      BY <3>1, <3>3 DEF InternStep
    <3>5. Extended(ps, a, {p}) /\ \A i \in 1 .. n - 1 : Interned(a, p, ts[i])
      BY <3>2, <3>4 DEF Right
    <3>6. SoundPools(a) /\ ts[n] \in Texts /\ b # Exhausted
      BY <1>0, <3>1, <3>5 DEF Extended
    <3>7. Extended(a, b, {p}) /\ Interned(b, p, ts[n])
      BY <3>4, <3>6, InternSound
    <3>8. Extended(ps, b, {p})
      BY <3>5, <3>7, ExtendedTwice
    <3>9. \A i \in 1 .. n : Interned(b, p, ts[i])
      <4>1. \A i \in 1 .. n - 1 : Interned(b, p, ts[i])
        BY <3>5, <3>6, <3>7, InternedStays
      <4>2. \A i \in 1 .. n : i \in 1 .. n - 1 \/ i = n
        BY <3>1
      <4> QED BY <3>7, <4>1, <4>2
    <3> QED BY <2>1, <3>8, <3>9 DEF Right
  <2> QED BY <2>2, <2>3
<1>3. Right(Len(ts))
  <2> HIDE DEF Right
  <2> QED BY <1>0, <1>2
<1> QED BY <1>0, <1>1, <1>3

\* Tokenizing makes strings of pool p, and lists in pool 0.
LEMMA TokenizeSound ==
  ASSUME NEW ps, ps = Exhausted \/ SoundPools(ps), NEW p \in PoolNums, NEW ts \in Seq(Texts),
         NEW qs, qs = Tokenize(ps, p, ts), qs # Exhausted
  PROVE  ps # Exhausted /\ Extended(ps, qs, {0, p})
<1>0. Len(ts) \in Nat /\ DOMAIN ts = 1 .. Len(ts) /\ \A i \in 1 .. Len(ts) : ts[i] \in Texts
  OBVIOUS
<1>1. PICK f : /\ f[0] = ps /\ qs = f[Len(ts)]
               /\ \A n \in 1 .. Len(ts) : f[n] = TokenStep(f[n - 1], p, ts[n])
  BY TokensOf
<1> DEFINE Right(n) == f[n] # Exhausted => ps # Exhausted /\ Extended(ps, f[n], {0, p})
           Failing == {n \in Nat : n <= Len(ts) /\ ~Right(n)}
<1>2. ASSUME Failing # {} PROVE FALSE
  <2>1. PICK n \in Failing : \A m \in Failing : n <= m
    BY <1>2, LeastNumber
  <2>2. CASE n = 0
    BY <1>1, <2>1, <2>2, ExtendedSame
  <2>3. CASE n # 0
    <3>1. n \in 1 .. Len(ts) /\ n - 1 \in Nat /\ n - 1 <= Len(ts) /\ ~(n <= n - 1) /\ f[n] # Exhausted
      BY <1>0, <2>1, <2>3
    <3> HIDE DEF Right
    <3>2. Right(n - 1)
      BY <2>1, <3>1
    <3> PICK a, b : a = f[n - 1] /\ b = f[n]
      OBVIOUS
    <3>3. b = TokenStep(a, p, ts[n]) /\ b # Exhausted /\ ts[n] \in Texts
      BY <1>0, <1>1, <3>1
    <3>4. a # Exhausted
      BY <3>3 DEF TokenStep
    <3>5. ps # Exhausted /\ Extended(ps, a, {0, p}) /\ SoundPools(a)
      BY <3>2, <3>4 DEF Right, Extended
    <3>6. Extended(ps, b, {0, p})
      <4>1. CASE ts[n] = Empty
        BY <3>3, <3>4, <3>5, <4>1 DEF TokenStep
      <4>2. CASE ts[n] # Empty
        <5> PICK c : c = Intern(a, p, ts[n])
          OBVIOUS
        <5>1. c # Exhausted /\ b = AllocList(c)
          BY <3>3, <3>4, <4>2 DEF TokenStep
        <5>2. Extended(a, c, {p}) /\ SoundPools(c)
          BY <3>3, <3>5, <5>1, InternSound DEF Extended
        <5>3. Extended(c, b, {0})
          BY <3>3, <5>1, <5>2, AllocListSound
        <5>4. Extended(a, b, {0, p})
          BY <5>2, <5>3, ExtendedTwice
        <5> QED BY <3>5, <5>4, ExtendedTwice
      <4> QED BY <4>1, <4>2
    <3> QED BY <2>1, <3>5, <3>6 DEF Right
  <2> QED BY <2>2, <2>3
<1>3. Right(Len(ts))
  <2> HIDE DEF Right
  <2> QED BY <1>0, <1>2
<1> QED BY <1>1, <1>3

-----------------------------------------------------------------------------
(* References.                                                             *)

\* ref leads to a string with text t, the null reference to the empty one.
Live(ps, ref, t) ==
  /\ ref \in Refs
  /\ \/ ref.index = 0 /\ t = Empty
     \/ ref.index \in Indices /\ t \in Texts /\ ps[ref.pool].blocks[ref.index] = Storage(t)

LEMMA LiveText ==
  ASSUME NEW ps, NEW ref, NEW t, Live(ps, ref, t)
  PROVE  Text(ps, ref) = t /\ t \in Texts
<1>1. CASE ref.index = 0 /\ t = Empty
  <2>1. Block(ps, ref) = Unused
    BY <1>1 DEF Block
  <2> QED BY <1>1, <2>1, PoolAssumption, NewBlocks DEF Text
<1>2. CASE ref.index \in Indices /\ t \in Texts /\ ps[ref.pool].blocks[ref.index] = Storage(t)
  <2>1. Block(ps, ref) = Storage(t)
    BY <1>2 DEF Block, Indices
  <2> QED BY <1>2, <2>1, NewBlocks DEF Text
<1> QED BY <1>1, <1>2 DEF Live

LEMMA LiveStays ==
  ASSUME NEW ps, NEW qs, NEW A, Extended(ps, qs, A), NEW ref, NEW t, Live(ps, ref, t)
  PROVE  Live(qs, ref, t)
<1>1. CASE ref.index = 0
  BY <1>1 DEF Live, Indices
<1>2. CASE ref.index # 0
  <2>1. /\ ref \in Refs /\ ref.index \in Indices /\ t \in Texts
        /\ ps[ref.pool].blocks[ref.index] = Storage(t)
    BY <1>2 DEF Live
  <2>2. ref.pool \in PoolNums /\ Storage(t) # Unused
    BY <2>1, NewBlocks DEF Refs
  <2>3. qs[ref.pool].blocks[ref.index] = Storage(t)
    BY <2>1, <2>2 DEF Extended, Kept
  <2> QED BY <2>1, <2>3 DEF Live
<1> QED BY <1>1, <1>2

\* The null reference is in pool 0 or wherever a reference is made.
LEMMA RefOfLive ==
  ASSUME NEW ps, SoundPools(ps), NEW p \in PoolNums, NEW t \in Texts, Interned(ps, p, t),
         NEW ref, ref = RefOf(ps, p, t)
  PROVE  Live(ps, ref, t) /\ (ref.index = 0 \/ ref.pool = p)
<1>0. 0 \in PoolNums /\ 0 \in 0 .. LastBlock /\ LastBlock \in Nat /\ Indices \subseteq 0 .. LastBlock
  BY PoolAssumption DEF PoolNums, Indices
<1>1. CASE t = Empty
  <2>1. ref = NullRef
    BY <1>1 DEF RefOf
  <2>2. ref.index = 0 /\ ref \in Refs
    BY <1>0, <2>1 DEF NullRef, Refs
  <2> QED BY <1>1, <2>2 DEF Live
<1>2. CASE t # Empty
  <2> PICK M : M = Matches(ps, p, t)
    OBVIOUS
  <2>1. M # {} /\ M \subseteq Indices
    BY <1>2, MatchesFound DEF Interned
  <2>2. Max(M) \in M
    BY <1>0, <2>1, MaxGreatest
  <2> PICK s : s = ps[p].blocks[Max(M)].ss
    OBVIOUS
  <2>3. s \in Indices /\ ps[p].blocks[s] = Storage(t)
    BY <1>2, <2>2, MatchesFound
  <2>4. ref = [pool |-> p, index |-> s]
    BY <1>2, <2>1 DEF RefOf
  <2>5. ref.pool = p /\ ref.index = s /\ ref \in Refs
    <3>1. ref.pool = p /\ ref.index = s
      BY ONLY <2>4
    <3>2. s \in 0 .. LastBlock
      BY <1>0, <2>3
    <3>3. ref \in Refs
      BY <2>4, <3>2 DEF Refs
    <3> QED BY <3>1, <3>3
  <2> QED BY <2>3, <2>5 DEF Live
<1> QED BY <1>1, <1>2

LEMMA RefOfType ==
  ASSUME NEW ps, SoundPools(ps), NEW p \in PoolNums, NEW t \in Texts
  PROVE  RefOf(ps, p, t) \in Refs
<1>0. 0 \in PoolNums /\ 0 \in 0 .. LastBlock /\ LastBlock \in Nat /\ Indices \subseteq 0 .. LastBlock
  BY PoolAssumption DEF PoolNums, Indices
<1>1. CASE t = Empty \/ Matches(ps, p, t) = {}
  BY <1>0, <1>1 DEF RefOf, NullRef, Refs
<1>2. CASE t # Empty /\ Matches(ps, p, t) # {}
  <2> PICK M : M = Matches(ps, p, t)
    OBVIOUS
  <2>1. M # {} /\ M \subseteq Indices
    BY <1>2, MatchesFound
  <2>2. Max(M) \in M
    BY <1>0, <2>1, MaxGreatest
  <2>3. ps[p].blocks[Max(M)].ss \in Indices
    BY <1>2, <2>2, MatchesFound
  <2> QED BY <1>0, <1>2, <2>3 DEF RefOf, Refs
<1> QED BY <1>1, <1>2

\* Draining a pool leaves the others.
LEMMA ClearSound ==
  ASSUME NEW ps, SoundPools(ps), NEW p \in PoolNums, NEW qs, qs = ClearPool(ps, p)
  PROVE  /\ SoundPools(qs) /\ InUse(qs, p) = {}
         /\ \A q \in PoolNums : q # p => qs[q] = ps[q]
         /\ \A q \in PoolNums : qs[q].created = ps[q].created
<1> PICK P : P = ps[p]
  OBVIOUS
<1>0. P \in Pool /\ ps \in [PoolNums -> Pool]
  BY DEF SoundPools
<1>1. P = [created |-> P.created, blocks |-> P.blocks,
           initialized |-> P.initialized, table |-> P.table] /\ P.created \in BOOLEAN
  BY <1>0 DEF Pool
<1> PICK F, T, N : F = FALSE /\ T = NoTable /\ N = NoBlocks
  OBVIOUS
<1>2. PICK Q : Q = [created |-> P.created, blocks |-> N, initialized |-> F, table |-> T]
  OBVIOUS
<1>3. [[[P EXCEPT !.initialized = F] EXCEPT !.table = T] EXCEPT !.blocks = N] = Q
  <2>1. PICK U : U = [P EXCEPT !.initialized = F]
    OBVIOUS
  <2>2. U = [created |-> P.created, blocks |-> P.blocks, initialized |-> F, table |-> P.table]
    BY ONLY <1>1, <2>1, Z3
  <2>3. /\ U = [created |-> U.created, blocks |-> U.blocks,
                initialized |-> U.initialized, table |-> U.table]
        /\ U.created = P.created /\ U.initialized = F
    BY ONLY <2>2
  <2>4. PICK V : V = [U EXCEPT !.table = T]
    OBVIOUS
  <2>5. V = [created |-> U.created, blocks |-> U.blocks, initialized |-> U.initialized,
             table |-> T]
    BY ONLY <2>3, <2>4, Z3
  <2>6. /\ V = [created |-> V.created, blocks |-> V.blocks,
                initialized |-> V.initialized, table |-> V.table]
        /\ V.created = U.created /\ V.initialized = U.initialized /\ V.table = T
    BY ONLY <2>5
  <2>7. [V EXCEPT !.blocks = N] = [created |-> V.created, blocks |-> N,
                                   initialized |-> V.initialized, table |-> V.table]
    BY ONLY <2>6, Z3
  <2> QED BY <1>2, <2>1, <2>3, <2>4, <2>6, <2>7
<1>4. qs = [ps EXCEPT ![p] = [[[P EXCEPT !.initialized = F] EXCEPT !.table = T] EXCEPT !.blocks = N]]
  BY DEF ClearPool
<1>5. qs = [ps EXCEPT ![p] = Q]
  BY <1>3, <1>4
<1>6. Q.table = NoTable /\ Q.blocks = NoBlocks /\ Q.created = P.created
  BY <1>2
<1>7. Q \in Pool
  BY <1>1, <1>2, TablesType DEF Pool
<1>8. SoundPool(Q)
  BY <1>6, <1>7, EmptySound
<1>9. qs[p] = Q /\ \A q \in PoolNums : q # p => qs[q] = ps[q]
  BY <1>0, <1>5
<1>10. SoundPools(qs)
  BY <1>0, <1>5, <1>7, <1>8, <1>9 DEF SoundPools
<1>11. InUse(qs, p) = {}
  BY <1>6, <1>9 DEF InUse, NoBlocks
<1>12. \A q \in PoolNums : qs[q].created = ps[q].created
  BY <1>6, <1>9
<1> QED BY <1>9, <1>10, <1>11, <1>12

\* A pool nobody has made yet, or 0.
LEMMA FindUnusedIs ==
  ASSUME NEW ps, NEW p, p = FindUnusedPool(ps)
  PROVE  p \in PoolNums /\ (p = 0 \/ ~ps[p].created)
<1>0. LastPool \in Nat
  BY PoolAssumption
<1> PICK S : S = {q \in 1 .. LastPool : ~ps[q].created}
  OBVIOUS
<1>1. CASE S = {}
  BY <1>0, <1>1 DEF FindUnusedPool, PoolNums
<1>2. CASE S # {}
  <2>1. Min(S) \in S
    BY <1>2, MinLeast
  <2> QED BY <1>0, <1>2, <2>1 DEF FindUnusedPool, PoolNums
<1> QED BY <1>1, <1>2

-----------------------------------------------------------------------------
(* The pools main starts with.                                             *)

LEMMA FirstStrings ==
  /\ SoundPools([p \in PoolNums |-> NoPool])
  /\ Intern([p \in PoolNums |-> NoPool], 0, Notice) # Exhausted
<1> PICK ps : ps = [p \in PoolNums |-> NoPool]
  OBVIOUS
<1>0. /\ 0 \in PoolNums /\ Empty \in Texts /\ Notice \in Texts /\ Notice # Empty
      /\ LastBlock \in Nat /\ LastBlock >= 4
  BY PoolAssumption, SourceAssumption DEF PoolNums
<1>1. /\ NoPool \in Pool /\ NoPool.table = NoTable /\ NoPool.blocks = NoBlocks
      /\ ~NoPool.initialized /\ ~NoPool.created
  BY TablesType DEF NoPool, Pool
<1>2. SoundPools(ps)
  BY <1>1, EmptySound DEF SoundPools
<1>3. ps[0] = NoPool /\ InUse(ps, 0) = {}
  BY <1>0, <1>1 DEF InUse, NoBlocks
<1>4. IsFiniteSet(Indices) /\ Cardinality(Indices) = LastBlock
  <2>1. IsFiniteSet(1 .. LastBlock) /\ Cardinality(1 .. LastBlock) = IF 1 > LastBlock THEN 0 ELSE LastBlock - 1 + 1
    BY <1>0, FS_Interval
  <2> QED BY <1>0, <2>1 DEF Indices
<1>5. HasSlots(ps, 0, 2)
  BY <1>0, <1>3, <1>4 DEF HasSlots
<1> PICK qs : qs = InitPool(ps, 0)
  OBVIOUS
<1> PICK rs : rs = [ps EXCEPT ![0].initialized = TRUE, ![0].table = NoTable]
  OBVIOUS
<1>6. qs = Store(rs, 0, Empty)
  BY <1>1, <1>3, <1>5 DEF InitPool
<1>7. /\ SoundPools(rs) /\ InUse(rs, 0) = {} /\ HasSlots(rs, 0, 2)
      /\ ~HasString(rs, 0, Empty) /\ rs[0].initialized
  <2> PICK P, R : P = NoPool /\ R = ReadyPool(P)
    OBVIOUS
  <2>1. P = [created |-> P.created, blocks |-> P.blocks,
             initialized |-> P.initialized, table |-> P.table] /\ P \in Pool
    BY <1>1 DEF Pool
  <2>2. PICK T, N : T = TRUE /\ N = NoTable
    OBVIOUS
  <2>3. [[P EXCEPT !.initialized = T] EXCEPT !.table = N]
          = [created |-> P.created, blocks |-> P.blocks, initialized |-> T, table |-> N]
    <3>1. PICK U : U = [P EXCEPT !.initialized = T]
      OBVIOUS
    <3>2. U = [created |-> P.created, blocks |-> P.blocks, initialized |-> T,
               table |-> P.table]
      BY ONLY <2>1, <3>1, Z3
    <3>3. /\ U = [created |-> U.created, blocks |-> U.blocks,
                  initialized |-> U.initialized, table |-> U.table]
          /\ U.created = P.created /\ U.blocks = P.blocks /\ U.initialized = T
      BY ONLY <3>2
    <3>4. [U EXCEPT !.table = N] = [created |-> U.created, blocks |-> U.blocks,
                                    initialized |-> U.initialized, table |-> N]
      BY ONLY <3>3, Z3
    <3> QED BY <3>1, <3>3, <3>4
  <2>4. rs = [ps EXCEPT ![0] = [[P EXCEPT !.initialized = T] EXCEPT !.table = N]]
    BY <1>3, <2>2
  <2>5. rs = [ps EXCEPT ![0] = R]
    BY <2>2, <2>3, <2>4 DEF ReadyPool
  <2>6. SoundPool(R) /\ R.initialized /\ StringsOf(R) = {} /\ R.blocks = P.blocks
    BY <1>0, <1>1, <1>2, <1>3, ReadySound DEF SoundPools
  <2>7. rs[0] = R /\ \A q \in PoolNums : q # 0 => rs[q] = ps[q]
    BY <1>0, <2>5
  <2>8. SoundPools(rs)
    BY <1>2, <2>5, <2>6, <2>7 DEF SoundPools, SoundPool
  <2>9. rs[0].blocks = ps[0].blocks
    BY <1>3, <2>1, <2>2, <2>6, <2>7
  <2>10. InUse(rs, 0) = {} /\ HasSlots(rs, 0, 2)
    BY <1>3, <1>5, <2>9 DEF HasSlots, InUse
  <2>11. ~HasString(rs, 0, Empty)
    BY <2>6, <2>7 DEF HasString
  <2> QED BY <2>6, <2>7, <2>8, <2>10, <2>11
<1>8. /\ SoundPools(qs)
      /\ \E s, e \in Indices : InUse(qs, 0) \subseteq {s, e}
  <2>1. Extended(rs, qs, {0})
    BY <1>0, <1>6, <1>7, StoreExtends
  <2>2. TwoMore(rs, qs, 0)
    BY <1>0, <1>6, <1>7, StoreExtends
  <2>3. PICK s \in Indices, e \in Indices : InUse(qs, 0) \subseteq InUse(rs, 0) \cup {s, e}
    BY <2>2 DEF TwoMore
  <2>4. InUse(qs, 0) \subseteq {s, e}
    BY <1>7, <2>3
  <2>5. \E x, y \in Indices : InUse(qs, 0) \subseteq {x, y}
    BY <2>4, Zenon
  <2>6. SoundPools(qs)
    BY <2>1 DEF Extended
  <2> QED BY <2>5, <2>6
<1>9. HasSlots(qs, 0, 2)
  <2>1. PICK s \in Indices, e \in Indices : InUse(qs, 0) \subseteq {s, e}
    BY <1>8
  <2> PICK F, G : F = Indices \ {s} /\ G = F \ {e}
    OBVIOUS
  <2>2. IsFiniteSet(F) /\ Cardinality(F) = LastBlock - 1
    BY <1>4, FS_RemoveElement
  <2>3. IsFiniteSet(G) /\ Cardinality(G) \in Nat /\ Cardinality(G) >= LastBlock - 2
    <3>1. CASE e \in F
      <4>1. IsFiniteSet(F \ {e}) /\ Cardinality(F \ {e}) = Cardinality(F) - 1
        BY <2>2, <3>1, FS_RemoveElement
      <4>2. G = F \ {e} /\ Cardinality(F) = LastBlock - 1
        BY <2>2
      <4> QED BY <1>0, <4>1, <4>2
    <3>2. CASE e \notin F
      <4>1. G = F
        BY <3>2
      <4>2. IsFiniteSet(G) /\ Cardinality(G) = LastBlock - 1
        BY <2>2, <4>1
      <4> QED BY <1>0, <4>2
    <3> QED BY <3>1, <3>2
  <2>4. G \subseteq Indices \ InUse(qs, 0)
    BY <2>1
  <2>5. Cardinality(G) <= Cardinality(Indices \ InUse(qs, 0))
    BY <2>4, SlotsFinite, FS_Subset
  <2>6. Cardinality(Indices \ InUse(qs, 0)) \in Nat
    BY SlotsFinite, FS_CardinalityType
  <2> QED BY <1>0, <2>3, <2>5, <2>6 DEF HasSlots
<1>10. qs # Exhausted
  BY <1>8, NotExhausted
<1>11. Intern(ps, 0, Notice) = qs \/ Intern(ps, 0, Notice) = Store(qs, 0, Notice)
  BY <1>0, <1>9, <1>10 DEF Intern
<1>12. CASE Intern(ps, 0, Notice) = qs
  BY <1>2, <1>10, <1>12
<1>13. CASE Intern(ps, 0, Notice) = Store(qs, 0, Notice) /\ Intern(ps, 0, Notice) # qs
  <2>1. Matches(qs, 0, Notice) = {}
    BY <1>0, <1>10, <1>13 DEF Intern
  <2>2. ~HasString(qs, 0, Notice)
    BY <1>0, <1>8, <2>1, MatchesFound
  <2>3. qs[0].initialized
    BY <1>0, <1>6, <1>7, StoreExtends
  <2>4. SoundPools(Store(qs, 0, Notice))
    BY <1>0, <1>8, <1>9, <2>2, <2>3, StoreExtends DEF Extended
  <2> QED BY <1>2, <1>13, <2>4, NotExhausted
<1> QED BY <1>11, <1>12, <1>13

-----------------------------------------------------------------------------
(* What the properties say of a sound pool.                                *)

LEMMA SoundChains ==
  ASSUME NEW P, SoundPool(P), NEW b \in Bins
  PROVE  \A i \in Chain(P, b) : EntryOf(P, i, b)
<1> DEFINE S == {i \in Indices : EntryOf(P, i, b)}
<1>1. Heads(P) /\ Links(P)
  BY DEF SoundPool
<1>2. P.table[b] \in S \cup {0}
  BY <1>1 DEF Heads, EntryOf
<1>3. \A i \in S : P.blocks[i].kind = "entry" => P.blocks[i].next \in S \cup {0}
  <2> SUFFICES ASSUME NEW i \in S, P.blocks[i].next # 0
               PROVE  P.blocks[i].next \in S
    OBVIOUS
  <2>1. i \in Indices /\ EntryOf(P, i, b) /\ P.blocks[i].kind = "entry"
    BY DEF EntryOf
  <2>2. PICK c \in Bins : EntryOf(P, i, c) /\ EntryOf(P, P.blocks[i].next, c)
    BY <1>1, <2>1 DEF Links
  <2>3. c = b
    BY <2>1, <2>2 DEF EntryOf
  <2> QED BY <2>2, <2>3 DEF EntryOf
<1>4. Follows(P, b, S)
  BY <1>2, <1>3 DEF Follows
<1>5. Chain(P, b) \subseteq S
  <2> HIDE DEF S
  <2> QED BY <1>4, ChainLeast
<1> QED BY <1>5

-----------------------------------------------------------------------------
(* What the steps of the programs do to the strings they hold.             *)

FunctionRec == [name : Refs, text : Texts, built : BOOLEAN, code : BOOLEAN]

\* The names of functions are strings, and so are the lines of the source s.
Named(ps, fs)   == \A i \in DOMAIN fs : Live(ps, fs[i].name, fs[i].text)
Held(ps, ls, s) == Len(ls) = Len(s) /\ \A i \in DOMAIN ls : Live(ps, ls[i], s[i])

\* The names are in pool p, or not.
NamesIn(fs, p)  == \A i \in DOMAIN fs : fs[i].name.index = 0 \/ fs[i].name.pool = p
NamesOut(fs, p) == \A i \in DOMAIN fs : fs[i].name.index = 0 \/ fs[i].name.pool # p

NoCode(fs) == \A i \in DOMAIN fs : ~fs[i].code

\* There are blocks in pool p, and in no pools but those of A and pool 0.
Filled(ps, p) == InUse(ps, p) # {}
OnlyIn(ps, A) == \A p \in PoolNums \ (A \cup {0}) : InUse(ps, p) = {}

LEMMA StepKeeps ==
  ASSUME NEW ps, NEW qs, NEW A, Extended(ps, qs, A), NEW B, A \subseteq B \cup {0}
  PROVE  /\ \A fs : Named(ps, fs) => Named(qs, fs)
         /\ \A ls, s : Held(ps, ls, s) => Held(qs, ls, s)
         /\ \A p \in PoolNums : Filled(ps, p) => Filled(qs, p)
         /\ OnlyIn(ps, B) => OnlyIn(qs, B)
<1>1. \A fs : Named(ps, fs) => Named(qs, fs)
  BY LiveStays DEF Named
<1>2. \A ls, s : Held(ps, ls, s) => Held(qs, ls, s)
  BY LiveStays DEF Held
<1>3. \A p \in PoolNums : Filled(ps, p) => Filled(qs, p)
  <2> SUFFICES ASSUME NEW p \in PoolNums, NEW i \in InUse(ps, p) PROVE InUse(qs, p) # {}
    BY DEF Filled
  <2>1. i \in InUse(qs, p)
    BY DEF Extended, Kept, InUse
  <2> QED BY <2>1
<1>4. OnlyIn(ps, B) => OnlyIn(qs, B)
  BY DEF OnlyIn, Extended, InUse
<1> QED BY <1>1, <1>2, <1>3, <1>4

LEMMA ClearKeeps ==
  ASSUME NEW ps, SoundPools(ps), NEW p \in PoolNums, NEW qs, qs = ClearPool(ps, p)
  PROVE  /\ \A fs : Named(ps, fs) /\ NamesOut(fs, p) => Named(qs, fs)
         /\ \A q \in PoolNums : q # p /\ Filled(ps, q) => Filled(qs, q)
         /\ \A B : OnlyIn(ps, B \cup {p}) => OnlyIn(qs, B)
<1>1. InUse(qs, p) = {} /\ \A q \in PoolNums : q # p => qs[q] = ps[q]
  BY ClearSound
<1>2. \A fs : Named(ps, fs) /\ NamesOut(fs, p) => Named(qs, fs)
  <2> SUFFICES ASSUME NEW fs, Named(ps, fs), NamesOut(fs, p), NEW i \in DOMAIN fs
               PROVE  Live(qs, fs[i].name, fs[i].text)
    BY DEF Named
  <2> PICK r, t : r = fs[i].name /\ t = fs[i].text
    OBVIOUS
  <2>1. Live(ps, r, t) /\ (r.index = 0 \/ r.pool # p)
    BY DEF Named, NamesOut
  <2>2. r \in Refs /\ r.pool \in PoolNums
    BY <2>1 DEF Live, Refs
  <2>3. CASE r.index = 0
    BY <2>1, <2>2, <2>3, SlotsFinite DEF Live, Indices
  <2>4. CASE r.index # 0
    BY <1>1, <2>1, <2>2, <2>4 DEF Live
  <2> QED BY <2>3, <2>4
<1>3. \A q \in PoolNums : q # p /\ Filled(ps, q) => Filled(qs, q)
  BY <1>1 DEF Filled, InUse
<1>4. \A B : OnlyIn(ps, B \cup {p}) => OnlyIn(qs, B)
  <2> SUFFICES ASSUME NEW B, OnlyIn(ps, B \cup {p}), NEW q \in PoolNums, q \notin B, q # 0
               PROVE  InUse(qs, q) = {}
    BY DEF OnlyIn
  <2>1. CASE q = p
    BY <1>1, <2>1
  <2>2. CASE q # p
    BY <1>1, <2>2 DEF OnlyIn, InUse
  <2> QED BY <2>1, <2>2
<1> QED BY <1>2, <1>3, <1>4

\* Whose strings are all in pool 0, the names are as well.
LEMMA NamesInZero ==
  ASSUME NEW ps, OnlyIn(ps, {}), NEW fs, Named(ps, fs), NEW p, p # 0
  PROVE  NamesOut(fs, p)
<1> SUFFICES ASSUME NEW i \in DOMAIN fs, fs[i].name.index # 0, fs[i].name.pool # 0 PROVE FALSE
  BY DEF NamesOut
<1> PICK r, t : r = fs[i].name /\ t = fs[i].text
  OBVIOUS
<1>1. /\ r \in Refs /\ r.index \in Indices /\ t \in Texts
      /\ ps[r.pool].blocks[r.index] = Storage(t)
  BY DEF Named, Live
<1>2. r.pool \in PoolNums \ {0}
  BY <1>1 DEF Refs
<1>3. r.index \in InUse(ps, r.pool)
  BY <1>1, NewBlocks DEF InUse
<1> QED BY <1>2, <1>3 DEF OnlyIn

\* A pool with blocks exists.
LEMMA FilledCreated ==
  ASSUME NEW ps, SoundPools(ps), NEW p \in PoolNums, Filled(ps, p)
  PROVE  ps[p].created
<1>1. Blank(ps[p])
  BY DEF SoundPools, SoundPool
<1> QED BY <1>1 DEF Blank, Filled, InUse, NoBlocks

\* An interned text is in the pool.
LEMMA InternedFills ==
  ASSUME NEW ps, NEW p, NEW t, Interned(ps, p, t), t # Empty
  PROVE  Filled(ps, p)
BY NewBlocks DEF Interned, HasString, StringsOf, Filled, InUse

-----------------------------------------------------------------------------
(* The invariant.                                                          *)

SourceLines == Labels \cup Instructions \cup Wrong \cup {Empty}

Reading    == {"tests", "read", "enter"}
Assembling == {"collect", "build", "finish"}
Returned   == {"leave", "assembled"}
Running    == {"display", "frame", "run"}

Base ==
  /\ SoundPools(pools)
  /\ defaultPool \in PoolNums /\ appPool \in PoolNums /\ saved \in PoolNums
  /\ temp \in PoolNums /\ display \in PoolNums
  /\ step \in Steps /\ caller \in {"app", "tests"}
  /\ flags \in [debug : BOOLEAN, vis : BOOLEAN] /\ hasError \in BOOLEAN
  /\ source \in Seq(SourceLines) /\ lines \in Seq(Refs) /\ lineNum \in Nat \ {0}
  /\ functions \in Seq(FunctionRec)

\* The lines are held while they are read; the tests have no labels.
LinesInv ==
  step \in {"enter", "collect", "build"} =>
    Held(pools, lines, source) /\ (caller = "tests" => source \in Seq(Instructions))

\* The functions' names: in the assembler's pool while it works, and then
\* where draining the source's pool leaves them.
NamesInv ==
  /\ step \in Assembling \cup Returned \cup Running => Named(pools, functions)
  /\ step \in Assembling => NamesIn(functions, defaultPool)
  /\ step \in Returned /\ caller = "app" => NamesOut(functions, appPool)
  /\ step = "collect" => NoCode(functions) /\ (caller = "tests" => functions = <<>>)

\* Which pools hold strings, besides pool 0.
OwnersInv ==
  /\ step = "start" => \A p \in 1 .. LastPool : ~pools[p].created
  /\ step \in Reading \cup Assembling \cup Returned => appPool # 0 /\ Filled(pools, appPool)
  /\ step \in Reading => defaultPool = appPool /\ OnlyIn(pools, {appPool})
  /\ step \in Assembling =>
       /\ saved = (IF caller = "app" THEN 0 ELSE appPool) /\ temp # appPool
       /\ defaultPool = (IF temp = 0 THEN saved ELSE temp)
       /\ OnlyIn(pools, {appPool, temp})
  \* An Assemble cut short leaves its pool as it is, and no code.
  /\ step \in Returned => OnlyIn(pools, {appPool}) \/ (caller = "app" /\ NoCode(functions))
  /\ step = "leave" /\ caller = "tests" => defaultPool = appPool
  /\ step = "assembled" => defaultPool = appPool /\ caller = "app"
  /\ step \in Running => defaultPool = 0 /\ OnlyIn(pools, {})

IInv == Base /\ LinesInv /\ NamesInv /\ OwnersInv

\* Nothing is asked of a program that has ended.
LEMMA EndKeeps == Base' /\ step' \in {"done", "exhausted"} => IInv'
BY DEF IInv, LinesInv, NamesInv, OwnersInv, Reading, Assembling, Returned, Running

LEMMA InitInv == Init => IInv
<1> SUFFICES ASSUME Init PROVE IInv
  OBVIOUS
<1>0. 0 \in PoolNums /\ Notice \in Texts /\ LastPool \in Nat \ {0}
  BY PoolAssumption, SourceAssumption DEF PoolNums
<1> PICK none : none = [p \in PoolNums |-> NoPool]
  OBVIOUS
<1> PICK ps : ps = pools
  OBVIOUS
<1>1. ps = Intern(none, 0, Notice) /\ SoundPools(none) /\ ps # Exhausted
  BY FirstStrings DEF Init
<1>2. Extended(none, ps, {0})
  BY <1>0, <1>1, InternSound
<1>3. SoundPools(pools)
  BY <1>2 DEF Extended
<1>4. \A p \in 1 .. LastPool : ~pools[p].created
  <2> SUFFICES ASSUME NEW p \in 1 .. LastPool PROVE ~ps[p].created
    OBVIOUS
  <2>1. p \in PoolNums \ {0}
    BY <1>0 DEF PoolNums
  <2>2. ps[p] = none[p] /\ none[p] = NoPool
    BY <1>2, <2>1 DEF Extended
  <2> QED BY <2>2 DEF NoPool
<1>5. step = "start" /\ Base
  <2>1. \A S : <<>> \in Seq(S)
    OBVIOUS
  <2>2. source \in Seq(SourceLines) /\ lines \in Seq(Refs) /\ functions \in Seq(FunctionRec)
    BY <2>1 DEF Init
  <2>3. /\ step = "start" /\ caller = "app" /\ defaultPool = 0 /\ appPool = 0 /\ saved = 0
        /\ temp = 0 /\ display = 0 /\ lineNum = 1 /\ hasError = FALSE
        /\ flags \in [debug : BOOLEAN, vis : BOOLEAN]
    BY DEF Init
  <2> QED BY <1>0, <1>3, <2>2, <2>3 DEF Base, Steps
<1> QED BY <1>4, <1>5 DEF IInv, LinesInv, NamesInv, OwnersInv, Reading, Assembling, Returned, Running

\* What a step goes on with; an exhausted pool ends the program.
LEMMA GoesOn ==
  ASSUME NEW ps, NEW next, GoOn(ps, next)
  PROVE  \/ ps = Exhausted /\ step' = "exhausted" /\ pools' = pools
         \/ ps # Exhausted /\ step' = next /\ pools' = ps
BY DEF GoOn

LEMMA StartKeeps == IInv /\ Start => IInv'
<1> SUFFICES ASSUME IInv, Start PROVE IInv'
  OBVIOUS
<1>0. 0 \in PoolNums /\ Notice \in Texts /\ Notice # Empty /\ LastPool \in Nat \ {0}
  BY PoolAssumption, SourceAssumption DEF PoolNums
<1>1. /\ Base /\ step = "start" /\ (\A p \in 1 .. LastPool : ~pools[p].created)
      /\ defaultPool' = appPool'
      /\ UNCHANGED <<flags, source, lines, caller, saved, temp, lineNum, functions,
                     hasError, display>>
  BY DEF IInv, Start, OwnersInv, input, asm
<1> PICK ps, qs, p : /\ ps = pools /\ p = appPool' /\ qs = Intern(ps, p, Notice)
  OBVIOUS
<1>2. p \in PoolNums /\ p # 0
  <2>1. p = FindUnusedPool(ps)
    BY DEF Start
  <2>2. p \in PoolNums
    BY <2>1, FindUnusedIs
  <2> DEFINE unused == {q \in 1 .. LastPool : ~ps[q].created}
  <2>3. 1 \in unused /\ unused \subseteq Nat /\ 0 \notin unused
    BY <1>0, <1>1
  <2>4. Min(unused) \in unused
    <3> HIDE DEF unused
    <3> QED BY <2>3, MinLeast
  <2>5. p = Min(unused)
    BY <2>1, <2>3 DEF FindUnusedPool
  <2> QED BY <2>2, <2>3, <2>4, <2>5
<1>3. GoOn(qs, IF flags.debug THEN "tests" ELSE "read")
  BY DEF Start
<1>4. CASE qs = Exhausted
  <2>1. step' = "exhausted" /\ pools' = pools
    BY <1>3, <1>4 DEF GoOn
  <2>2. Base'
    BY <1>1, <1>2, <2>1 DEF Base, Steps
  <2> QED BY <2>1, <2>2, EndKeeps
<1>5. CASE qs # Exhausted
  <2>1. step' \in {"tests", "read"} /\ pools' = qs
    BY <1>3, <1>5 DEF GoOn
  <2>2. Extended(ps, qs, {p}) /\ Interned(qs, p, Notice)
    BY <1>0, <1>1, <1>2, <1>5, InternSound DEF Base
  <2>3. SoundPools(qs) /\ Filled(qs, p)
    BY <1>0, <2>2, InternedFills DEF Extended
  <2>4. OnlyIn(ps, {p})
    <3> SUFFICES ASSUME NEW q \in PoolNums, q # 0 PROVE InUse(ps, q) = {}
      BY DEF OnlyIn
    <3>1. ~ps[q].created /\ Blank(ps[q])
      BY <1>0, <1>1 DEF PoolNums, Base, SoundPools, SoundPool
    <3> QED BY <3>1 DEF Blank, InUse, NoBlocks
  <2>5. OnlyIn(qs, {p})
    BY <2>2, <2>4, StepKeeps
  <2>6. Base'
    BY <1>1, <1>2, <2>1, <2>3 DEF Base, Steps
  <2> QED BY <1>1, <1>2, <2>1, <2>3, <2>5, <2>6
          DEF IInv, LinesInv, NamesInv, OwnersInv, Reading, Assembling, Returned, Running
<1> QED BY <1>4, <1>5

\* The lines of a source are texts.
LEMMA SourceTexts ==
  /\ SourceLines \subseteq Texts
  /\ \A s : s \in Seq(SourceLines) => s \in Seq(Texts)
  /\ \A s \in Sources : s \in Seq(SourceLines)
  /\ \A s \in TestSources : s \in Seq(SourceLines) /\ s \in Seq(Instructions)
<1>1. SourceLines \subseteq Texts /\ Instructions \subseteq SourceLines
  BY PoolAssumption, SourceAssumption DEF SourceLines
<1>2. \A s \in Sources : s \in Seq(SourceLines)
  BY SourceAssumption DEF SourceLines
<1>3. \A s \in TestSources : s \in Seq(Instructions)
  BY SourceAssumption
<1> QED BY <1>1, <1>2, <1>3

\* A source is read into the pool that holds what the reader has made so far.
LEMMA LoadKeeps ==
  ASSUME IInv, step \in {"tests", "read"}, NEW s, s \in Seq(SourceLines),
         NEW who \in {"app", "tests"}, who = "tests" => s \in Seq(Instructions),
         Load(s, who), UNCHANGED <<defaultPool, app, asm, display>>
  PROVE  IInv'
<1>1. /\ Base /\ appPool # 0 /\ Filled(pools, appPool) /\ defaultPool = appPool
      /\ OnlyIn(pools, {appPool})
  BY DEF IInv, OwnersInv, Reading
<1>2. UNCHANGED <<defaultPool, flags, appPool, saved, temp, lineNum, functions, hasError, display>>
  BY DEF app, asm
<1>0. s \in Seq(Texts) /\ DOMAIN s = 1 .. Len(s) /\ Len(s) \in Nat /\ \A i \in DOMAIN s : s[i] \in Texts
  <2>1. s \in Seq(Texts)
    BY SourceTexts
  <2> QED BY <2>1
<1> PICK p : p = defaultPool
  OBVIOUS
<1> PICK ps, qs, rs : /\ ps = pools /\ qs = InternAll(ps, p, s)
                      /\ rs = IF qs = Exhausted THEN Exhausted ELSE AllocList(qs)
  OBVIOUS
<1>3. /\ source' = s /\ caller' = who /\ GoOn(rs, "enter")
      /\ lines' = IF rs = Exhausted THEN <<>> ELSE [i \in DOMAIN s |-> RefOf(rs, p, s[i])]
  BY DEF Load
<1>4. p \in PoolNums /\ SoundPools(ps)
  BY <1>1 DEF Base
<1>5. CASE rs = Exhausted
  <2>1. step' = "exhausted" /\ pools' = pools /\ lines' = <<>>
    BY <1>3, <1>5 DEF GoOn
  <2>2. lines' \in Seq(Refs)
    BY <2>1
  <2>3. Base'
    BY <1>1, <1>2, <1>3, <2>1, <2>2 DEF Base, Steps
  <2> QED BY <2>1, <2>3, EndKeeps
<1>6. CASE rs # Exhausted
  <2>1. step' = "enter" /\ pools' = rs /\ qs # Exhausted /\ rs = AllocList(qs)
    BY <1>3, <1>6 DEF GoOn
  <2>2. Extended(ps, qs, {p}) /\ \A i \in DOMAIN s : Interned(qs, p, s[i])
    BY <1>0, <1>4, <2>1, InternAllSound
  <2>3. SoundPools(qs)
    BY <2>2 DEF Extended
  <2>4. Extended(qs, rs, {0})
    BY <1>6, <2>1, <2>3, AllocListSound
  <2>5. Extended(ps, rs, {0, p}) /\ SoundPools(rs)
    <3>1. SoundPools(rs)
      BY <2>4 DEF Extended
    <3> QED BY <2>2, <2>4, <3>1, ExtendedTwice
  <2>6. \A i \in DOMAIN s : Interned(rs, p, s[i])
    BY <1>4, <2>2, <2>3, <2>4, InternedStays
  <2>7. \A i \in DOMAIN s : Live(rs, RefOf(rs, p, s[i]), s[i])
    BY <1>0, <1>4, <2>5, <2>6, RefOfLive
  <2>8. \A i \in DOMAIN s : RefOf(rs, p, s[i]) \in Refs
    BY <1>0, <1>4, <2>5, RefOfType
  <2> PICK ls : ls = lines'
    OBVIOUS
  <2>9. ls = [i \in 1 .. Len(s) |-> RefOf(rs, p, s[i])]
    BY <1>0, <1>3, <1>6
  <2>10. ls \in Seq(Refs) /\ DOMAIN ls = DOMAIN s /\ Len(ls) = Len(s)
    BY <1>0, <2>8, <2>9
  <2>11. Held(rs, ls, s)
    BY <1>0, <2>7, <2>9, <2>10 DEF Held
  <2>12. Filled(rs, p) /\ OnlyIn(rs, {p})
    BY <1>1, <1>4, <2>5, StepKeeps
  <2>13. Base'
    BY <1>1, <1>2, <1>3, <2>1, <2>5, <2>10 DEF Base, Steps
  <2> QED BY <1>1, <1>2, <1>3, <2>1, <2>11, <2>12, <2>13
          DEF IInv, LinesInv, NamesInv, OwnersInv, Reading, Assembling, Returned, Running
<1> QED BY <1>5, <1>6

LEMMA ReadKeeps == IInv /\ (Test \/ TestsPass \/ Read) => IInv'
<1>1. ASSUME IInv, Test PROVE IInv'
  <2>1. PICK s \in TestSources : Load(s, "tests")
    BY <1>1 DEF Test
  <2>2. s \in Seq(SourceLines) /\ s \in Seq(Instructions)
    BY SourceTexts
  <2>3. step = "tests" /\ UNCHANGED <<defaultPool, app, asm, display>>
    BY <1>1 DEF Test
  <2> QED BY <1>1, <2>1, <2>2, <2>3, LoadKeeps
<1>2. ASSUME IInv, TestsPass PROVE IInv'
  <2>1. /\ step = "tests" /\ step' = "read"
        /\ UNCHANGED <<pools, defaultPool, flags, appPool, source, lines, caller, saved, temp,
                       lineNum, functions, hasError, display>>
    BY <1>2 DEF TestsPass, app, input, asm
  <2>2. Base'
    BY <1>2, <2>1 DEF IInv, Base, Steps
  <2> QED BY <1>2, <2>1, <2>2
          DEF IInv, LinesInv, NamesInv, OwnersInv, Reading, Assembling, Returned, Running
<1>3. ASSUME IInv, Read PROVE IInv'
  <2>1. CASE \E s \in Sources \ {<<>>} : Load(s, "app") /\ UNCHANGED defaultPool
    <3>1. PICK s \in Sources : Load(s, "app") /\ UNCHANGED defaultPool
      BY <2>1
    <3>2. s \in Seq(SourceLines)
      BY SourceTexts
    <3>3. step = "read" /\ UNCHANGED <<defaultPool, app, asm, display>>
      BY <1>3, <3>1 DEF Read
    <3> QED BY <1>3, <3>1, <3>2, <3>3, LoadKeeps
  <2>2. CASE step' = "done" /\ UNCHANGED <<pools, defaultPool, input>>
    <3>1. UNCHANGED <<pools, defaultPool, flags, appPool, source, lines, caller, saved, temp,
                      lineNum, functions, hasError, display>>
      BY <1>3, <2>2 DEF Read, app, input, asm
    <3>2. Base'
      BY <1>3, <2>2, <3>1 DEF IInv, Base, Steps
    <3> QED BY <2>2, <3>2, EndKeeps
  <2> QED BY <1>3, <2>1, <2>2 DEF Read
<1> QED BY <1>1, <1>2, <1>3

LEMMA AssembleKeeps == IInv /\ Assemble => IInv'
<1> SUFFICES ASSUME IInv, Assemble PROVE IInv'
  OBVIOUS
<1>0. 0 \in PoolNums
  BY PoolAssumption DEF PoolNums
<1>1. /\ Base /\ appPool # 0 /\ Filled(pools, appPool) /\ defaultPool = appPool
      /\ OnlyIn(pools, {appPool}) /\ Held(pools, lines, source)
      /\ caller = "tests" => source \in Seq(Instructions)
  BY DEF IInv, OwnersInv, LinesInv, Reading, Assemble
<1>2. /\ step' = "collect" /\ functions' = <<>> /\ hasError' = FALSE /\ lineNum' = 1
      /\ saved' = (IF caller = "app" THEN 0 ELSE appPool)
      /\ defaultPool' = (IF temp' = 0 THEN saved' ELSE temp')
      /\ UNCHANGED <<pools, flags, appPool, source, lines, caller, display>>
  BY <1>1 DEF Assemble, app, input
<1> PICK ps, p : ps = pools /\ p = temp'
  OBVIOUS
<1>3. p \in PoolNums /\ (p = 0 \/ ~ps[p].created)
  <2>1. p = FindUnusedPool(ps)
    BY DEF Assemble
  <2> QED BY <2>1, FindUnusedIs
<1>4. p # appPool
  BY <1>1, <1>3, FilledCreated DEF Base
<1>5. functions' \in Seq(FunctionRec)
  BY <1>2
<1>6. Base'
  <2>1. saved' \in PoolNums /\ temp' \in PoolNums
    BY <1>0, <1>1, <1>2, <1>3 DEF Base
  <2>2. defaultPool' \in PoolNums
    BY <1>2, <2>1
  <2>3. step' \in Steps /\ hasError' \in BOOLEAN /\ lineNum' \in Nat \ {0}
    <3>1. hasError' \in BOOLEAN
      BY <1>2, Zenon
    <3> QED BY <1>2, <3>1 DEF Steps
  <2>4. UNCHANGED <<pools, flags, appPool, source, lines, caller, display>>
    BY <1>2
  <2> QED BY <1>1, <1>5, <2>1, <2>2, <2>3, <2>4 DEF Base
<1>7. /\ Named(pools', functions') /\ NamesIn(functions', defaultPool') /\ NoCode(functions')
  BY <1>2 DEF Named, NamesIn, NoCode
<1>8. OnlyIn(pools', {appPool', temp'})
  BY <1>1, <1>2 DEF OnlyIn
<1> QED BY <1>1, <1>2, <1>4, <1>6, <1>7, <1>8
        DEF IInv, LinesInv, NamesInv, OwnersInv, Reading, Assembling, Returned, Running

\* The lines as the assembler reads them.
LEMMA LinesAre ==
  ASSUME IInv, step \in {"collect", "build"}
  PROVE  /\ Len(lines) \in Nat
         /\ \A i \in 1 .. Len(lines) :
              /\ Line(i) = source[i] /\ Line(i) \in SourceLines /\ Line(i) \in Texts
              /\ caller = "tests" => Line(i) \notin Labels
<1>1. /\ Held(pools, lines, source) /\ source \in Seq(SourceLines) /\ lines \in Seq(Refs)
      /\ caller = "tests" => source \in Seq(Instructions)
  BY DEF IInv, LinesInv, Base
<1>2. /\ Len(lines) \in Nat /\ Len(source) = Len(lines) /\ DOMAIN lines = 1 .. Len(lines)
      /\ \A i \in 1 .. Len(lines) :
           /\ source[i] \in SourceLines
           /\ caller = "tests" => source[i] \in Instructions
  BY <1>1 DEF Held
<1>3. \A i \in 1 .. Len(lines) : Live(pools, lines[i], source[i])
  BY <1>1, <1>2 DEF Held
<1>4. \A i \in 1 .. Len(lines) : Line(i) = source[i]
  BY <1>3, LiveText DEF Line
<1>5. \A x \in Instructions : x \notin Labels
  BY SourceAssumption
<1> QED BY <1>2, <1>4, <1>5, SourceTexts

\* Which pools the assembler works with.
LEMMA AssemblerPools ==
  ASSUME IInv, step \in Assembling
  PROVE  /\ Base /\ SoundPools(pools) /\ 0 \in PoolNums
         /\ defaultPool \in PoolNums /\ appPool \in PoolNums
         /\ Named(pools, functions) /\ NamesIn(functions, defaultPool)
         /\ appPool # 0 /\ Filled(pools, appPool)
         /\ saved = (IF caller = "app" THEN 0 ELSE appPool) /\ temp # appPool
         /\ defaultPool = (IF temp = 0 THEN saved ELSE temp)
         /\ OnlyIn(pools, {appPool, temp})
         /\ {0, defaultPool} \subseteq {appPool, temp} \cup {0}
         /\ caller = "app" => NamesOut(functions, appPool)
<1>1. /\ Base /\ Named(pools, functions) /\ NamesIn(functions, defaultPool)
      /\ appPool # 0 /\ Filled(pools, appPool)
      /\ saved = (IF caller = "app" THEN 0 ELSE appPool) /\ temp # appPool
      /\ defaultPool = (IF temp = 0 THEN saved ELSE temp)
      /\ OnlyIn(pools, {appPool, temp})
  BY DEF IInv, NamesInv, OwnersInv
<1>2. caller = "app" => defaultPool # appPool
  BY <1>1
<1>3. caller = "app" => NamesOut(functions, appPool)
  BY <1>1, <1>2 DEF NamesIn, NamesOut
<1>4. {0, defaultPool} \subseteq {appPool, temp} \cup {0}
  BY <1>1
<1>5. /\ SoundPools(pools) /\ 0 \in PoolNums /\ defaultPool \in PoolNums /\ appPool \in PoolNums
  BY <1>1, PoolAssumption DEF Base, PoolNums
<1> QED BY <1>1, <1>3, <1>4, <1>5

\* What the assembler has after a step that made strings of its pool.
LEMMA AssemblerStep ==
  ASSUME IInv, step \in Assembling, NEW qs, Extended(pools, qs, {0, defaultPool})
  PROVE  /\ SoundPools(qs) /\ Named(qs, functions) /\ Filled(qs, appPool)
         /\ OnlyIn(qs, {appPool, temp})
         /\ Held(pools, lines, source) => Held(qs, lines, source)
<1> PICK ps, fs, a, b, A : /\ ps = pools /\ fs = functions /\ a = appPool /\ b = temp
                           /\ A = {0, defaultPool}
  OBVIOUS
<1>1. /\ Extended(ps, qs, A) /\ Named(ps, fs) /\ a \in PoolNums /\ Filled(ps, a)
      /\ OnlyIn(ps, {a, b}) /\ A \subseteq {a, b} \cup {0}
  BY AssemblerPools
<1>2. Named(qs, fs) /\ Filled(qs, a) /\ OnlyIn(qs, {a, b})
  BY <1>1, StepKeeps
<1>3. SoundPools(qs)
  BY <1>1 DEF Extended
<1>4. Held(pools, lines, source) => Held(qs, lines, source)
  BY <1>1, StepKeeps
<1> QED BY <1>2, <1>3, <1>4

LEMMA AddFunctionKeeps ==
  ASSUME IInv, step = "collect", NEW t \in Texts, NEW ps,
         Extended(pools, ps, {0, defaultPool}), Interned(ps, defaultPool, t),
         NEW next \in {"collect", "build"}, next = "collect" => caller = "app",
         AddFunction(t, ps, next), lineNum' \in Nat \ {0},
         UNCHANGED <<defaultPool, app, input, saved, temp, hasError, display>>
  PROVE  IInv'
<1>1. UNCHANGED <<defaultPool, flags, appPool, source, lines, caller, saved, temp, hasError,
                  display>>
  BY DEF app, input
<1>2. step \in Assembling
  BY DEF Assembling
<1>3. /\ Base /\ SoundPools(pools) /\ 0 \in PoolNums
      /\ defaultPool \in PoolNums /\ appPool \in PoolNums
      /\ Named(pools, functions) /\ NamesIn(functions, defaultPool)
      /\ appPool # 0 /\ Filled(pools, appPool)
      /\ saved = (IF caller = "app" THEN 0 ELSE appPool) /\ temp # appPool
      /\ defaultPool = (IF temp = 0 THEN saved ELSE temp)
      /\ {0, defaultPool} \subseteq {appPool, temp} \cup {0}
      /\ caller = "app" => NamesOut(functions, appPool)
  BY <1>2, AssemblerPools
<1>4. /\ SoundPools(ps) /\ Named(ps, functions) /\ Filled(ps, appPool)
      /\ OnlyIn(ps, {appPool, temp})
  BY <1>2, AssemblerStep
<1>5. /\ Held(pools, lines, source) /\ NoCode(functions)
      /\ caller = "tests" => functions = <<>> /\ source \in Seq(Instructions)
  BY DEF IInv, LinesInv, NamesInv
<1>6. Held(ps, lines, source)
  BY <1>2, <1>5, AssemblerStep
<1>7. CASE FindFunctionIndex(t) # {}
  <2> PICK p, qs : p = defaultPool /\ qs = Intern(ps, p, Notice)
    OBVIOUS
  <2>1. GoOn(qs, "leave") /\ functions' = functions
    BY <1>7 DEF AddFunction
  <2>2. caller = "app"
    <3>1. functions # <<>>
      BY <1>7 DEF FindFunctionIndex
    <3> QED BY <1>3, <1>5, <3>1 DEF Base
  <2>3. CASE qs = Exhausted
    <3>1. step' = "exhausted" /\ pools' = pools
      BY <2>1, <2>3 DEF GoOn
    <3>2. Base'
      BY <1>1, <1>3, <2>1, <3>1 DEF Base, Steps
    <3> QED BY <3>1, <3>2, EndKeeps
  <2>4. CASE qs # Exhausted
    <3>1. step' = "leave" /\ pools' = qs
      BY <2>1, <2>4 DEF GoOn
    <3>2. Notice \in Texts
      BY SourceAssumption
    <3>3. Extended(ps, qs, {p})
      BY <1>3, <1>4, <2>4, <3>2, InternSound
    <3>4. SoundPools(qs)
      BY <3>3 DEF Extended
    <3>5. Named(qs, functions) /\ Filled(qs, appPool)
      BY <1>3, <1>4, <3>3, StepKeeps
    <3>6. Base'
      BY <1>1, <1>3, <2>1, <3>1, <3>4 DEF Base, Steps
    <3> QED BY <1>1, <1>3, <1>5, <2>1, <2>2, <3>1, <3>5, <3>6
            DEF IInv, LinesInv, NamesInv, OwnersInv, Reading, Assembling, Returned, Running
  <2> QED BY <2>3, <2>4
<1>8. CASE FindFunctionIndex(t) = {}
  <2> PICK p, ref, f : p = defaultPool /\ ref = RefOf(ps, p, t) /\ f = Function(ref, t)
    OBVIOUS
  <2>1. GoOn(ps, next) /\ functions' = Append(functions, f)
    BY <1>8 DEF AddFunction
  <2>2. step' = next /\ pools' = ps
    BY <1>4, <2>1, NotExhausted DEF GoOn
  <2>3. Live(ps, ref, t) /\ (ref.index = 0 \/ ref.pool = p) /\ ref \in Refs
    BY <1>3, <1>4, RefOfLive, RefOfType
  <2>4. f \in FunctionRec /\ f.name = ref /\ f.text = t /\ f.code = FALSE
    BY <2>3 DEF Function, FunctionRec
  <2> PICK fs, gs : fs = functions /\ gs = functions'
    OBVIOUS
  <2>5. gs = Append(fs, f) /\ fs \in Seq(FunctionRec)
    BY <1>3, <2>1 DEF Base
  <2>6. /\ gs \in Seq(FunctionRec)
        /\ \A i \in DOMAIN gs : gs[i] = f \/ (i \in DOMAIN fs /\ gs[i] = fs[i])
    BY <2>4, <2>5
  <2>7. Named(ps, gs) /\ NamesIn(gs, p) /\ NoCode(gs)
    BY <1>3, <1>4, <1>5, <2>3, <2>4, <2>6 DEF Named, NamesIn, NoCode
  <2>8. Base'
    BY <1>1, <1>3, <1>4, <2>2, <2>6 DEF Base, Steps
  <2> QED BY <1>1, <1>3, <1>4, <1>5, <1>6, <2>2, <2>7, <2>8
          DEF IInv, LinesInv, NamesInv, OwnersInv, Reading, Assembling, Returned, Running
<1> QED BY <1>7, <1>8

\* A step within the assembler, that leaves functions with names of its pool.
LEMMA AssemblerGoesOn ==
  ASSUME IInv, step \in Assembling, NEW qs, qs = Exhausted \/ Extended(pools, qs, {0, defaultPool}),
         NEW next \in Assembling, GoOn(qs, next),
         next = "collect" => step = "collect" /\ functions' = functions,
         next = "build" => step \in {"collect", "build"},
         functions' \in Seq(FunctionRec),
         qs # Exhausted => Named(qs, functions') /\ NamesIn(functions', defaultPool),
         lineNum' \in Nat \ {0}, hasError' \in BOOLEAN,
         UNCHANGED <<defaultPool, app, input, saved, temp, display>>
  PROVE  IInv'
<1>1. UNCHANGED <<defaultPool, flags, appPool, source, lines, caller, saved, temp, display>>
  BY DEF app, input
<1>2. /\ Base /\ appPool # 0
      /\ saved = (IF caller = "app" THEN 0 ELSE appPool) /\ temp # appPool
      /\ defaultPool = (IF temp = 0 THEN saved ELSE temp)
  BY AssemblerPools
<1>3. CASE qs = Exhausted
  <2>1. step' = "exhausted" /\ pools' = pools
    BY <1>3 DEF GoOn
  <2>2. Base'
    BY <1>1, <1>2, <2>1 DEF Base, Steps
  <2> QED BY <2>1, <2>2, EndKeeps
<1>4. CASE qs # Exhausted
  <2>1. step' = next /\ pools' = qs /\ Extended(pools, qs, {0, defaultPool})
    BY <1>4 DEF GoOn
  <2>2. /\ SoundPools(qs) /\ Filled(qs, appPool) /\ OnlyIn(qs, {appPool, temp})
        /\ Held(pools, lines, source) => Held(qs, lines, source)
    BY <2>1, AssemblerStep
  <2>3. Base'
    BY <1>1, <1>2, <2>1, <2>2 DEF Base, Steps, Assembling
  <2>4. next \in {"collect", "build"} =>
          Held(qs, lines, source) /\ (caller = "tests" => source \in Seq(Instructions))
    BY <2>2 DEF IInv, LinesInv
  <2>5. next = "collect" => NoCode(functions) /\ (caller = "tests" => functions = <<>>)
    BY DEF IInv, NamesInv
  <2>6. LinesInv'
    BY <1>1, <2>1, <2>4 DEF LinesInv, Assembling
  <2>7. NamesInv'
    BY <1>1, <1>4, <2>1, <2>5 DEF NamesInv, Assembling, Returned, Running
  <2>8. OwnersInv'
    BY <1>1, <1>2, <2>1, <2>2 DEF OwnersInv, Reading, Assembling, Returned, Running
  <2> QED BY <2>3, <2>6, <2>7, <2>8 DEF IInv
<1> QED BY <1>3, <1>4

LEMMA AssemblerStays ==
  ASSUME IInv, step \in Assembling, NEW qs, qs = Exhausted \/ Extended(pools, qs, {0, defaultPool}),
         NEW next \in Assembling, GoOn(qs, next),
         next = "collect" => step = "collect",
         next = "build" => step \in {"collect", "build"},
         functions' = functions, lineNum' \in Nat \ {0}, hasError' \in BOOLEAN,
         UNCHANGED <<defaultPool, app, input, saved, temp, display>>
  PROVE  IInv'
<1>1. functions' \in Seq(FunctionRec) /\ NamesIn(functions', defaultPool)
  BY AssemblerPools DEF Base
<1>2. qs # Exhausted => Named(qs, functions')
  BY AssemblerStep
<1> QED BY <1>1, <1>2, AssemblerGoesOn

LEMMA CollectKeeps == IInv /\ Collect => IInv'
<1> SUFFICES ASSUME IInv, Collect PROVE IInv'
  OBVIOUS
<1>1. /\ step = "collect" /\ lineNum' = lineNum + 1 /\ lineNum <= Len(lines)
      /\ UNCHANGED <<defaultPool, app, input, saved, temp, hasError, display>>
  BY DEF Collect
<1>2. step \in Assembling
  BY <1>1 DEF Assembling
<1>3. /\ Base /\ defaultPool \in PoolNums /\ SoundPools(pools)
  BY <1>2, AssemblerPools
<1> PICK ps, p, l : ps = pools /\ p = defaultPool /\ l = Line(lineNum)
  OBVIOUS
<1>4. l \in Texts /\ (caller = "tests" => l \notin Labels) /\ lineNum' \in Nat \ {0}
  BY <1>1, <1>3, LinesAre DEF Base
<1>5. hasError' \in BOOLEAN
  BY <1>1, <1>3 DEF Base
<1> PICK tokens : tokens = Tokenize(ps, p, <<l>>)
  OBVIOUS
<1>6. tokens = Exhausted \/ Extended(ps, tokens, {0, p})
  <2>1. <<l>> \in Seq(Texts)
    BY <1>4
  <2> QED BY <1>3, <2>1, TokenizeSound
<1>7. CASE l \notin Labels
  <2>1. GoOn(tokens, "collect") /\ functions' = functions
    BY <1>7 DEF Collect
  <2> QED BY <1>1, <1>2, <1>4, <1>5, <1>6, <2>1, AssemblerStays
<1>8. CASE l \in Labels
  <2> PICK t, named : /\ t = NameIn[l]
                      /\ named = IF tokens = Exhausted THEN Exhausted ELSE Intern(tokens, p, t)
    OBVIOUS
  <2>1. t \in Texts /\ caller = "app"
    BY <1>3, <1>4, <1>8, SourceAssumption DEF Base
  <2>2. CASE named = Exhausted
    <3>1. GoOn(named, "collect") /\ functions' = functions
      BY <1>8, <2>2 DEF Collect
    <3> QED BY <1>1, <1>2, <1>4, <1>5, <2>2, <3>1, AssemblerStays
  <2>3. CASE named # Exhausted
    <3>1. AddFunction(t, named, "collect")
      BY <1>8, <2>3 DEF Collect
    <3>2. Extended(ps, tokens, {0, p}) /\ named = Intern(tokens, p, t)
      BY <1>6, <2>3
    <3>3. Extended(tokens, named, {p}) /\ Interned(named, p, t)
      <4>1. SoundPools(tokens)
        BY <3>2 DEF Extended
      <4> QED BY <1>3, <2>1, <2>3, <3>2, <4>1, InternSound
    <3>4. Extended(ps, named, {0, p})
      BY <3>2, <3>3, ExtendedTwice
    <3> QED BY <1>1, <1>4, <2>1, <3>1, <3>3, <3>4, AddFunctionKeeps
  <2> QED BY <2>2, <2>3
<1> QED BY <1>7, <1>8

LEMMA CollectedKeeps == IInv /\ Collected => IInv'
<1> SUFFICES ASSUME IInv, Collected PROVE IInv'
  OBVIOUS
<1>1. /\ step = "collect" /\ lineNum' = 1
      /\ UNCHANGED <<defaultPool, app, input, saved, temp, hasError, display>>
  BY DEF Collected
<1>2. step \in Assembling
  BY <1>1 DEF Assembling
<1>3. Base /\ defaultPool \in PoolNums /\ SoundPools(pools) /\ Named(pools, functions)
  BY <1>2, AssemblerPools
<1>4. hasError' \in BOOLEAN /\ lineNum' \in Nat \ {0}
  BY <1>1, <1>3 DEF Base
<1> PICK ps, p : ps = pools /\ p = defaultPool
  OBVIOUS
<1>5. MainName \in Texts
  BY SourceAssumption
<1>6. CASE SawMain
  <2>1. step' = "build" /\ pools' = ps /\ functions' = functions
    BY <1>6 DEF Collected
  <2>2. GoOn(ps, "build")
    BY <1>3, <2>1, NotExhausted DEF GoOn
  <2>3. Extended(ps, ps, {0, p})
    BY <1>3, ExtendedSame
  <2> QED BY <1>1, <1>2, <1>4, <2>1, <2>2, <2>3, AssemblerStays DEF Assembling
<1>7. CASE ~SawMain
  <2> PICK named : named = Intern(ps, p, MainName)
    OBVIOUS
  <2>1. CASE named = Exhausted
    <3>1. GoOn(named, "build") /\ functions' = functions
      BY <1>7, <2>1 DEF Collected
    <3> QED BY <1>1, <1>2, <1>4, <2>1, <3>1, AssemblerStays DEF Assembling
  <2>2. CASE named # Exhausted
    <3>1. AddFunction(MainName, named, "build")
      BY <1>7, <2>2 DEF Collected
    <3>2. Extended(ps, named, {p}) /\ Interned(named, p, MainName)
      BY <1>3, <1>5, <2>2, InternSound
    <3>3. Extended(ps, named, {0, p})
      BY <3>2 DEF Extended
    <3> QED BY <1>1, <1>4, <1>5, <3>1, <3>2, <3>3, AddFunctionKeeps
  <2> QED BY <2>1, <2>2
<1> QED BY <1>6, <1>7

LEMMA SkipKeeps == IInv /\ (SkipBlank \/ Built) => IInv'
<1> SUFFICES ASSUME IInv, SkipBlank \/ Built PROVE IInv'
  OBVIOUS
<1>1. /\ step = "build" /\ step' \in {"build", "finish"} /\ lineNum' \in {lineNum, lineNum + 1}
      /\ UNCHANGED <<pools, defaultPool, app, input, saved, temp, functions, hasError, display>>
  BY DEF SkipBlank, Built, asm
<1>2. step \in Assembling /\ step' \in Assembling
  BY <1>1 DEF Assembling
<1>3. Base /\ SoundPools(pools)
  BY <1>2, AssemblerPools
<1>4. hasError' \in BOOLEAN /\ lineNum' \in Nat \ {0}
  BY <1>1, <1>3 DEF Base
<1> PICK ps, p, next : ps = pools /\ p = defaultPool /\ next = step'
  OBVIOUS
<1>5. GoOn(ps, next)
  BY <1>1, <1>3, NotExhausted DEF GoOn
<1>6. Extended(ps, ps, {0, p})
  BY <1>3, ExtendedSame
<1> QED BY <1>1, <1>2, <1>4, <1>5, <1>6, AssemblerStays

\* A function's lines lie behind the line it is found at.
LEMMA BodyLines ==
  ASSUME NEW n \in Nat \ {0}, Len(lines) \in Nat, n <= Len(lines),
         NEW first, first = FirstLine(n), NEW end, end = EndLine(first)
  PROVE  first \in Nat \ {0} /\ end \in first .. Len(lines) + 1
<1> PICK k : k = Len(lines) + 1
  OBVIOUS
<1> DEFINE S == {i \in n .. Len(lines) : Line(i) \notin Labels} \cup {k}
<1>1. S \subseteq Nat \ {0} /\ S # {} /\ \A i \in S : i <= k
  OBVIOUS
<1>2. first = Min(S)
  BY DEF FirstLine
<1>3. first \in S
  <2> HIDE DEF S
  <2> QED BY <1>1, <1>2, MinLeast
<1>4. first \in Nat \ {0} /\ first <= k
  <2> HIDE DEF S
  <2> QED BY <1>1, <1>3
<1> DEFINE T == {i \in first .. Len(lines) : Line(i) \in Labels} \cup {k}
<1>5. T \subseteq Nat \ {0} /\ T # {} /\ \A i \in T : i <= k /\ first <= i
  BY <1>4
<1>6. end = Min(T)
  BY DEF EndLine
<1>7. end \in T
  <2> HIDE DEF T
  <2> QED BY <1>5, <1>6, MinLeast
<1>8. end \in Nat /\ end <= k /\ first <= end
  <2> HIDE DEF T
  <2> QED BY <1>5, <1>7
<1> QED BY <1>4, <1>8

LEMMA BuildKeeps == IInv /\ BuildFunction => IInv'
<1> SUFFICES ASSUME IInv, BuildFunction PROVE IInv'
  OBVIOUS
<1>1. /\ step = "build" /\ lineNum <= Len(lines)
      /\ UNCHANGED <<defaultPool, app, input, saved, temp, display>>
  BY DEF BuildFunction
<1>2. step \in Assembling
  BY <1>1 DEF Assembling
<1>3. /\ Base /\ defaultPool \in PoolNums /\ 0 \in PoolNums /\ SoundPools(pools)
      /\ Named(pools, functions) /\ NamesIn(functions, defaultPool)
      /\ functions \in Seq(FunctionRec)
  BY <1>2, AssemblerPools DEF Base
<1>4. /\ Len(lines) \in Nat /\ lineNum \in Nat \ {0}
      /\ \A i \in 1 .. Len(lines) : Line(i) \in Texts
  BY <1>1, <1>3, LinesAre DEF Base
<1> PICK ps, p, l, fs : ps = pools /\ p = defaultPool /\ l = Line(lineNum) /\ fs = functions
  OBVIOUS
<1> PICK first : first = FirstLine(lineNum)
  OBVIOUS
<1> PICK end : end = EndLine(first)
  OBVIOUS
<1>5. first \in Nat \ {0} /\ end \in first .. Len(lines) + 1
  BY <1>1, <1>4, BodyLines
<1> PICK body : body = [i \in 1 .. end - first |-> Line(first + i - 1)]
  OBVIOUS
<1> PICK t : t = IF l \in Labels THEN NameIn[l] ELSE MainName
  OBVIOUS
<1> PICK wrong, code : /\ wrong = (\E i \in DOMAIN body : body[i] \in Wrong)
                       /\ code = (\E i \in DOMAIN body : body[i] \in Instructions)
  OBVIOUS
<1> PICK head : head = Tokenize(ps, p, <<l>>)
  OBVIOUS
<1> PICK named : named = IF head = Exhausted THEN head ELSE Intern(head, p, t)
  OBVIOUS
<1> PICK scanned : scanned = Tokenize(named, p, body \o body)
  OBVIOUS
<1> PICK built : built = IF wrong /\ scanned # Exhausted THEN Intern(scanned, p, Notice) ELSE scanned
  OBVIOUS
<1> PICK slot : slot = Min(FindFunctionIndex(t))
  OBVIOUS
<1> PICK f : f = [name |-> RefOf(built, p, t), text |-> t, built |-> TRUE, code |-> code]
  OBVIOUS
<1>6. /\ GoOn(built, IF wrong THEN "finish" ELSE "build")
      /\ lineNum' = end /\ hasError' = wrong
      /\ functions' = IF wrong \/ built = Exhausted THEN fs ELSE [fs EXCEPT ![slot] = f]
  BY DEF BuildFunction
<1>7. l \in Texts /\ t \in Texts /\ Notice \in Texts /\ body \in Seq(Texts)
  <2>1. l \in Texts
    BY <1>1, <1>4
  <2>2. t \in Texts /\ Notice \in Texts
    BY SourceAssumption
  <2>3. \A i \in 1 .. end - first : first + i - 1 \in 1 .. Len(lines)
    BY <1>4, <1>5
  <2>4. end - first \in Nat
    BY <1>4, <1>5
  <2>5. body \in [1 .. end - first -> Texts]
    BY <1>4, <2>3
  <2>6. body \in Seq(Texts)
    <3> PICK n : n = end - first
      OBVIOUS
    <3>1. n \in Nat /\ body \in [1 .. n -> Texts]
      BY <2>4, <2>5
    <3> QED BY ONLY <3>1
  <2> QED BY <2>1, <2>2, <2>6
<1>8. wrong \in BOOLEAN /\ code \in BOOLEAN /\ lineNum' \in Nat \ {0}
  BY <1>4, <1>5, <1>6
<1>9. head = Exhausted \/ Extended(ps, head, {0, p})
  <2>1. <<l>> \in Seq(Texts)
    BY <1>7
  <2> QED BY <1>3, <2>1, TokenizeSound
<1>10. named = Exhausted \/ (Extended(ps, named, {0, p}) /\ Interned(named, p, t))
  <2> SUFFICES ASSUME named # Exhausted
               PROVE  Extended(ps, named, {0, p}) /\ Interned(named, p, t)
    OBVIOUS
  <2>1. named = Intern(head, p, t) /\ Extended(ps, head, {0, p})
    BY <1>9
  <2>2. SoundPools(head)
    BY <2>1 DEF Extended
  <2>3. Extended(head, named, {p}) /\ Interned(named, p, t)
    BY <1>3, <1>7, <2>1, <2>2, InternSound
  <2> QED BY <2>1, <2>3, ExtendedTwice
<1>11. scanned = Exhausted \/ (Extended(ps, scanned, {0, p}) /\ Interned(scanned, p, t))
  <2> SUFFICES ASSUME scanned # Exhausted
               PROVE  Extended(ps, scanned, {0, p}) /\ Interned(scanned, p, t)
    OBVIOUS
  <2>1. body \o body \in Seq(Texts)
    BY <1>7
  <2>2. named = Exhausted \/ SoundPools(named)
    BY <1>10 DEF Extended
  <2> PICK twice : twice = body \o body
    OBVIOUS
  <2>3. named # Exhausted /\ Extended(named, scanned, {0, p})
    <3>1. twice \in Seq(Texts) /\ scanned = Tokenize(named, p, twice)
      BY <2>1
    <3>2. p \in PoolNums
      BY <1>3
    <3> QED BY <2>2, <3>1, <3>2, TokenizeSound, ZenonT(60)
  <2>4. Extended(ps, named, {0, p}) /\ Interned(named, p, t) /\ SoundPools(named)
    BY <1>10, <2>2, <2>3
  <2>5. Interned(scanned, p, t)
    BY <1>3, <2>3, <2>4, InternedStays
  <2> QED BY <2>3, <2>4, <2>5, ExtendedTwice
<1>12. built = Exhausted \/ (Extended(ps, built, {0, p}) /\ Interned(built, p, t))
  <2>1. CASE ~(wrong /\ scanned # Exhausted)
    BY <1>11, <2>1
  <2>2. CASE wrong /\ scanned # Exhausted /\ built # Exhausted
    <3>1. built = Intern(scanned, p, Notice)
      BY <2>2
    <3>2. SoundPools(scanned) /\ Extended(ps, scanned, {0, p}) /\ Interned(scanned, p, t)
      BY <1>11, <2>2 DEF Extended
    <3>3. Extended(scanned, built, {p})
      BY <1>3, <1>7, <2>2, <3>1, <3>2, InternSound
    <3>4. Interned(built, p, t)
      BY <1>3, <3>2, <3>3, InternedStays
    <3> QED BY <3>2, <3>3, <3>4, ExtendedTwice
  <2> QED BY <2>1, <2>2
<1>13. CASE wrong \/ built = Exhausted
  <2>1. functions' = functions /\ hasError' \in BOOLEAN
    BY <1>6, <1>8, <1>13
  <2> PICK next : next = IF wrong THEN "finish" ELSE "build"
    OBVIOUS
  <2>2. next \in Assembling /\ next # "collect" /\ GoOn(built, next)
    BY <1>6 DEF Assembling
  <2> QED BY <1>1, <1>2, <1>8, <1>12, <2>1, <2>2, AssemblerStays
<1>14. CASE ~wrong /\ built # Exhausted
  <2>1. SoundPools(built) /\ Extended(ps, built, {0, p}) /\ Interned(built, p, t)
    BY <1>12, <1>14 DEF Extended
  <2> PICK ref : ref = RefOf(built, p, t)
    OBVIOUS
  <2>2. Live(built, ref, t) /\ (ref.index = 0 \/ ref.pool = p) /\ ref \in Refs
    BY <1>3, <1>7, <2>1, RefOfLive, RefOfType
  <2>3. f \in FunctionRec /\ f.name = ref /\ f.text = t
    BY <1>7, <1>8, <2>2 DEF FunctionRec
  <2> PICK gs : gs = functions'
    OBVIOUS
  <2>4. gs = [fs EXCEPT ![slot] = f]
    BY <1>6, <1>14
  <2>5. /\ gs \in Seq(FunctionRec) /\ DOMAIN gs = DOMAIN fs
        /\ \A i \in DOMAIN fs : gs[i] = f \/ gs[i] = fs[i]
    <3> PICK n : n = Len(fs)
      OBVIOUS
    <3>1. n \in Nat /\ fs \in [1 .. n -> FunctionRec]
      BY <1>3
    <3>2. gs \in [1 .. n -> FunctionRec]
      <4>1. f \in FunctionRec
        BY <2>3
      <4> QED BY ONLY <2>4, <3>1, <4>1
    <3>3. gs \in Seq(FunctionRec)
      BY <3>1, <3>2
    <3>4. DOMAIN gs = DOMAIN fs /\ \A i \in DOMAIN fs : gs[i] = f \/ gs[i] = fs[i]
      BY <2>4
    <3> QED BY <3>3, <3>4
  <2>6. Named(built, fs)
    BY <1>2, <2>1, AssemblerStep
  <2>7. Named(built, gs)
    BY <2>2, <2>3, <2>5, <2>6 DEF Named
  <2>8. NamesIn(gs, p)
    BY <1>3, <2>2, <2>3, <2>5 DEF NamesIn
  <2>9. GoOn(built, "build") /\ hasError' \in BOOLEAN
    BY <1>6, <1>8, <1>14
  <2> QED BY <1>1, <1>2, <1>8, <2>1, <2>5, <2>7, <2>8, <2>9, AssemblerGoesOn DEF Assembling
<1> QED BY <1>8, <1>13, <1>14

LEMMA FinishKeeps == IInv /\ Finish => IInv'
<1> SUFFICES ASSUME IInv, Finish PROVE IInv'
  OBVIOUS
<1>1. step = "finish" /\ UNCHANGED <<flags, appPool, source, lines, caller, saved, temp, lineNum,
                                     hasError, display>>
  BY DEF Finish, app, input
<1>2. step \in Assembling
  BY <1>1 DEF Assembling
<1>3. /\ Base /\ SoundPools(pools) /\ 0 \in PoolNums
      /\ defaultPool \in PoolNums /\ appPool \in PoolNums /\ saved \in PoolNums /\ temp \in PoolNums
      /\ Named(pools, functions) /\ NamesIn(functions, defaultPool)
      /\ appPool # 0 /\ Filled(pools, appPool)
      /\ saved = (IF caller = "app" THEN 0 ELSE appPool) /\ temp # appPool
      /\ defaultPool = (IF temp = 0 THEN saved ELSE temp)
      /\ OnlyIn(pools, {appPool, temp})
      /\ caller = "app" => NamesOut(functions, appPool)
      /\ functions \in Seq(FunctionRec)
  BY <1>2, AssemblerPools DEF Base
<1> PICK ps, fs, a, b, q : /\ ps = pools /\ fs = functions /\ a = appPool /\ b = temp /\ q = saved
  OBVIOUS
<1>4. CASE b = 0
  <2>1. step' = "leave" /\ UNCHANGED <<pools, defaultPool, functions>>
    BY <1>4 DEF Finish
  <2>2. Base'
    BY <1>1, <1>3, <2>1 DEF Base, Steps
  <2>3. OnlyIn(ps, {a})
    BY <1>3, <1>4 DEF OnlyIn
  <2>4. caller = "tests" => defaultPool = appPool
    BY <1>3, <1>4
  <2> QED BY <1>1, <1>3, <2>1, <2>2, <2>3, <2>4
          DEF IInv, LinesInv, NamesInv, OwnersInv, Reading, Assembling, Returned, Running
<1>5. CASE b # 0
  <2> PICK texts : texts = [i \in DOMAIN fs |-> NameText(fs[i])]
    OBVIOUS
  <2> PICK named : named = InternAll(ps, q, texts)
    OBVIOUS
  <2> PICK qs : qs = IF named = Exhausted THEN named ELSE ClearPool(named, b)
    OBVIOUS
  <2>1. /\ defaultPool' = q /\ GoOn(qs, "leave")
        /\ functions' = IF named = Exhausted THEN fs
                        ELSE [i \in DOMAIN fs |->
                                [fs[i] EXCEPT !.name = RefOf(named, q, texts[i])]]
    BY <1>5 DEF Finish
  <2>2. \A i \in DOMAIN fs : fs[i] \in FunctionRec /\ texts[i] = fs[i].text /\ fs[i].text \in Texts
    BY <1>3, LiveText DEF Named, NameText
  <2>3. texts \in Seq(Texts) /\ DOMAIN texts = DOMAIN fs
    BY <1>3, <2>2
  <2>4. CASE named = Exhausted
    <3>1. step' = "exhausted" /\ pools' = pools /\ functions' = functions
      BY <2>1, <2>4 DEF GoOn
    <3>2. Base'
      BY <1>1, <1>3, <2>1, <3>1 DEF Base, Steps
    <3> QED BY <3>1, <3>2, EndKeeps
  <2>5. CASE named # Exhausted
    <3>0. q \in PoolNums /\ SoundPools(ps)
      BY <1>3
    <3>1. Extended(ps, named, {q}) /\ \A i \in DOMAIN fs : Interned(named, q, fs[i].text)
      <4>1. Extended(ps, named, {q}) /\ \A i \in DOMAIN texts : Interned(named, q, texts[i])
        BY <2>3, <2>5, <3>0, InternAllSound
      <4> QED BY <2>2, <2>3, <4>1
    <3>2. SoundPools(named)
      BY <3>1 DEF Extended
    <3>3. qs = ClearPool(named, b)
      BY <2>5
    <3>4. SoundPools(qs)
      BY <1>3, <3>2, <3>3, ClearSound
    <3>5. step' = "leave" /\ pools' = qs
      BY <2>1, <3>4, NotExhausted DEF GoOn
    <3> PICK gs : gs = functions'
      OBVIOUS
    <3>6. gs = [i \in DOMAIN fs |-> [fs[i] EXCEPT !.name = RefOf(named, q, fs[i].text)]]
      BY <2>1, <2>2, <2>5
    <3>7. \A i \in DOMAIN fs : /\ Live(named, RefOf(named, q, fs[i].text), fs[i].text)
                               /\ RefOf(named, q, fs[i].text) \in Refs
                               /\ \/ RefOf(named, q, fs[i].text).index = 0
                                  \/ RefOf(named, q, fs[i].text).pool = q
      BY <1>3, <2>2, <3>1, <3>2, RefOfLive, RefOfType
    <3>8. /\ DOMAIN gs = DOMAIN fs
          /\ \A i \in DOMAIN fs : /\ gs[i] \in FunctionRec
                                  /\ gs[i].name = RefOf(named, q, fs[i].text)
                                  /\ gs[i].text = fs[i].text
      <4>1. DOMAIN gs = DOMAIN fs
        BY <3>6
      <4> SUFFICES ASSUME NEW i \in DOMAIN fs
                   PROVE  /\ gs[i] \in FunctionRec
                          /\ gs[i].name = RefOf(named, q, fs[i].text)
                          /\ gs[i].text = fs[i].text
        BY <4>1
      <4> PICK f, ref : f = fs[i] /\ ref = RefOf(named, q, f.text)
        OBVIOUS
      <4>2. f \in FunctionRec /\ ref \in Refs
        BY <2>2, <3>7
      <4>3. gs[i] = [f EXCEPT !.name = ref]
        BY <3>6
      <4> QED BY <4>2, <4>3 DEF FunctionRec
    <3>9. gs \in Seq(FunctionRec)
      <4> PICK n : n = Len(fs)
        OBVIOUS
      <4>1. n \in Nat /\ DOMAIN fs = 1 .. n
        BY <1>3
      <4>2. gs = [i \in 1 .. n |-> gs[i]]
        BY <3>6, <4>1
      <4>3. gs \in [1 .. n -> FunctionRec]
        BY <3>8, <4>1, <4>2
      <4> QED BY <4>1, <4>3
    <3>10. Named(named, gs) /\ NamesIn(gs, q)
      BY <3>7, <3>8 DEF Named, NamesIn
    <3>11. q # b
      BY <1>3, <1>5
    <3>12. NamesOut(gs, b)
      BY <3>10, <3>11 DEF NamesIn, NamesOut
    <3>13. Named(qs, gs)
      BY <1>3, <3>2, <3>3, <3>10, <3>12, ClearKeeps
    <3>14. Filled(named, a) /\ OnlyIn(named, {a, b})
      BY <1>3, <3>1, StepKeeps
    <3>15. Filled(qs, a)
      BY <1>3, <3>2, <3>3, <3>14, ClearKeeps
    <3>16. OnlyIn(qs, {a})
      <4>1. {a} \cup {b} = {a, b}
        OBVIOUS
      <4>2. OnlyIn(named, {a} \cup {b})
        BY <3>14, <4>1
      <4> QED BY <1>3, <3>2, <3>3, <4>2, ClearKeeps
    <3>17. caller = "app" => NamesOut(gs, a)
      BY <1>3, <3>10 DEF NamesIn, NamesOut
    <3>18. caller = "tests" => defaultPool' = appPool
      BY <1>3, <2>1
    <3>19. Base'
      BY <1>1, <1>3, <2>1, <3>4, <3>5, <3>9 DEF Base, Steps
    <3> QED BY <1>1, <1>3, <3>5, <3>13, <3>15, <3>16, <3>17, <3>18, <3>19
            DEF IInv, LinesInv, NamesInv, OwnersInv, Reading, Assembling, Returned, Running
  <2> QED BY <2>4, <2>5
<1> QED BY <1>4, <1>5

LEMMA LeaveKeeps == IInv /\ Leave => IInv'
<1> SUFFICES ASSUME IInv, Leave PROVE IInv'
  OBVIOUS
<1>1. step = "leave" /\ UNCHANGED <<flags, appPool, source, lines, caller, saved, temp, lineNum,
                                    functions, hasError, display>>
  BY DEF Leave, app, input, asm
<1>2. /\ Base /\ SoundPools(pools) /\ appPool \in PoolNums /\ appPool # 0
      /\ Filled(pools, appPool) /\ Named(pools, functions)
      /\ caller = "app" => NamesOut(functions, appPool)
      /\ OnlyIn(pools, {appPool}) \/ (caller = "app" /\ NoCode(functions))
      /\ caller = "tests" => defaultPool = appPool
  BY <1>1 DEF IInv, Base, NamesInv, OwnersInv, Returned
<1>3. Notice \in Texts /\ MainName \in Texts
  BY SourceAssumption
<1> PICK ps, a : ps = pools /\ a = appPool
  OBVIOUS
<1>4. ASSUME NEW qs, qs = ps \/ (qs # Exhausted /\ \E t \in Texts : qs = Intern(ps, a, t))
      PROVE  /\ SoundPools(qs) /\ Filled(qs, a) /\ Named(qs, functions)
             /\ OnlyIn(ps, {a}) => OnlyIn(qs, {a})
  <2>1. CASE qs = ps
    BY <1>2, <2>1
  <2>2. CASE qs # Exhausted /\ \E t \in Texts : qs = Intern(ps, a, t)
    <3>1. PICK t \in Texts : qs = Intern(ps, a, t)
      BY <2>2
    <3>2. Extended(ps, qs, {a})
      BY <1>2, <2>2, <3>1, InternSound
    <3>3. SoundPools(qs)
      BY <3>2 DEF Extended
    <3> QED BY <1>2, <3>2, <3>3, StepKeeps
  <2> QED BY <1>4, <2>1, <2>2
<1>5. CASE caller = "tests"
  <2> PICK qs : qs = Intern(ps, a, MainName)
    OBVIOUS
  <2>1. GoOn(qs, "tests") /\ defaultPool' = defaultPool
    BY <1>2, <1>5 DEF Leave
  <2>2. CASE qs = Exhausted
    <3>1. step' = "exhausted" /\ pools' = pools
      BY <2>1, <2>2 DEF GoOn
    <3>2. Base'
      BY <1>1, <1>2, <2>1, <3>1 DEF Base, Steps
    <3> QED BY <3>1, <3>2, EndKeeps
  <2>3. CASE qs # Exhausted
    <3>1. step' = "tests" /\ pools' = qs
      BY <2>1, <2>3 DEF GoOn
    <3>2. SoundPools(qs) /\ Filled(qs, a) /\ OnlyIn(qs, {a})
      BY <1>2, <1>3, <1>4, <1>5, <2>3
    <3>3. Base'
      BY <1>1, <1>2, <2>1, <3>1, <3>2 DEF Base, Steps
    <3> QED BY <1>1, <1>2, <1>5, <2>1, <3>1, <3>2, <3>3
            DEF IInv, LinesInv, NamesInv, OwnersInv, Reading, Assembling, Returned, Running
  <2> QED BY <2>2, <2>3
<1>6. CASE caller = "app"
  <2> PICK qs : qs = IF hasError \/ flags.debug THEN Intern(ps, a, Notice) ELSE ps
    OBVIOUS
  <2>1. GoOn(qs, IF hasError THEN "done" ELSE "assembled") /\ defaultPool' = appPool
    BY <1>6 DEF Leave
  <2>2. CASE qs = Exhausted
    <3>1. step' = "exhausted" /\ pools' = pools
      BY <2>1, <2>2 DEF GoOn
    <3>2. Base'
      BY <1>1, <1>2, <2>1, <3>1 DEF Base, Steps
    <3> QED BY <3>1, <3>2, EndKeeps
  <2>3. CASE qs # Exhausted
    <3>1. step' \in {"done", "assembled"} /\ pools' = qs
      BY <2>1, <2>3 DEF GoOn
    <3>2. /\ SoundPools(qs) /\ Filled(qs, a) /\ Named(qs, functions)
          /\ OnlyIn(qs, {a}) \/ NoCode(functions)
      BY <1>2, <1>3, <1>4, <2>3
    <3>3. Base'
      BY <1>1, <1>2, <2>1, <3>1, <3>2 DEF Base, Steps
    <3>4. CASE step' = "done"
      BY <3>3, <3>4, EndKeeps
    <3>5. CASE step' = "assembled"
      BY <1>1, <1>2, <1>6, <2>1, <3>1, <3>2, <3>3, <3>5
         DEF IInv, LinesInv, NamesInv, OwnersInv, Reading, Assembling, Returned, Running
    <3> QED BY <3>1, <3>4, <3>5
  <2> QED BY <2>2, <2>3
<1> QED BY <1>2, <1>5, <1>6 DEF Base

LEMMA ResetKeeps == IInv /\ Reset => IInv'
<1> SUFFICES ASSUME IInv, Reset PROVE IInv'
  OBVIOUS
<1>1. /\ step = "assembled" /\ defaultPool' = 0
      /\ UNCHANGED <<flags, appPool, source, lines, caller, saved, temp, lineNum,
                     functions, hasError, display>>
  BY DEF Reset, app, input, asm
<1>2. /\ Base /\ SoundPools(pools) /\ appPool \in PoolNums /\ appPool # 0
      /\ Named(pools, functions) /\ NamesOut(functions, appPool)
      /\ OnlyIn(pools, {appPool}) \/ NoCode(functions)
      /\ defaultPool = appPool /\ functions \in Seq(FunctionRec) /\ 0 \in PoolNums
  BY <1>1, PoolAssumption DEF IInv, Base, NamesInv, OwnersInv, Returned, PoolNums
<1> PICK ps, a, fs : ps = pools /\ a = appPool /\ fs = functions
  OBVIOUS
<1> PICK drained : drained = ClearPool(ps, a)
  OBVIOUS
<1> PICK ready : ready = Intern(drained, 0, MainName)
  OBVIOUS
<1> PICK main : main = {i \in DOMAIN fs : Text(drained, fs[i].name) = MainName}
  OBVIOUS
<1> PICK next : next = IF main = {} \/ ~fs[Max(main)].code THEN "done"
                       ELSE IF flags.vis THEN "display" ELSE "run"
  OBVIOUS
<1>3. GoOn(ready, next)
  BY <1>2 DEF Reset
<1>4. next \in {"done", "display", "run"} /\ (NoCode(fs) => next = "done")
  <2>1. next \in {"done", "display", "run"}
    OBVIOUS
  <2>2. ASSUME NoCode(fs), main # {} PROVE ~fs[Max(main)].code
    <3> PICK n : n = Len(fs)
      OBVIOUS
    <3>1. n \in Nat /\ DOMAIN fs = 1 .. n
      BY <1>2
    <3>2. main \subseteq 0 .. n /\ main \subseteq DOMAIN fs
      BY <3>1
    <3>3. Max(main) \in main
      BY <2>2, <3>1, <3>2, MaxGreatest
    <3> QED BY <2>2, <3>2, <3>3 DEF NoCode
  <2> QED BY <2>1, <2>2
<1>5. SoundPools(drained) /\ Named(drained, fs)
  BY <1>2, ClearSound, ClearKeeps
<1>6. CASE ready = Exhausted
  <2>1. step' = "exhausted" /\ pools' = pools
    BY <1>3, <1>6 DEF GoOn
  <2>2. Base'
    BY <1>1, <1>2, <2>1 DEF Base, Steps
  <2> QED BY <2>1, <2>2, EndKeeps
<1>7. CASE ready # Exhausted
  <2>1. step' = next /\ pools' = ready
    BY <1>3, <1>7 DEF GoOn
  <2>2. MainName \in Texts
    BY SourceAssumption
  <2>3. Extended(drained, ready, {0})
    BY <1>2, <1>5, <1>7, <2>2, InternSound
  <2>4. SoundPools(ready)
    BY <2>3 DEF Extended
  <2>5. Base'
    BY <1>1, <1>2, <1>4, <2>1, <2>4 DEF Base, Steps
  <2>6. CASE next = "done"
    BY <2>1, <2>5, <2>6, EndKeeps
  <2>7. CASE next # "done"
    <3>1. OnlyIn(ps, {} \cup {a})
      <4>1. OnlyIn(ps, {a}) /\ {} \cup {a} = {a}
        BY <1>2, <1>4, <2>7
      <4> QED BY <4>1
    <3>2. OnlyIn(drained, {})
      BY <1>2, <3>1, ClearKeeps
    <3>3. OnlyIn(ready, {}) /\ Named(ready, fs)
      BY <1>5, <2>3, <3>2, StepKeeps
    <3>4. step' \in {"display", "run"}
      BY <1>4, <2>1, <2>7
    <3> QED BY <1>1, <2>1, <2>5, <3>3, <3>4
            DEF IInv, LinesInv, NamesInv, OwnersInv, Reading, Assembling, Returned, Running
  <2> QED BY <2>6, <2>7
<1> QED BY <1>6, <1>7

\* What the VM and its display work with.
LEMMA RunningPools ==
  ASSUME IInv, step \in Running
  PROVE  /\ Base /\ SoundPools(pools) /\ Named(pools, functions) /\ defaultPool = 0
         /\ OnlyIn(pools, {}) /\ 0 \in PoolNums /\ display \in PoolNums
         /\ functions \in Seq(FunctionRec)
BY PoolAssumption DEF IInv, Base, NamesInv, OwnersInv, PoolNums

\* A step of theirs.
LEMMA RunningStep ==
  ASSUME IInv, step \in Running, NEW qs,
         qs # Exhausted => SoundPools(qs) /\ Named(qs, functions) /\ OnlyIn(qs, {}),
         NEW next \in {"frame", "run", "done"}, GoOn(qs, next),
         defaultPool' = 0, display' \in PoolNums, UNCHANGED <<app, input, asm>>
  PROVE  IInv'
<1>1. UNCHANGED <<flags, appPool, source, lines, caller, saved, temp, lineNum, functions, hasError>>
  BY DEF app, input, asm
<1>2. Base /\ 0 \in PoolNums
  BY RunningPools
<1>3. CASE qs = Exhausted
  <2>1. step' = "exhausted" /\ pools' = pools
    BY <1>3 DEF GoOn
  <2>2. Base'
    BY <1>1, <1>2, <2>1 DEF Base, Steps
  <2> QED BY <2>1, <2>2, EndKeeps
<1>4. CASE qs # Exhausted
  <2>1. step' = next /\ pools' = qs
    BY <1>4 DEF GoOn
  <2>2. Base'
    BY <1>1, <1>2, <1>4, <2>1 DEF Base, Steps
  <2>3. CASE next = "done"
    BY <2>1, <2>2, <2>3, EndKeeps
  <2>4. CASE next \in {"frame", "run"}
    BY <1>1, <1>4, <2>1, <2>2, <2>4
       DEF IInv, LinesInv, NamesInv, OwnersInv, Reading, Assembling, Returned, Running
  <2> QED BY <2>3, <2>4
<1> QED BY <1>3, <1>4

LEMMA RunKeeps == IInv /\ (NewDisplay \/ Frame \/ Run) => IInv'
<1>0. Notice \in Texts
  BY SourceAssumption
<1>1. ASSUME IInv, NewDisplay PROVE IInv'
  <2>1. /\ step = "display" /\ step' = "frame" /\ display' = FindUnusedPool(pools)
        /\ UNCHANGED <<pools, defaultPool, app, input, asm>>
    BY <1>1 DEF NewDisplay
  <2> PICK ps, d : ps = pools /\ d = FindUnusedPool(ps)
    OBVIOUS
  <2>2. d \in PoolNums
    BY FindUnusedIs
  <2>3. step \in Running
    BY <2>1 DEF Running
  <2>4. SoundPools(ps) /\ Named(ps, functions) /\ OnlyIn(ps, {}) /\ defaultPool = 0
    BY <1>1, <2>3, RunningPools
  <2>5. GoOn(ps, "frame")
    BY <2>1, <2>4, NotExhausted DEF GoOn
  <2> QED BY <1>1, <2>1, <2>2, <2>3, <2>4, <2>5, RunningStep
<1>2. ASSUME IInv, Frame PROVE IInv'
  <2>1. step \in Running /\ defaultPool' = 0 /\ UNCHANGED <<app, input, asm, display>>
    BY <1>2 DEF Frame, Running
  <2>2. /\ SoundPools(pools) /\ Named(pools, functions) /\ defaultPool = 0
        /\ OnlyIn(pools, {}) /\ 0 \in PoolNums /\ display \in PoolNums
        /\ functions \in Seq(FunctionRec)
    BY <1>2, <2>1, RunningPools
  <2> PICK ps, fs, d : ps = pools /\ fs = functions /\ d = display
    OBVIOUS
  <2> PICK texts : texts = <<Notice>> \o [i \in DOMAIN fs |-> NameText(fs[i])]
    OBVIOUS
  <2> PICK drawn : drawn = InternAll(ps, d, texts)
    OBVIOUS
  <2> PICK qs : qs = IF drawn = Exhausted \/ d = 0 THEN drawn ELSE ClearPool(drawn, d)
    OBVIOUS
  <2>3. GoOn(qs, "run")
    <3>1. d = IF display = 0 THEN defaultPool ELSE display
      BY <2>2
    <3> QED BY <1>2, <3>1 DEF Frame
  <2>4. texts \in Seq(Texts)
    <3> PICK names : names = [i \in DOMAIN fs |-> NameText(fs[i])]
      OBVIOUS
    <3>1. \A i \in DOMAIN fs : NameText(fs[i]) \in Texts
      BY <2>2, LiveText DEF Named, NameText
    <3>2. names \in Seq(Texts)
      BY <2>2, <3>1
    <3>3. <<Notice>> \in Seq(Texts)
      BY <1>0
    <3>4. <<Notice>> \o names \in Seq(Texts)
      BY <3>2, <3>3
    <3> QED BY <3>4
  <2>5. ASSUME qs # Exhausted
        PROVE  SoundPools(qs) /\ Named(qs, fs) /\ OnlyIn(qs, {})
    <3>1. drawn # Exhausted
      BY <2>5
    <3>2. Extended(ps, drawn, {d})
      BY <2>2, <2>4, <3>1, InternAllSound
    <3>3. SoundPools(drawn) /\ Named(drawn, fs)
      <4>1. Named(drawn, fs)
        BY <2>2, <3>2, StepKeeps
      <4> QED BY <3>2, <4>1 DEF Extended
    <3>4. CASE d = 0
      <4>1. OnlyIn(drawn, {}) /\ qs = drawn
        BY <2>2, <3>2, <3>4, StepKeeps
      <4> QED BY <3>3, <4>1
    <3>5. CASE d # 0
      <4>1. qs = ClearPool(drawn, d)
        BY <3>1, <3>5
      <4>2. NamesOut(fs, d)
        BY <2>2, <3>5, NamesInZero
      <4>3. OnlyIn(ps, {} \cup {d})
        BY <2>2 DEF OnlyIn
      <4>4. OnlyIn(drawn, {} \cup {d})
        BY <3>2, <4>3, StepKeeps
      <4>5. SoundPools(qs)
        BY <2>2, <3>3, <4>1, ClearSound
      <4> QED BY <2>2, <3>3, <4>1, <4>2, <4>4, <4>5, ClearKeeps
    <3> QED BY <3>4, <3>5
  <2> QED BY <1>2, <2>1, <2>2, <2>3, <2>5, RunningStep
<1>3. ASSUME IInv, Run PROVE IInv'
  <2>1. step \in Running /\ UNCHANGED <<defaultPool, app, input, asm, display>>
    BY <1>3 DEF Run, Running
  <2>2. /\ SoundPools(pools) /\ Named(pools, functions) /\ defaultPool = 0
        /\ OnlyIn(pools, {}) /\ 0 \in PoolNums /\ display \in PoolNums
    BY <1>3, <2>1, RunningPools
  <2> PICK ps, qs : ps = pools /\ qs = Intern(ps, 0, Notice)
    OBVIOUS
  <2>3. \E next \in {"frame", "run", "done"} : GoOn(qs, next)
    BY <1>3, <2>2 DEF Run
  <2>4. ASSUME qs # Exhausted
        PROVE  SoundPools(qs) /\ Named(qs, functions) /\ OnlyIn(qs, {})
    <3>1. Extended(ps, qs, {0})
      BY <1>0, <2>2, <2>4, InternSound
    <3>2. Named(qs, functions) /\ OnlyIn(qs, {})
      BY <2>2, <3>1, StepKeeps
    <3> QED BY <3>1, <3>2 DEF Extended
  <2> QED BY <1>3, <2>1, <2>2, <2>3, <2>4, RunningStep
<1> QED BY <1>1, <1>2, <1>3

-----------------------------------------------------------------------------
(* The theorems.                                                           *)

LEMMA StepInv == IInv /\ [Next]_vars => IInv'
<1> SUFFICES ASSUME IInv, [Next]_vars PROVE IInv'
  OBVIOUS
<1>1. CASE UNCHANGED vars
  BY <1>1 DEF vars, app, input, asm, IInv, Base, LinesInv, NamesInv, OwnersInv
<1>2. CASE Next /\ ~UNCHANGED vars
  BY <1>2, StartKeeps, ReadKeeps, AssembleKeeps, CollectKeeps, CollectedKeeps, SkipKeeps,
     BuildKeeps, FinishKeeps, LeaveKeeps, ResetKeeps, RunKeeps DEF Next, Ended
<1> QED BY <1>1, <1>2

LEMMA InvSound == IInv => PoolsSound
<1> SUFFICES ASSUME IInv PROVE PoolsSound
  OBVIOUS
<1>1. Base /\ SoundPools(pools)
  BY DEF IInv, Base
<1> PICK ps : ps = pools
  OBVIOUS
<1>2. \A p \in PoolNums : SoundPool(ps[p]) /\ StringsIn(p) = StringsOf(ps[p])
  BY <1>1 DEF SoundPools, StringsIn, StringsOf
<1>3. TypeOK
  <2>1. source \in Seq(Texts)
    BY <1>1, SourceTexts DEF Base
  <2> QED BY <1>1, <2>1 DEF Base, SoundPools, TypeOK, FunctionRec
<1>4. OneRefPerString
  BY <1>2 DEF OneRefPerString, SoundPool, OneString
<1>5. ChainsLive
  <2> SUFFICES ASSUME NEW p \in PoolNums
               PROVE  /\ \A b \in Bins : \A i \in Chain(ps[p], b) :
                           /\ ps[p].blocks[i].kind = "entry"
                           /\ ps[p].blocks[i].ss \in StringsIn(p)
                           /\ Bin[ps[p].blocks[ps[p].blocks[i].ss].text] = b
                      /\ \A s \in StringsIn(p) :
                           \E i \in Chain(ps[p], Bin[ps[p].blocks[s].text]) : ps[p].blocks[i].ss = s
    BY DEF ChainsLive
  <2>1. \A b \in Bins : \A i \in Chain(ps[p], b) : EntryOf(ps[p], i, b)
    BY <1>2, SoundChains
  <2>2. Reached(ps[p])
    BY <1>2 DEF SoundPool
  <2> QED BY <1>2, <2>1, <2>2 DEF EntryOf, Reached
<1> QED BY <1>3, <1>4, <1>5 DEF PoolsSound

LEMMA InvHandedOver == IInv => PoolsHandedOver
<1> SUFFICES ASSUME IInv PROVE PoolsHandedOver
  OBVIOUS
<1>1. ASSUME step \in {"enter", "collect", "build"}, NEW i \in DOMAIN lines
      PROVE  Line(i) = source[i]
  <2>1. Live(pools, lines[i], source[i])
    BY <1>1 DEF IInv, LinesInv, Held
  <2> QED BY <2>1, LiveText DEF Line
<1>2. ASSUME step \in Assembling \cup Returned \cup Running, NEW i \in DOMAIN functions
      PROVE  NameText(functions[i]) = functions[i].text
  <2>1. Live(pools, functions[i].name, functions[i].text)
    BY <1>2 DEF IInv, NamesInv, Named
  <2> QED BY <2>1, LiveText DEF NameText
<1>3. StringsKept
  BY <1>1, <1>2 DEF StringsKept, Assembling, Returned, Running
<1>4. ASSUME step \in Running
      PROVE  defaultPool = 0 /\ \A p \in 1 .. LastPool : InUse(pools, p) = {}
  <2>1. defaultPool = 0 /\ OnlyIn(pools, {})
    BY <1>4 DEF IInv, OwnersInv
  <2>2. \A p \in 1 .. LastPool : p \in PoolNums \ {0}
    BY PoolAssumption DEF PoolNums
  <2> QED BY <2>1, <2>2 DEF OnlyIn
<1>5. PoolsDrained
  BY <1>4 DEF PoolsDrained, Running
<1> QED BY <1>3, <1>5 DEF PoolsHandedOver

\* For any sources, texts and hash, and any number of pools and blocks: a pool
\* stores a string once, its hash table leads to strings that are there and
\* to each of them (StringPool.cpp: storeInPool, clearPool).
THEOREM PoolsStaySound == Spec => []PoolsSound
<1>1. Spec => []IInv
  BY InitInv, StepInv, PTL DEF Spec
<1> QED BY <1>1, InvSound, PTL

\* The assembler's lines and the functions' names are the strings they were,
\* and the VM runs with no pool but pool 0 in use (Assembler.cs: Assemble,
\* App.cs: Main, VMVis.cs).
THEOREM PoolsAreHandedOver == Spec => []PoolsHandedOver
<1>1. Spec => []IInv
  BY InitInv, StepInv, PTL DEF Spec
<1> QED BY <1>1, InvHandedOver, PTL
=============================================================================
