------------------------------ MODULE GC_proof ------------------------------
(***************************************************************************)
(* The collector frees exactly what no protected local reaches, for every  *)
(* heap, every set of locals and every program that is Disciplined.        *)
(*                                                                         *)
(* The argument is the one for tracing collectors.  Reach is the least     *)
(* Closed set.  While it marks, whatever a marked object refers to is      *)
(* marked or still pending (MarkOK), so when nothing is pending the marked *)
(* objects are Closed and hence contain Reach.  While it sweeps, Reach is  *)
(* among the objects already swept or still marked (SweepOK).  Between     *)
(* collections the program only moves references to what it can reach.     *)
(*                                                                         *)
(* bytes_allocated is exact for every program, Disciplined or not.  The    *)
(* sum that BytesExact takes is recursive, so that this part begins with   *)
(* sums over finite sets: such a function exists, does not depend on the   *)
(* order in which elements are taken, and gains or loses one term when an  *)
(* object comes or goes.  Each of these is proved from a counterexample    *)
(* with the fewest elements.                                               *)
(***************************************************************************)
EXTENDS GC, TLAPS, SequenceTheorems, FiniteSetTheorems, WellFoundedInduction

Marked  == {a \in Addrs : marked[a]}
Pending == {work[i] : i \in DOMAIN work}

\* What each shape holds, of garbage too.
Shaped ==
  \A a \in Addrs :
    /\ heap[a].shape \in {"string", "list", "map", "entries"}
    /\ heap[a].shape = "string" => heap[a].items = <<>>
    /\ heap[a].shape # "map" => heap[a].parts = <<>>
    /\ heap[a].shape = "map" => heap[a].items = <<>>

\* No value is an entries array; every reachable map has one.
Tidy ==
  /\ \A v \in RootTargets : heap[v].shape # "entries"
  /\ \A a \in Reach : \A v \in Items(a) : heap[v].shape # "entries"
  /\ \A a \in Reach :
       heap[a].shape = "map" => /\ Len(heap[a].parts) = 1
                                /\ heap[heap[a].parts[1]].shape = "entries"

\* The allocating operation: make_map holds a map nobody reaches yet.
JobOK ==
  /\ phase \in {"run"} => op = "none"
  /\ phase = "malloc" => op # "none"
  /\ phase # "report"
  /\ op # "none" => dst \in Locals
  /\ op # "none" /\ phase # "exited" => dst \in Protected
  /\ op \in {"none", "string", "list", "map", "grow"}
  /\ op # "map" => made = <<>>
  /\ op = "map" /\ phase # "exited" => disableCount > 0 /\ phase = "malloc"
  /\ op = "grow" /\ phase # "exited" => local[dst] \in Addrs /\ heap[local[dst]].shape \in {"list", "map"}
  /\ made # <<>> => /\ Len(made) = 1
                    /\ made[1] \in objects \ Reach
                    /\ heap[made[1]] = Fresh("map")

MarkOK ==
  phase = "mark" =>
    /\ \A v \in Pending \cap Addrs : v \in Reach /\ heap[v].shape # "entries"
    /\ RootTargets \subseteq Marked \cup Pending
    /\ \A b \in Marked : Edges(b) \subseteq Marked \cup Pending
    /\ Marked \subseteq Reach

SweepOK ==
  phase = "sweep" =>
    /\ unswept \subseteq objects
    /\ Marked \subseteq unswept
    /\ Reach = (objects \ unswept) \cup Marked

Clear == phase \notin {"mark", "sweep"} => Marked = {}

Inv == TypeOK /\ ScopesNest /\ Shaped /\ NoDangling /\ Tidy /\ JobOK /\ MarkOK /\ SweepOK /\ Clear
-----------------------------------------------------------------------------
(* Reach is the least Closed set.                                          *)

LEMMA EdgesType == TypeOK => \A a \in Addrs : Edges(a) \subseteq Addrs
<1> SUFFICES ASSUME TypeOK, NEW a \in Addrs PROVE Edges(a) \subseteq Addrs
  OBVIOUS
<1>1. heap[a].parts \in Seq(Addrs)
  BY DEF TypeOK, Objects
<1> QED BY <1>1 DEF Edges, Items, Parts

LEMMA ReachClosed == TypeOK => Closed(Reach)
<1> SUFFICES ASSUME TypeOK PROVE Closed(Reach)
  OBVIOUS
<1>1. RootTargets \subseteq Reach
  <2> SUFFICES ASSUME NEW v \in RootTargets PROVE v \in Reach
    OBVIOUS
  <2>1. v \in Addrs
    BY DEF RootTargets
  <2>2. \A S \in SUBSET Addrs : Closed(S) => v \in S
    BY DEF Closed
  <2> QED BY <2>1, <2>2 DEF Reach
<1>2. ASSUME NEW a \in Reach, NEW e \in Edges(a) PROVE e \in Reach
  <2>1. a \in Addrs /\ e \in Addrs
    BY EdgesType DEF Reach
  <2>2. ASSUME NEW S \in SUBSET Addrs, Closed(S) PROVE e \in S
    <3>1. a \in S
      BY <2>2 DEF Reach
    <3> QED BY <2>2, <3>1 DEF Closed
  <2> QED BY <2>1, <2>2 DEF Reach
<1> QED BY <1>1, <1>2 DEF Closed

LEMMA ReachLeast == ASSUME NEW S \in SUBSET Addrs, Closed(S) PROVE Reach \subseteq S
BY DEF Reach

\* Nothing in Reach depends on what lies outside of the reachable heap.
LEMMA ReachKept ==
  ASSUME TypeOK, UNCHANGED <<local, roots>>, \A a \in Reach : heap'[a] = heap[a]
  PROVE  Reach' = Reach
<1>1. RootTargets' = RootTargets
  BY DEF RootTargets, Protected
<1>2. \A a \in Reach : Edges(a)' = Edges(a)
  BY DEF Edges, Items, Parts
<1>3. Reach \in SUBSET Addrs
  BY DEF Reach
<1>4. Closed(Reach)
  BY ReachClosed
<1>6. Reach' \subseteq Reach
  <2>1. RootTargets' \subseteq Reach /\ \A a \in Reach : Edges(a)' \subseteq Reach
    BY <1>1, <1>2, <1>4 DEF Closed
  <2> QED BY <1>3, <2>1 DEF Reach, Closed
<1>7. ASSUME NEW a \in Reach PROVE a \in Reach'
  <2> SUFFICES ASSUME NEW S \in SUBSET Addrs, RootTargets' \subseteq S,
                      \A b \in S : Edges(b)' \subseteq S
               PROVE  a \in S
    BY <1>3 DEF Reach, Closed
  <2>1. RootTargets \subseteq S \cap Reach
    BY <1>1, <1>4 DEF Closed
  <2>2. \A b \in S \cap Reach : Edges(b) \subseteq S \cap Reach
    BY <1>2, <1>4 DEF Closed
  <2>3. S \cap Reach \in SUBSET Addrs /\ Closed(S \cap Reach)
    BY <2>1, <2>2 DEF Closed
  <2>4. Reach \subseteq S \cap Reach
    BY <2>3, ReachLeast
  <2> QED BY <2>4
<1> QED BY <1>6, <1>7

\* What a step makes reachable is what was, and what the step added.
LEMMA ReachGrows ==
  ASSUME NEW N \in SUBSET Addrs,
         RootTargets' \subseteq Reach \cup N,
         \A a \in Reach \cup N : Edges(a)' \subseteq Reach \cup N
  PROVE  Reach' \subseteq Reach \cup N
<1>1. Reach \cup N \in SUBSET Addrs
  BY DEF Reach
<1> QED BY <1>1 DEF Reach, Closed
-----------------------------------------------------------------------------
(* Types of the operators.                                                 *)

LEMMA ContentsType == TypeOK => \A a \in Addrs : Contents(a) \in Seq(Values)
<1> SUFFICES ASSUME TypeOK, NEW a \in Addrs PROVE Contents(a) \in Seq(Values)
  OBVIOUS
<1>1. heap[a] \in Objects
  BY DEF TypeOK
<1>2. CASE heap[a].shape = "list"
  BY <1>1, <1>2 DEF Contents, Objects
<1>3. CASE heap[a].shape = "map" /\ heap[a].parts # <<>>
  <2>1. heap[a].parts[1] \in Addrs
    BY <1>1, <1>3 DEF Objects
  <2>2. heap[heap[a].parts[1]] \in Objects
    BY <2>1 DEF TypeOK
  <2> QED BY <1>3, <2>2 DEF Contents, Objects
<1>4. CASE heap[a].shape # "list" /\ ~(heap[a].shape = "map" /\ heap[a].parts # <<>>)
  BY <1>4 DEF Contents
<1> QED BY <1>2, <1>3, <1>4

LEMMA ProtectedType == TypeOK => Protected \subseteq Locals
BY DEF TypeOK, Protected

LEMMA RootValuesType ==
  TypeOK => RootValues \in Seq(Values) /\ {RootValues[i] : i \in DOMAIN RootValues}
                                            = {local[x] : x \in Protected}
<1> SUFFICES ASSUME TypeOK
    PROVE  RootValues \in Seq(Values) /\ {RootValues[i] : i \in DOMAIN RootValues}
                                            = {local[x] : x \in Protected}
  OBVIOUS
<1>1. \A i \in 1 .. Len(roots) : local[roots[i]] \in Values
  BY DEF TypeOK
<1>2. DOMAIN roots = 1 .. Len(roots) /\ Len(roots) \in Nat
  BY DEF TypeOK
<1>3. RootValues \in Seq(Values)
  BY <1>1, <1>2 DEF RootValues
<1> QED BY <1>2, <1>3 DEF RootValues, Protected

\* The contents of a reachable object: its items, or those of its entries.
LEMMA ContentsReached ==
  ASSUME TypeOK, Tidy, NEW a \in Reach, heap[a].shape \in {"list", "map"}
  PROVE  /\ Storage(a) \in Reach
         /\ Contents(a) = heap[Storage(a)].items
         /\ heap[Storage(a)].shape \in {"list", "entries"}
<1>1. a \in Addrs /\ heap[a] \in Objects
  BY DEF Reach, TypeOK
<1>2. CASE heap[a].shape = "list"
  BY <1>2 DEF Storage, Contents
<1>3. CASE heap[a].shape = "map"
  <2>1. Len(heap[a].parts) = 1 /\ heap[heap[a].parts[1]].shape = "entries"
    BY <1>3 DEF Tidy
  <2>2. heap[a].parts \in Seq(Addrs)
    BY <1>1 DEF Objects
  <2>3. 1 \in DOMAIN heap[a].parts /\ heap[a].parts # <<>>
    BY <2>1, <2>2
  <2>4. heap[a].parts[1] \in Edges(a)
    BY <2>3 DEF Edges, Parts
  <2>5. heap[a].parts[1] \in Reach
    BY <2>4, ReachClosed DEF Closed
  <2> QED BY <1>3, <2>1, <2>3, <2>5 DEF Storage, Contents
<1> QED BY <1>2, <1>3

\* The program only gets hold of values that are not objects and of reachable
\* objects, none of them an array.
LEMMA VisibleReached ==
  ASSUME TypeOK, Tidy, NEW v \in Visible
  PROVE  v \in Values /\ (v \in Addrs => v \in Reach /\ heap[v].shape # "entries")
<1>1. CASE v \in {Nil} \cup Interned
  BY <1>1, GCAssumption DEF Values
<1>2. CASE v \in {local[x] : x \in Protected}
  <2>1. v \in Values
    BY <1>2, ProtectedType DEF TypeOK
  <2>2. v \in Addrs => v \in RootTargets
    BY <1>2 DEF RootTargets
  <2> QED BY <2>1, <2>2, ReachClosed DEF Closed, Tidy
<1>3. ASSUME NEW a \in {local[x] : x \in Protected} \cap Addrs, NEW i \in DOMAIN Contents(a),
             v = Contents(a)[i]
      PROVE  v \in Values /\ (v \in Addrs => v \in Reach /\ heap[v].shape # "entries")
  <2>1. a \in RootTargets /\ a \in Reach /\ a \in Addrs
    BY ReachClosed DEF RootTargets, Closed
  <2>2. v \in Values
    BY <1>3, <2>1, ContentsType
  <2>3. heap[a].shape \in {"list", "map"}
    BY <1>3 DEF Contents
  <2>4. Storage(a) \in Reach /\ Contents(a) = heap[Storage(a)].items
    BY <2>1, <2>3, ContentsReached
  <2>5. v \in Addrs => v \in Items(Storage(a)) /\ v \in Edges(Storage(a))
    BY <1>3, <2>4 DEF Items, Edges
  <2> QED BY <2>2, <2>4, <2>5, ReachClosed DEF Closed, Tidy
<1> QED BY <1>1, <1>2, <1>3 DEF Visible

LEMMA ContainerReached ==
  ASSUME TypeOK, NEW a \in Containers
  PROVE  a \in Reach /\ heap[a].shape \in {"list", "map"}
BY ReachClosed DEF Containers, RootTargets, Closed
-----------------------------------------------------------------------------
(* Steps of the program.                                                   *)

\* What is left to show of a step between two operations.
LEMMA RunStep ==
  ASSUME Inv, phase = "run", phase' = "run", UNCHANGED <<objects, marked, op, dst, made>>,
         TypeOK', ScopesNest', Shaped', Tidy', Reach' \subseteq Reach
  PROVE  Inv'
<1>1. NoDangling'
  BY DEF Inv, NoDangling
<1>2. JobOK'
  <2>1. op = "none" /\ made = <<>>
    BY DEF Inv, JobOK
  <2> QED BY <2>1 DEF JobOK
<1>3. MarkOK' /\ SweepOK'
  BY DEF MarkOK, SweepOK
<1>4. Clear'
  BY DEF Inv, Clear, Marked
<1> QED BY <1>1, <1>2, <1>3, <1>4 DEF Inv

\* The heap stays: only the roots change, to values the program can see.
LEMMA RootStep ==
  ASSUME Inv, UNCHANGED heap, RootTargets' \subseteq Reach,
         \A v \in RootTargets' : heap[v].shape # "entries"
  PROVE  Reach' \subseteq Reach /\ Tidy' /\ Shaped'
<1>1. \A a \in Addrs : Edges(a)' = Edges(a) /\ Items(a)' = Items(a)
  BY DEF Edges, Items, Parts
<1>2. Reach' \subseteq Reach
  <2>1. Reach \subseteq Addrs /\ Closed(Reach)
    BY ReachClosed DEF Inv, Reach
  <2>2. \A a \in Reach : Edges(a)' \subseteq Reach
    BY <1>1, <2>1 DEF Closed
  <2> QED BY <2>1, <2>2 DEF Reach, Closed
<1>3. Tidy'
  <2>1. Tidy /\ Reach \subseteq Addrs
    BY DEF Inv, Reach
  <2> QED BY <1>1, <1>2, <2>1 DEF Tidy
<1>4. Shaped'
  BY DEF Inv, Shaped
<1> QED BY <1>2, <1>3, <1>4

LEMMA ScopeSteps == Inv /\ (PushScope \/ Disable \/ Enable) => Inv'
<1> SUFFICES ASSUME Inv, PushScope \/ Disable \/ Enable PROVE Inv'
  OBVIOUS
<1>1. /\ phase = "run" /\ phase' = "run"
      /\ UNCHANGED <<objects, marked, op, dst, made, heap, local, roots>>
  BY DEF PushScope, Disable, Enable, shadow, job, tracing
<1>2. TypeOK'
  <2>1. scopes' \in Seq(Nat) /\ disableCount' \in Nat
    <3>1. scopes \in Seq(Nat) /\ disableCount \in Nat /\ Len(roots) \in Nat
      BY DEF Inv, TypeOK
    <3>2. CASE PushScope
      BY <3>1, <3>2 DEF PushScope, StartIndex
    <3>3. CASE Disable
      BY <3>1, <3>3 DEF Disable, shadow
    <3>4. CASE Enable
      BY <3>1, <3>4 DEF Enable, shadow
    <3> QED BY <3>2, <3>3, <3>4
  <2>2. UNCHANGED <<bytes, threshold, retrying, work, unswept, before>>
    BY DEF PushScope, Disable, Enable, job, tracing
  <2> QED BY <1>1, <2>1, <2>2 DEF Inv, TypeOK
<1>3. ScopesNest'
  <2>1. CASE UNCHANGED scopes
    BY <1>1, <2>1 DEF Inv, ScopesNest
  <2>2. CASE scopes' = Append(scopes, Len(roots))
    <3>1. scopes \in Seq(Nat) /\ Len(roots) \in Nat
      BY DEF Inv, TypeOK
    <3>2. /\ DOMAIN scopes' = 1 .. Len(scopes) + 1 /\ Len(scopes') = Len(scopes) + 1
          /\ \A i \in 1 .. Len(scopes) : scopes'[i] = scopes[i]
          /\ scopes'[Len(scopes) + 1] = Len(roots)
      BY <2>2, <3>1
    <3>3. \A i \in 1 .. Len(scopes) :
            scopes[i] <= (IF i = Len(scopes) THEN Len(roots) ELSE scopes[i + 1])
      BY <3>1 DEF Inv, ScopesNest
    <3>4. ASSUME NEW i \in 1 .. Len(scopes) + 1
          PROVE  scopes'[i] <= (IF i = Len(scopes) + 1 THEN Len(roots) ELSE scopes'[i + 1])
      <4>1. CASE i = Len(scopes) + 1
        BY <3>1, <3>2, <4>1
      <4>2. CASE i = Len(scopes)
        BY <3>1, <3>2, <3>3, <4>2
      <4>3. CASE i < Len(scopes)
        <5>1. i \in 1 .. Len(scopes) /\ i + 1 \in 1 .. Len(scopes)
          BY <3>1, <4>3
        <5> QED BY <3>1, <3>2, <3>3, <4>3, <5>1
      <4> QED BY <3>1, <4>1, <4>2, <4>3
    <3> QED BY <1>1, <3>2, <3>4 DEF ScopesNest
  <2> QED BY <2>1, <2>2 DEF PushScope, StartIndex, Disable, Enable, shadow
<1>4. RootTargets' = RootTargets
  BY <1>1 DEF RootTargets, Protected
<1>5. RootTargets' \subseteq Reach /\ \A v \in RootTargets' : heap[v].shape # "entries"
  BY <1>4, ReachClosed DEF Inv, Tidy, Closed
<1> QED BY <1>1, <1>2, <1>3, <1>5, RootStep, RunStep

LEMMA ProtectStep == Inv /\ Protect => Inv'
<1> SUFFICES ASSUME Inv, Protect PROVE Inv'
  OBVIOUS
<1>1. PICK x \in Locals \ Protected, v \in Visible :
        local' = [local EXCEPT ![x] = v] /\ roots' = Append(roots, x)
  BY DEF Protect
<1>2. /\ phase = "run" /\ phase' = "run"
      /\ UNCHANGED <<objects, marked, op, dst, made, heap, scopes>>
  BY DEF Protect, job, tracing
<1>3. v \in Values /\ (v \in Addrs => v \in Reach /\ heap[v].shape # "entries")
  BY VisibleReached DEF Inv
<1>4. TypeOK'
  BY <1>1, <1>3 DEF Inv, TypeOK, Protect, job, tracing
<1>5. roots \in Seq(Locals) /\ Len(roots') = Len(roots) + 1 /\ Len(roots) \in Nat
  BY <1>1 DEF Inv, TypeOK
<1>6. ScopesNest'
  <2>1. \A i \in DOMAIN scopes : scopes[i] \in Nat
    BY DEF Inv, TypeOK
  <2> QED BY <1>2, <1>5, <2>1 DEF Inv, ScopesNest
<1>7. ASSUME NEW w \in RootTargets' PROVE w \in Reach /\ heap[w].shape # "entries"
  <2>1. PICK i \in DOMAIN roots' : w = local'[roots'[i]] /\ w \in Addrs
    BY DEF RootTargets, Protected
  <2>2. CASE i = Len(roots) + 1
    <3>1. roots'[i] = x /\ x \in Locals
      BY <1>1, <1>5, <2>2
    <3>2. w = v
      BY <1>1, <2>1, <3>1 DEF Inv, TypeOK
    <3> QED BY <1>3, <2>1, <3>2
  <2>3. CASE i # Len(roots) + 1
    <3>1. i \in DOMAIN roots /\ roots'[i] = roots[i]
      BY <1>1, <1>5, <2>1, <2>3
    <3>2. roots[i] \in Protected /\ roots[i] # x
      BY <3>1 DEF Protected
    <3>3. w = local[roots[i]]
      BY <1>1, <2>1, <3>1, <3>2, ProtectedType DEF Inv, TypeOK
    <3>4. w \in RootTargets
      BY <2>1, <3>2, <3>3 DEF RootTargets
    <3> QED BY <3>4, ReachClosed DEF Inv, Tidy, Closed
  <2> QED BY <2>2, <2>3
<1> QED BY <1>2, <1>4, <1>6, <1>7, RootStep, RunStep

LEMMA AssignStep == Inv /\ Assign => Inv'
<1> SUFFICES ASSUME Inv, Assign PROVE Inv'
  OBVIOUS
<1>1. PICK x \in Protected, v \in Visible : local' = [local EXCEPT ![x] = v]
  BY DEF Assign
<1>2. /\ phase = "run" /\ phase' = "run"
      /\ UNCHANGED <<objects, marked, op, dst, made, heap, roots, scopes>>
  BY DEF Assign, shadow, job, tracing
<1>3. v \in Values /\ (v \in Addrs => v \in Reach /\ heap[v].shape # "entries")
  BY VisibleReached DEF Inv
<1>4. x \in Locals
  BY ProtectedType DEF Inv
<1>5. TypeOK'
  BY <1>1, <1>3, <1>4 DEF Inv, TypeOK, Assign, shadow, job, tracing
<1>6. ScopesNest'
  BY <1>2 DEF Inv, ScopesNest
<1>7. ASSUME NEW w \in RootTargets' PROVE w \in Reach /\ heap[w].shape # "entries"
  <2>1. PICK y \in Protected : w = local'[y] /\ w \in Addrs
    BY <1>2 DEF RootTargets, Protected
  <2>2. y \in Locals
    BY ProtectedType DEF Inv
  <2>3. w = v \/ w = local[y]
    BY <1>1, <2>1, <2>2 DEF Inv, TypeOK
  <2>4. local[y] \in Addrs => local[y] \in RootTargets
    BY DEF RootTargets
  <2> QED BY <1>3, <2>1, <2>3, <2>4, ReachClosed DEF Inv, Tidy, Closed
<1> QED BY <1>2, <1>5, <1>6, <1>7, RootStep, RunStep

LEMMA PopScopeStep == Inv /\ PopScope => Inv'
<1> SUFFICES ASSUME Inv, PopScope PROVE Inv'
  OBVIOUS
<1>1. /\ phase = "run" /\ phase' = "run" /\ scopes # <<>>
      /\ UNCHANGED <<objects, marked, op, dst, made, heap>>
      /\ roots' = SubSeq(roots, 1, ScopeStart)
      /\ scopes' = SubSeq(scopes, 1, Len(scopes) - 1)
      /\ local' = [x \in Locals |-> IF \E i \in 1 .. ScopeStart : roots[i] = x
                                    THEN local[x] ELSE Nil]
  BY DEF PopScope, job, tracing
<1>2. /\ scopes \in Seq(Nat) /\ roots \in Seq(Locals) /\ local \in [Locals -> Values]
      /\ Len(scopes) \in Nat \ {0} /\ Len(roots) \in Nat
  BY <1>1 DEF Inv, TypeOK
<1>3. ScopeStart \in 0 .. Len(roots)
  BY <1>2 DEF Inv, ScopesNest, ScopeStart
<1>4. /\ roots' \in Seq(Locals) /\ Len(roots') = ScopeStart
      /\ \A i \in 1 .. ScopeStart : roots'[i] = roots[i]
  BY <1>1, <1>2, <1>3
<1> PICK n : n = Len(scopes) - 1
  OBVIOUS
<1>5. /\ n \in Nat /\ n + 1 = Len(scopes)
      /\ scopes' \in Seq(Nat) /\ Len(scopes') = n
      /\ \A i \in 1 .. n : scopes'[i] = scopes[i] /\ scopes'[i] \in Nat
  <2>1. n \in Nat /\ n + 1 = Len(scopes)
    BY <1>2
  <2>2. 1 \in 1 .. Len(scopes) + 1 /\ n \in 1 - 1 .. Len(scopes)
    BY <1>2, <2>1
  <2>3. scopes' = SubSeq(scopes, 1, n)
    BY <1>1
  <2>4. scopes' \in Seq(Nat) /\ Len(scopes') = n
    BY <1>2, <2>1, <2>2, <2>3, SubSeqProperties
  <2>5. \A i \in 1 .. n : scopes'[i] = scopes[i]
    BY <1>2, <2>1, <2>3
  <2> QED BY <1>2, <2>1, <2>4, <2>5, SMTT(30)
<1>6. TypeOK'
  <2>1. local' \in [Locals -> Values]
    BY <1>1, <1>2 DEF Values
  <2>2. UNCHANGED <<bytes, threshold, disableCount, retrying, work, unswept, before>>
    BY DEF PopScope, job, tracing
  <2> QED BY <1>1, <1>4, <1>5, <2>1, <2>2 DEF Inv, TypeOK
<1>7. ScopesNest'
  <2>1. \A i \in 1 .. n : scopes[i] <= scopes[i + 1]
    <3> SUFFICES ASSUME NEW i \in 1 .. n PROVE scopes[i] <= scopes[i + 1]
      OBVIOUS
    <3>1. i \in DOMAIN scopes /\ i # Len(scopes)
      BY <1>2, <1>5
    <3> QED BY <3>1 DEF Inv, ScopesNest
  <2>2. ASSUME NEW i \in 1 .. n
        PROVE  scopes'[i] <= (IF i = n THEN ScopeStart ELSE scopes'[i + 1])
    <3>1. CASE i = n
      <4>1. scopes[i + 1] = ScopeStart
        BY <1>5, <3>1 DEF ScopeStart
      <4> QED BY <1>5, <2>1, <3>1, <4>1
    <3>2. CASE i # n
      <4>1. i + 1 \in 1 .. n
        BY <1>5, <3>2
      <4>2. scopes'[i] <= scopes'[i + 1]
        BY <1>5, <2>1, <4>1
      <4> QED BY <3>2, <4>2
    <3> QED BY <3>1, <3>2
  <2>3. DOMAIN scopes' = 1 .. n
    BY <1>5
  <2>4. Len(roots') = ScopeStart /\ Len(scopes') = n
    BY <1>4, <1>5
  <2> SUFFICES ASSUME NEW i \in DOMAIN scopes'
        PROVE  scopes'[i] <= (IF i = Len(scopes') THEN Len(roots') ELSE scopes'[i + 1])
    BY DEF ScopesNest
  <2> QED BY <2>2, <2>3, <2>4
<1>8. ASSUME NEW w \in RootTargets' PROVE w \in Reach /\ heap[w].shape # "entries"
  <2>1. PICK i \in 1 .. ScopeStart : w = local'[roots[i]] /\ w \in Addrs
    BY <1>4 DEF RootTargets, Protected
  <2>2. roots[i] \in Protected /\ roots[i] \in Locals
    BY <1>2, <1>3 DEF Protected
  <2>3. w = local[roots[i]]
    BY <1>1, <2>1, <2>2
  <2>4. w \in RootTargets
    BY <2>1, <2>2, <2>3 DEF RootTargets
  <2> QED BY <2>4, ReachClosed DEF Inv, Tidy, Closed
<1> QED BY <1>1, <1>6, <1>7, <1>8, RootStep, RunStep

\* The items of a list or of a map's entries change to values the program has.
LEMMA ItemStep ==
  ASSUME Inv, NEW a \in Containers, NEW items \in Seq(Values),
         \A i \in DOMAIN items :
           items[i] \in Addrs => items[i] \in Reach /\ heap[items[i]].shape # "entries",
         heap' = [heap EXCEPT ![Storage(a)].items = items],
         UNCHANGED <<local, roots>>
  PROVE  Reach' \subseteq Reach /\ Tidy' /\ Shaped' /\ heap' \in [Addrs -> Objects]
<1> PICK s : s = Storage(a)
  OBVIOUS
<1>1. s \in Reach /\ s \in Addrs /\ heap[s].shape \in {"list", "entries"} /\ heap[s] \in Objects
  BY ContainerReached, ContentsReached DEF Inv, Reach, TypeOK
<1>2. heap' = [heap EXCEPT ![s] = [heap[s] EXCEPT !.items = items]]
  BY <1>1 DEF Inv, TypeOK
<1>3. /\ heap'[s].shape = heap[s].shape /\ heap'[s].parts = heap[s].parts
      /\ heap'[s].items = items /\ heap'[s] \in Objects
  <2>1. heap'[s] = [heap[s] EXCEPT !.items = items]
    BY <1>1, <1>2 DEF Inv, TypeOK
  <2> QED BY <1>1, <2>1 DEF Objects
<1>4. \A b \in Addrs \ {s} : heap'[b] = heap[b]
  BY <1>2 DEF Inv, TypeOK
<1>5. \A b \in Addrs : heap'[b].shape = heap[b].shape /\ heap'[b].parts = heap[b].parts
  BY <1>3, <1>4
<1>6. Reach \in SUBSET Addrs /\ Closed(Reach)
  BY ReachClosed DEF Inv, Reach
<1>7. RootTargets' = RootTargets
  BY DEF RootTargets, Protected
<1>8. \A v \in Items(s)' : v \in Reach /\ heap[v].shape # "entries"
  BY <1>3 DEF Items
<1>9. \A b \in Reach : Edges(b)' \subseteq Reach
  <2>1. \A b \in Reach \ {s} : Edges(b)' = Edges(b)
    BY <1>4, <1>6 DEF Edges, Items, Parts
  <2>2. Parts(s)' = Parts(s) /\ Parts(s) \subseteq Edges(s)
    BY <1>3 DEF Parts, Edges
  <2>3. Edges(s)' = Items(s)' \cup Parts(s)'
    BY DEF Edges
  <2> QED BY <1>1, <1>6, <1>8, <2>1, <2>2, <2>3 DEF Closed
<1>10. Reach' \subseteq Reach
  BY <1>6, <1>7, <1>9 DEF Reach, Closed
<1>11. Tidy'
  <2>1. \A v \in RootTargets' : heap'[v].shape # "entries"
    BY <1>5, <1>7 DEF Inv, Tidy, RootTargets
  <2>2. \A b \in Reach : \A v \in Items(b)' : heap[v].shape # "entries" /\ v \in Addrs
    <3>1. \A b \in Reach \ {s} : Items(b)' = Items(b)
      BY <1>4, <1>6 DEF Items
    <3>2. \A b \in Reach : Items(b)' \subseteq Addrs
      BY DEF Items
    <3> QED BY <1>8, <3>1, <3>2 DEF Inv, Tidy
  <2>3. \A b \in Reach : \A v \in Items(b)' : heap'[v].shape # "entries"
    BY <1>5, <2>2
  <2>4. ASSUME NEW b \in Reach, heap[b].shape = "map"
        PROVE  /\ Len(heap'[b].parts) = 1
               /\ heap'[heap'[b].parts[1]].shape = "entries"
    <3>1. Len(heap[b].parts) = 1 /\ heap[heap[b].parts[1]].shape = "entries"
      BY <2>4 DEF Inv, Tidy
    <3>2. heap[b].parts \in Seq(Addrs) /\ heap[b].parts[1] \in Addrs
      BY <1>6, <3>1 DEF Inv, TypeOK, Objects
    <3> QED BY <1>5, <1>6, <3>1, <3>2
  <2> QED BY <1>5, <1>6, <1>10, <2>1, <2>3, <2>4 DEF Tidy
<1>12. Shaped'
  <2>1. \A b \in Addrs \ {s} : heap'[b].items = heap[b].items
    BY <1>4
  <2> QED BY <1>1, <1>5, <2>1 DEF Inv, Shaped
<1>13. heap' \in [Addrs -> Objects]
  BY <1>1, <1>2, <1>3 DEF Inv, TypeOK
<1> QED BY <1>10, <1>11, <1>12, <1>13

LEMMA StoreStep == Inv /\ Store => Inv'
<1> SUFFICES ASSUME Inv, Store PROVE Inv'
  OBVIOUS
<1>1. PICK a \in Containers, x \in Protected :
        heap' = [heap EXCEPT ![Storage(a)].items = Append(@, local[x])]
  BY DEF Store
<1>2. /\ phase = "run" /\ phase' = "run"
      /\ UNCHANGED <<objects, marked, op, dst, made, local, roots, scopes>>
      /\ UNCHANGED <<bytes, threshold, disableCount, retrying, work, unswept, before>>
  BY DEF Store, shadow, job, tracing
<1> DEFINE s == Storage(a)
           items == Append(heap[s].items, local[x])
<1>3. s \in Reach /\ s \in Addrs /\ heap[s].items \in Seq(Values)
  BY ContainerReached, ContentsReached DEF Inv, Reach, TypeOK, Objects
<1>4. local[x] \in Values /\ (local[x] \in Addrs => local[x] \in RootTargets)
  BY ProtectedType DEF Inv, TypeOK, RootTargets
<1>5. items \in Seq(Values) /\ DOMAIN items = 1 .. Len(heap[s].items) + 1
      /\ items[Len(heap[s].items) + 1] = local[x]
      /\ \A i \in 1 .. Len(heap[s].items) : items[i] = heap[s].items[i]
  BY <1>3, <1>4
<1>6. ASSUME NEW i \in DOMAIN items, items[i] \in Addrs
      PROVE  items[i] \in Reach /\ heap[items[i]].shape # "entries"
  <2>1. CASE i = Len(heap[s].items) + 1
    BY <1>4, <1>5, <1>6, <2>1, ReachClosed DEF Inv, Tidy, Closed
  <2>2. CASE i # Len(heap[s].items) + 1
    <3>1. i \in DOMAIN heap[s].items /\ items[i] = heap[s].items[i]
      BY <1>3, <1>5, <2>2
    <3>2. items[i] \in Items(s) /\ items[i] \in Edges(s)
      BY <1>6, <3>1 DEF Items, Edges
    <3> QED BY <1>3, <3>2, ReachClosed DEF Inv, Tidy, Closed
  <2> QED BY <2>1, <2>2
<1>7. heap' = [heap EXCEPT ![Storage(a)].items = items]
  BY <1>1, <1>3 DEF Inv, TypeOK
<1> HIDE DEF s, items
<1>8. Reach' \subseteq Reach /\ Tidy' /\ Shaped' /\ heap' \in [Addrs -> Objects]
  BY <1>2, <1>5, <1>6, <1>7, ItemStep
<1>9. TypeOK' /\ ScopesNest'
  BY <1>2, <1>8 DEF Inv, TypeOK, ScopesNest
<1> QED BY <1>2, <1>8, <1>9, RunStep

LEMMA DropStep == Inv /\ Drop => Inv'
<1> SUFFICES ASSUME Inv, Drop PROVE Inv'
  OBVIOUS
<1>1. PICK a \in Containers : \E n \in 0 .. Len(Contents(a)) - 1 :
        heap' = [heap EXCEPT ![Storage(a)].items = SubSeq(@, 1, n)]
  BY DEF Drop
<1>2. PICK n \in 0 .. Len(Contents(a)) - 1 :
        heap' = [heap EXCEPT ![Storage(a)].items = SubSeq(@, 1, n)]
  BY <1>1
<1>3. /\ phase = "run" /\ phase' = "run"
      /\ UNCHANGED <<objects, marked, op, dst, made, local, roots, scopes>>
      /\ UNCHANGED <<bytes, threshold, disableCount, retrying, work, unswept, before>>
  BY DEF Drop, shadow, job, tracing
<1> DEFINE s == Storage(a)
           items == SubSeq(heap[s].items, 1, n)
<1>4. s \in Reach /\ s \in Addrs /\ heap[s].items \in Seq(Values) /\ Contents(a) = heap[s].items
  BY ContainerReached, ContentsReached DEF Inv, Reach, TypeOK, Objects
<1>5. n \in Nat /\ n <= Len(heap[s].items)
  BY <1>4
<1>6. items \in Seq(Values) /\ DOMAIN items = 1 .. n
      /\ \A i \in 1 .. n : items[i] = heap[s].items[i] /\ i \in DOMAIN heap[s].items
  BY <1>4, <1>5
<1>7. ASSUME NEW i \in DOMAIN items, items[i] \in Addrs
      PROVE  items[i] \in Reach /\ heap[items[i]].shape # "entries"
  <2>1. items[i] \in Items(s) /\ items[i] \in Edges(s)
    BY <1>6, <1>7 DEF Items, Edges
  <2> QED BY <1>4, <2>1, ReachClosed DEF Inv, Tidy, Closed
<1>8. heap' = [heap EXCEPT ![Storage(a)].items = items]
  BY <1>2, <1>4 DEF Inv, TypeOK
<1> HIDE DEF s, items
<1>9. Reach' \subseteq Reach /\ Tidy' /\ Shaped' /\ heap' \in [Addrs -> Objects]
  BY <1>3, <1>6, <1>7, <1>8, ItemStep
<1>10. TypeOK' /\ ScopesNest'
  BY <1>3, <1>9 DEF Inv, TypeOK, ScopesNest
<1> QED BY <1>3, <1>9, <1>10, RunStep
-----------------------------------------------------------------------------
(* A collection begins, or the process ends.                               *)

\* A step that leaves the heap and the roots.
LEMMA StillStep ==
  ASSUME Inv, UNCHANGED <<heap, local, roots>>
  PROVE  Reach' = Reach /\ RootTargets' = RootTargets /\ Tidy' /\ Shaped'
<1>1. RootTargets' = RootTargets
  BY DEF RootTargets, Protected
<1>2. Reach' = Reach
  BY ReachKept DEF Inv
<1>3. \A a \in Addrs : Items(a)' = Items(a)
  BY DEF Items
<1>4. Reach \subseteq Addrs
  BY DEF Reach
<1>5. Tidy'
  BY <1>1, <1>2, <1>3, <1>4 DEF Inv, Tidy
<1> QED BY <1>1, <1>2, <1>5 DEF Inv, Shaped

\* Nothing is marked, the roots are pending.
LEMMA MarkBegins ==
  ASSUME Inv, phase \notin {"mark", "sweep"}, UNCHANGED <<heap, local, roots, marked>>,
         work' = RootValues
  PROVE  MarkOK' /\ work' \in Seq(Values)
<1>1. Pending' = {local[x] : x \in Protected} /\ work' \in Seq(Values)
  BY RootValuesType DEF Inv, Pending
<1>2. Reach' = Reach /\ RootTargets' = RootTargets
  BY StillStep
<1>3. Marked' = {}
  BY DEF Inv, Clear, Marked
<1>4. Pending' \cap Addrs = RootTargets
  BY <1>1 DEF RootTargets
<1>5. \A v \in RootTargets : v \in Reach /\ heap[v].shape # "entries"
  BY ReachClosed DEF Inv, Tidy, Closed
<1> QED BY <1>1, <1>2, <1>3, <1>4, <1>5 DEF MarkOK

LEMMA MakeStep == Disciplined /\ Inv /\ Make => Inv'
<1> SUFFICES ASSUME Disciplined, Inv, Make PROVE Inv'
  OBVIOUS
<1>1. PICK operation \in Makes, x \in Protected :
        /\ operation \in {"map", "varmap"} => MapsUnderGC \/ disableCount > 0
        /\ operation = "grow" => local[x] \in Containers
        /\ op' = operation /\ dst' = x
  BY DEF Make
<1>2. /\ phase = "run" /\ EnterAllocate(bytes)
      /\ UNCHANGED <<objects, heap, local, roots, scopes, bytes, threshold, disableCount,
                     made, retrying, marked, unswept>>
  BY DEF Make, shadow
<1>3. operation \in {"string", "list", "map", "grow"} /\ ~MapsUnderGC
  BY DEF Disciplined
<1>4. op = "none" /\ made = <<>> /\ Marked = {}
  BY <1>2 DEF Inv, JobOK, Clear
<1>5. \/ phase' = "mark" /\ work' = RootValues /\ before' = bytes /\ disableCount = 0
      \/ phase' = "malloc" /\ UNCHANGED <<work, before>>
  BY <1>2 DEF EnterAllocate
<1>6. Reach' = Reach /\ RootTargets' = RootTargets /\ Tidy' /\ Shaped'
  BY <1>2, StillStep
<1>7. MarkOK' /\ work' \in Seq(Values)
  <2>1. CASE work' = RootValues
    BY <1>2, <2>1, MarkBegins
  <2>2. CASE phase' = "malloc" /\ UNCHANGED work
    BY <2>2 DEF Inv, TypeOK, MarkOK
  <2> QED BY <1>5, <2>1, <2>2
<1>8. TypeOK'
  <2>1. x \in Locals
    BY ProtectedType DEF Inv
  <2>2. op' \in Operations /\ phase' \in Phases /\ before' \in Int
    BY <1>1, <1>3, <1>5 DEF Operations, Phases, Inv, TypeOK
  <2> QED BY <1>1, <1>2, <1>7, <2>1, <2>2 DEF Inv, TypeOK
<1>9. JobOK'
  <2>1. operation = "map" => phase' = "malloc" /\ disableCount > 0
    BY <1>1, <1>3, <1>5
  <2>2. operation = "grow" => local[x] \in Addrs /\ heap[local[x]].shape \in {"list", "map"}
    BY <1>1 DEF Containers
  <2>3. x \in Locals /\ x \in Protected'
    BY <1>2, ProtectedType DEF Inv, Protected
  <2>4. phase' \notin {"run", "report"} /\ operation # "none"
    BY <1>3, <1>5
  <2> QED BY <1>1, <1>2, <1>3, <1>4, <2>1, <2>2, <2>3, <2>4 DEF JobOK
<1>10. NoDangling' /\ ScopesNest' /\ SweepOK' /\ Clear'
  <2>1. Marked' = {} /\ phase' # "sweep"
    BY <1>2, <1>4, <1>5 DEF Marked
  <2> QED BY <1>2, <1>6, <2>1 DEF Inv, NoDangling, ScopesNest, SweepOK, Clear
<1> QED BY <1>6, <1>7, <1>8, <1>9, <1>10 DEF Inv

LEMMA CollectStep == Inv /\ Collect => Inv'
<1> SUFFICES ASSUME Inv, Collect PROVE Inv'
  OBVIOUS
<1>1. /\ phase = "run" /\ phase' = "mark" /\ work' = RootValues /\ before' = bytes
      /\ UNCHANGED <<objects, heap, local, roots, scopes, bytes, threshold, disableCount,
                     op, dst, made, retrying, marked, unswept>>
  BY DEF Collect, StartCollection, shadow, job
<1>2. Reach' = Reach /\ RootTargets' = RootTargets /\ Tidy' /\ Shaped'
  BY <1>1, StillStep
<1>3. MarkOK' /\ work' \in Seq(Values)
  BY <1>1, MarkBegins
<1>4. TypeOK'
  BY <1>1, <1>3 DEF Inv, TypeOK, Phases
<1>5. op = "none" /\ made = <<>>
  BY <1>1 DEF Inv, JobOK
<1>6. JobOK'
  BY <1>1, <1>5 DEF JobOK
<1>7. NoDangling' /\ ScopesNest' /\ SweepOK' /\ Clear'
  BY <1>1, <1>2 DEF Inv, NoDangling, ScopesNest, SweepOK, Clear
<1> QED BY <1>2, <1>3, <1>4, <1>6, <1>7 DEF Inv

LEMMA MallocFailsStep == Inv /\ MallocFails => Inv'
<1> SUFFICES ASSUME Inv, MallocFails PROVE Inv'
  OBVIOUS
<1>1. /\ phase = "malloc"
      /\ UNCHANGED <<objects, heap, local, roots, scopes, bytes, threshold, disableCount,
                     op, dst, made, marked, unswept>>
  BY DEF MallocFails, StartCollection, shadow, tracing
<1>2. \/ /\ disableCount = 0 /\ retrying' = TRUE /\ phase' = "mark"
         /\ work' = RootValues /\ before' = bytes
      \/ phase' = "exited" /\ UNCHANGED <<retrying, work, before>>
  BY DEF MallocFails, StartCollection, tracing
<1>3. Reach' = Reach /\ RootTargets' = RootTargets /\ Tidy' /\ Shaped'
  BY <1>1, StillStep
<1>4. MarkOK' /\ work' \in Seq(Values)
  <2>1. CASE work' = RootValues
    BY <1>1, <2>1, MarkBegins
  <2>2. CASE phase' = "exited" /\ UNCHANGED work
    BY <2>2 DEF Inv, TypeOK, MarkOK
  <2> QED BY <1>2, <2>1, <2>2
<1>5. TypeOK'
  <2>1. phase' \in Phases /\ before' \in Int /\ retrying' \in BOOLEAN
    BY <1>2 DEF Inv, TypeOK, Phases
  <2> QED BY <1>1, <1>4, <2>1 DEF Inv, TypeOK
<1>6. JobOK'
  <2>1. op # "none" /\ (op = "map" => disableCount > 0)
    BY <1>1 DEF Inv, JobOK
  <2>2. op = "map" => phase' = "exited"
    <3>1. disableCount \in Nat
      BY DEF Inv, TypeOK
    <3> QED BY <1>2, <2>1, <3>1
  <2>3. phase' \in {"mark", "exited"} /\ phase # "exited"
    BY <1>1, <1>2
  <2>4. Protected' = Protected
    BY <1>1 DEF Protected
  <2> QED BY <1>1, <1>3, <2>1, <2>2, <2>3, <2>4 DEF Inv, JobOK
<1>7. NoDangling' /\ ScopesNest' /\ SweepOK' /\ Clear'
  <2>1. Marked' = {} /\ phase' # "sweep"
    BY <1>1, <1>2 DEF Inv, Clear, Marked
  <2> QED BY <1>1, <1>3, <2>1 DEF Inv, NoDangling, ScopesNest, SweepOK, Clear
<1> QED BY <1>3, <1>4, <1>5, <1>6, <1>7 DEF Inv

LEMMA ShutdownStep == Inv /\ Shutdown => Inv'
<1> SUFFICES ASSUME Inv, Shutdown PROVE Inv'
  OBVIOUS
<1>1. /\ phase = "run" /\ phase' = "exited"
      /\ objects' = {} /\ roots' = <<>> /\ scopes' = <<>>
      /\ bytes' = 0 /\ threshold' = 0 /\ disableCount' = 0
      /\ UNCHANGED <<heap, local, op, dst, made, retrying, marked, work, unswept, before>>
  BY DEF Shutdown, job, tracing
<1>2. RootTargets' = {}
  BY <1>1 DEF RootTargets, Protected
<1>3. Reach' = {}
  BY <1>2 DEF Reach, Closed
<1>4. TypeOK'
  BY <1>1 DEF Inv, TypeOK, Phases
<1>5. op = "none" /\ made = <<>> /\ Marked = {}
  BY <1>1 DEF Inv, JobOK, Clear
<1>6. JobOK' /\ Tidy' /\ MarkOK' /\ SweepOK'
  BY <1>1, <1>2, <1>3, <1>5 DEF JobOK, Tidy, MarkOK, SweepOK
<1>7. NoDangling' /\ ScopesNest' /\ Clear'
  BY <1>1, <1>3, <1>5 DEF NoDangling, ScopesNest, Clear, Marked
<1>8. Shaped'
  BY <1>1 DEF Inv, Shaped
<1> QED BY <1>4, <1>6, <1>7, <1>8 DEF Inv
-----------------------------------------------------------------------------
(* The collector.                                                          *)

LEMMA MarkStep == Inv /\ Mark => Inv'
<1> SUFFICES ASSUME Inv, Mark PROVE Inv'
  OBVIOUS
<1> PICK v : v = Head(work)
  OBVIOUS
<1>1. /\ phase = "mark" /\ phase' = "mark" /\ work # <<>>
      /\ UNCHANGED <<objects, heap, local, roots, scopes, bytes, threshold, disableCount,
                     op, dst, made, retrying, unswept, before>>
  BY DEF Mark, shadow, job, Inv, JobOK
<1>2. marked' = IF Unvisited(v) THEN [a \in Addrs |-> marked[a] \/ a \in Headers(v)] ELSE marked
  BY DEF Mark
<1>3. work' = IF Unvisited(v) THEN Contents(v) \o Tail(work) ELSE Tail(work)
  BY DEF Mark
<1>4. /\ work \in Seq(Values) /\ v \in Values /\ v \in Pending /\ Tail(work) \in Seq(Values)
      /\ Pending = {v} \cup {Tail(work)[i] : i \in DOMAIN Tail(work)}
  <2>1. work \in Seq(Values) /\ Len(work) \in Nat \ {0} /\ DOMAIN work = 1 .. Len(work)
    BY <1>1 DEF Inv, TypeOK
  <2>2. Tail(work) \in Seq(Values) /\ DOMAIN Tail(work) = 1 .. Len(work) - 1
        /\ \A i \in 1 .. Len(work) - 1 : Tail(work)[i] = work[i + 1]
    BY <1>1, <2>1
  <2>3. v = work[1] /\ 1 \in DOMAIN work
    BY <1>1, <2>1
  <2>4. ASSUME NEW w \in Pending
        PROVE  w = v \/ \E i \in DOMAIN Tail(work) : w = Tail(work)[i]
    <3>1. PICK i \in 1 .. Len(work) : w = work[i]
      BY <2>1 DEF Pending
    <3>2. CASE i = 1
      BY <2>3, <3>1, <3>2
    <3>3. CASE i # 1
      <4>1. i - 1 \in 1 .. Len(work) - 1 /\ i = (i - 1) + 1
        BY <2>1, <3>3
      <4>2. Tail(work)[i - 1] = work[i]
        BY <2>2, <4>1
      <4> QED BY <2>2, <3>1, <4>1, <4>2
    <3> QED BY <3>2, <3>3
  <2>5. ASSUME NEW i \in DOMAIN Tail(work) PROVE Tail(work)[i] \in Pending
    <3>1. i + 1 \in DOMAIN work /\ Tail(work)[i] = work[i + 1]
      BY <2>1, <2>2
    <3> QED BY <3>1 DEF Pending
  <2>6. v \in Pending /\ v \in Values
    BY <2>1, <2>3 DEF Pending
  <2> QED BY <2>1, <2>2, <2>4, <2>5, <2>6
<1> DEFINE rest == {Tail(work)[i] : i \in DOMAIN Tail(work)}
<1>5. Reach' = Reach /\ RootTargets' = RootTargets /\ Tidy' /\ Shaped'
  BY <1>1, StillStep
<1>6. /\ Reach \subseteq Addrs /\ Closed(Reach)
      /\ \A w \in Pending \cap Addrs : w \in Reach /\ heap[w].shape # "entries"
      /\ RootTargets \subseteq Marked \cup Pending
      /\ \A b \in Marked : Edges(b) \subseteq Marked \cup Pending
      /\ Marked \subseteq Reach
  BY <1>1, ReachClosed DEF Inv, MarkOK, Reach
<1>7. \A b \in Addrs : Edges(b)' = Edges(b)
  BY <1>1 DEF Edges, Items, Parts
<1>8. ASSUME ~Unvisited(v) PROVE MarkOK' /\ work' \in Seq(Values)
  <2>1. Marked' = Marked /\ Pending' = rest /\ marked' = marked /\ work' \in Seq(Values)
    BY <1>2, <1>3, <1>4, <1>8 DEF Marked, Pending
  <2>2. v \in Addrs => v \in Marked
    BY <1>4, <1>6, <1>8 DEF Unvisited, Traced, Marked, Inv, Shaped
  <2>3. Pending = {v} \cup rest
    BY <1>4
  <2>4. RootTargets \subseteq Addrs /\ \A b \in Addrs : Edges(b) \subseteq Addrs
    BY EdgesType DEF Inv, RootTargets
  <2>5. Marked \cup Pending \subseteq Marked \cup rest \cup (Values \ Addrs)
    BY <1>4, <2>2, <2>3
  <2>6. RootTargets \subseteq Marked \cup rest
    BY <1>6, <2>4, <2>5
  <2>7. \A b \in Marked : Edges(b) \subseteq Marked \cup rest
    BY <1>6, <2>4, <2>5
  <2>8. rest \subseteq Pending
    BY <2>3
  <2> HIDE DEF rest
  <2>9. MarkOK'
    BY <1>1, <1>5, <1>6, <1>7, <2>1, <2>6, <2>7, <2>8 DEF MarkOK
  <2> QED BY <2>1, <2>9
<1>9. ASSUME Unvisited(v) PROVE MarkOK' /\ work' \in Seq(Values)
  <2>1. v \in Addrs /\ v \in Reach /\ heap[v].shape \in {"string", "list", "map"}
    BY <1>4, <1>6, <1>9 DEF Unvisited, Traced
  <2> DEFINE new == {Contents(v)[i] : i \in DOMAIN Contents(v)}
  <2>2. Contents(v) \in Seq(Values) /\ work' = Contents(v) \o Tail(work)
    BY <1>3, <1>9, <2>1, ContentsType DEF Inv
  <2>3. work' \in Seq(Values) /\ Pending' = new \cup rest
    <3>1. Tail(work) \in Seq(Values)
      BY <1>4
    <3>2. /\ work' \in Seq(Values) /\ Len(work') = Len(Contents(v)) + Len(Tail(work))
          /\ \A i \in 1 .. Len(Contents(v)) : work'[i] = Contents(v)[i]
          /\ \A i \in 1 .. Len(Tail(work)) : work'[i + Len(Contents(v))] = Tail(work)[i]
      BY <2>2, <3>1
    <3>3. /\ Len(Contents(v)) \in Nat /\ Len(Tail(work)) \in Nat
          /\ DOMAIN Contents(v) = 1 .. Len(Contents(v)) /\ DOMAIN Tail(work) = 1 .. Len(Tail(work))
          /\ DOMAIN work' = 1 .. Len(Contents(v)) + Len(Tail(work))
      BY <2>2, <3>1, <3>2
    <3>4. ASSUME NEW i \in DOMAIN work' PROVE work'[i] \in new \cup rest
      <4>1. CASE i \in 1 .. Len(Contents(v))
        BY <3>2, <3>3, <4>1
      <4>2. CASE i \notin 1 .. Len(Contents(v))
        <5>1. i - Len(Contents(v)) \in 1 .. Len(Tail(work))
              /\ i = (i - Len(Contents(v))) + Len(Contents(v))
          BY <3>3, <4>2
        <5> QED BY <3>2, <3>3, <5>1
      <4> QED BY <4>1, <4>2
    <3>5. \A i \in DOMAIN Contents(v) : i \in DOMAIN work' /\ work'[i] = Contents(v)[i]
      BY <3>2, <3>3
    <3>6. \A i \in DOMAIN Tail(work) : i + Len(Contents(v)) \in DOMAIN work'
                                       /\ work'[i + Len(Contents(v))] = Tail(work)[i]
      <4> SUFFICES ASSUME NEW i \in 1 .. Len(Tail(work))
                   PROVE  i + Len(Contents(v)) \in DOMAIN work'
        BY <3>2, <3>3
      <4> QED BY <3>3
    <3> QED BY <3>2, <3>4, <3>5, <3>6 DEF Pending
  <2>4. Marked' = Marked \cup (Headers(v) \cap Addrs)
    BY <1>2, <1>9 DEF Marked
  <2>5. heap[v] \in Objects /\ (heap[v].shape # "map" => heap[v].parts = <<>>)
        /\ (heap[v].shape = "map" => heap[v].items = <<>>)
        /\ (heap[v].shape = "string" => heap[v].items = <<>>)
    BY <2>1 DEF Inv, TypeOK, Shaped
  <2>6. /\ Headers(v) \subseteq Reach
        /\ \A w \in new \cap Addrs : w \in Reach /\ heap[w].shape # "entries"
        /\ \A b \in Headers(v) : Edges(b) \subseteq Headers(v) \cup new
    <3>1. CASE heap[v].shape = "string"
      BY <2>1, <2>5, <3>1 DEF Headers, Contents, Edges, Items, Parts
    <3>2. CASE heap[v].shape = "list"
      <4>1. Headers(v) = {v} /\ Contents(v) = heap[v].items
        BY <3>2 DEF Headers, Contents
      <4>2. Edges(v) = Items(v) /\ Items(v) = new \cap Addrs
        BY <2>5, <3>2, <4>1 DEF Edges, Items, Parts
      <4> QED BY <1>6, <2>1, <4>1, <4>2 DEF Closed, Inv, Tidy
    <3>3. CASE heap[v].shape = "map"
      <4> PICK e : e = heap[v].parts[1]
        OBVIOUS
      <4>1. Len(heap[v].parts) = 1 /\ heap[e].shape = "entries" /\ heap[v].parts \in Seq(Addrs)
        BY <2>1, <2>5, <3>3 DEF Inv, Tidy, Objects
      <4>2. heap[v].parts # <<>> /\ DOMAIN heap[v].parts = {1} /\ e \in Addrs
        BY <4>1
      <4>3. Headers(v) = {v, e} /\ Contents(v) = heap[e].items
        BY <3>3, <4>2 DEF Headers, Contents
      <4>4. Edges(v) = {e}
        BY <2>5, <3>3, <4>2 DEF Edges, Items, Parts
      <4>5. heap[e].parts = <<>>
        BY <4>1, <4>2 DEF Inv, Shaped
      <4>6. Edges(e) = Items(e) /\ Items(e) = new \cap Addrs
        BY <4>3, <4>5 DEF Edges, Items, Parts
      <4>7. e \in Reach
        BY <1>6, <2>1, <4>4 DEF Closed
      <4> QED BY <1>6, <2>1, <4>3, <4>4, <4>6, <4>7 DEF Closed, Inv, Tidy
    <3> QED BY <2>1, <3>1, <3>2, <3>3
  <2>7. v \in Headers(v) /\ Pending = {v} \cup rest /\ Headers(v) \subseteq Addrs
    BY <1>4, <1>6, <2>6 DEF Headers
  <2> HIDE DEF rest, new
  <2>8. RootTargets \subseteq Marked' \cup Pending'
    BY <1>6, <2>3, <2>4, <2>7
  <2>9. \A b \in Marked' : Edges(b) \subseteq Marked' \cup Pending'
    BY <1>6, <2>3, <2>4, <2>6, <2>7
  <2>10. Marked' \subseteq Reach
    BY <1>6, <2>4, <2>6
  <2>11. \A w \in Pending' \cap Addrs : w \in Reach /\ heap[w].shape # "entries"
    BY <1>6, <2>3, <2>6, <2>7
  <2>12. MarkOK'
    BY <1>1, <1>5, <1>6, <1>7, <2>8, <2>9, <2>10, <2>11 DEF MarkOK
  <2> QED BY <2>3, <2>12
<1>10. TypeOK'
  <2>1. work' \in Seq(Values) /\ marked' \in [Addrs -> BOOLEAN]
    BY <1>2, <1>8, <1>9 DEF Inv, TypeOK
  <2> QED BY <1>1, <2>1 DEF Inv, TypeOK
<1>11. JobOK'
  <2>1. Protected' = Protected
    BY <1>1 DEF Protected
  <2> QED BY <1>1, <1>5, <2>1 DEF Inv, JobOK
<1>12. NoDangling' /\ ScopesNest' /\ SweepOK' /\ Clear'
  BY <1>1, <1>5 DEF Inv, NoDangling, ScopesNest, SweepOK, Clear
<1> QED BY <1>5, <1>8, <1>9, <1>10, <1>11, <1>12 DEF Inv

LEMMA EndMarkStep == Inv /\ EndMark => Inv'
<1> SUFFICES ASSUME Inv, EndMark PROVE Inv'
  OBVIOUS
<1>1. /\ phase = "mark" /\ work = <<>> /\ phase' = "sweep" /\ unswept' = objects
      /\ UNCHANGED <<objects, heap, local, roots, scopes, bytes, threshold, disableCount,
                     op, dst, made, retrying, marked, work, before>>
  BY DEF EndMark, shadow, job
<1>2. Pending = {}
  BY <1>1 DEF Pending
<1>3. Marked \in SUBSET Addrs /\ Closed(Marked) /\ Marked \subseteq Reach
  BY <1>1, <1>2 DEF Inv, MarkOK, Closed, Marked
<1>4. Reach \subseteq Marked
  BY <1>3 DEF Reach
<1>5. Reach' = Reach /\ RootTargets' = RootTargets /\ Tidy' /\ Shaped'
  BY <1>1, StillStep
<1>6. Marked' = Marked
  BY <1>1 DEF Marked
<1>7. SweepOK'
  BY <1>1, <1>3, <1>4, <1>5, <1>6 DEF Inv, NoDangling, SweepOK
<1>8. TypeOK'
  BY <1>1 DEF Inv, TypeOK, Phases
<1>9. JobOK'
  <2>1. Protected' = Protected
    BY <1>1 DEF Protected
  <2> QED BY <1>1, <1>5, <2>1 DEF Inv, JobOK
<1>10. NoDangling' /\ ScopesNest' /\ MarkOK' /\ Clear'
  BY <1>1, <1>5 DEF Inv, NoDangling, ScopesNest, MarkOK, Clear
<1> QED BY <1>5, <1>7, <1>8, <1>9, <1>10 DEF Inv

LEMMA SweepLiveStep == Inv /\ SweepLive => Inv'
<1> SUFFICES ASSUME Inv, SweepLive PROVE Inv'
  OBVIOUS
<1>1. PICK a \in unswept : /\ marked[a] /\ marked' = [marked EXCEPT ![a] = FALSE]
                           /\ unswept' = unswept \ {a}
  BY DEF SweepLive, Unmark
<1>2. /\ phase = "sweep" /\ phase' = "sweep"
      /\ UNCHANGED <<objects, heap, local, roots, scopes, bytes, threshold, disableCount,
                     op, dst, made, retrying, work, before>>
  BY DEF SweepLive, shadow, job
<1>3. Marked' = Marked \ {a}
  BY <1>1 DEF Inv, TypeOK, Marked
<1>4. Reach' = Reach /\ RootTargets' = RootTargets /\ Tidy' /\ Shaped'
  BY <1>2, StillStep
<1>5. a \in Marked /\ a \in objects
  BY <1>1, <1>2 DEF Inv, TypeOK, Marked, SweepOK
<1>6. SweepOK'
  BY <1>1, <1>2, <1>3, <1>4, <1>5 DEF Inv, SweepOK
<1>7. TypeOK'
  BY <1>1, <1>2 DEF Inv, TypeOK
<1>8. JobOK'
  <2>1. Protected' = Protected
    BY <1>2 DEF Protected
  <2> QED BY <1>2, <1>4, <2>1 DEF Inv, JobOK
<1>9. NoDangling' /\ ScopesNest' /\ MarkOK' /\ Clear'
  BY <1>2, <1>4 DEF Inv, NoDangling, ScopesNest, MarkOK, Clear
<1> QED BY <1>4, <1>6, <1>7, <1>8, <1>9 DEF Inv

LEMMA SweepGarbageStep == Inv /\ SweepGarbage => Inv'
<1> SUFFICES ASSUME Inv, SweepGarbage PROVE Inv'
  OBVIOUS
<1>1. PICK a \in unswept : /\ ~marked[a] /\ objects' = objects \ {a}
                           /\ unswept' = unswept \ {a}
                           /\ bytes' = bytes - Freed(a)
                           /\ heap' = [heap EXCEPT ![a] = Fresh("string")]
  BY DEF SweepGarbage
<1>2. /\ phase = "sweep" /\ phase' = "sweep"
      /\ UNCHANGED <<local, roots, scopes, threshold, disableCount,
                     op, dst, made, retrying, marked, work, before>>
  BY DEF SweepGarbage, shadow, job
<1>3. a \in Addrs /\ a \notin Reach /\ Reach \subseteq Addrs /\ Closed(Reach)
  BY <1>1, <1>2, ReachClosed DEF Inv, TypeOK, SweepOK, Marked, Reach
<1>4. /\ heap'[a] = Fresh("string") /\ Fresh("string") \in Objects
      /\ \A b \in Addrs \ {a} : heap'[b] = heap[b]
  BY <1>1, <1>3 DEF Inv, TypeOK, Fresh, Objects, Shapes
<1>5. Reach' = Reach
  BY <1>2, <1>3, <1>4, ReachKept DEF Inv
<1>6. RootTargets' = RootTargets /\ RootTargets \subseteq Reach
  BY <1>2, <1>3 DEF RootTargets, Protected, Closed
<1>7. Marked' = Marked
  BY <1>2 DEF Marked
<1>8. SweepOK'
  BY <1>1, <1>2, <1>3, <1>5, <1>7 DEF Inv, SweepOK, Marked
<1>9. TypeOK'
  <2>1. Freed(a) \in Nat
    <3>1. heap[a] \in Objects
      BY <1>3 DEF Inv, TypeOK
    <3> QED BY <3>1, GCAssumption DEF Freed, Objects
  <2>2. bytes' \in Int
    BY <1>1, <2>1 DEF Inv, TypeOK
  <2>3. heap' \in [Addrs -> Objects]
    BY <1>1, <1>4 DEF Inv, TypeOK
  <2> QED BY <1>1, <1>2, <2>2, <2>3 DEF Inv, TypeOK
<1>10. Tidy'
  <2>1. \A v \in Reach : heap'[v] = heap[v]
    BY <1>3, <1>4
  <2>2. \A b \in Reach : Items(b)' = Items(b) /\ Items(b) \subseteq Reach
    BY <1>3, <2>1 DEF Items, Edges, Closed
  <2>3. ASSUME NEW b \in Reach, heap[b].shape = "map"
        PROVE  Len(heap[b].parts) = 1 /\ heap[b].parts[1] \in Reach
    <3>1. Len(heap[b].parts) = 1 /\ heap[b].parts \in Seq(Addrs)
      BY <1>3, <2>3 DEF Inv, Tidy, TypeOK, Objects
    <3>2. heap[b].parts[1] \in Edges(b)
      BY <3>1 DEF Edges, Parts
    <3> QED BY <1>3, <3>1, <3>2 DEF Closed
  <2> QED BY <1>5, <1>6, <2>1, <2>2, <2>3 DEF Inv, Tidy
<1>11. Shaped'
  BY <1>4 DEF Inv, Shaped, Fresh
<1>12. JobOK'
  <2>1. made = <<>>
    BY <1>2 DEF Inv, JobOK
  <2>2. op = "grow" => local[dst] \in RootTargets
    BY <1>2 DEF Inv, JobOK, RootTargets
  <2>3. \A v \in RootTargets : heap'[v] = heap[v]
    BY <1>3, <1>4, <1>6
  <2>4. Protected' = Protected
    BY <1>2 DEF Protected
  <2> QED BY <1>2, <2>1, <2>2, <2>3, <2>4 DEF Inv, JobOK
<1>13. NoDangling' /\ ScopesNest' /\ MarkOK' /\ Clear'
  BY <1>1, <1>2, <1>3, <1>5 DEF Inv, NoDangling, ScopesNest, MarkOK, Clear
<1> QED BY <1>8, <1>9, <1>10, <1>11, <1>12, <1>13 DEF Inv

LEMMA EndSweepStep == Inv /\ EndSweep => Inv'
<1> SUFFICES ASSUME Inv, EndSweep PROVE Inv'
  OBVIOUS
<1>1. /\ phase = "sweep" /\ unswept = {} /\ before' = 0
      /\ threshold' = IF before - bytes < threshold \div 4
                      THEN (2 * threshold) % SizeRange ELSE threshold
      /\ phase' = IF op = "none" THEN "run" ELSE "malloc"
      /\ UNCHANGED <<objects, heap, local, roots, scopes, bytes, disableCount,
                     op, dst, made, retrying, marked, work, unswept>>
  BY DEF EndSweep, shadow, job
<1>2. Reach' = Reach /\ RootTargets' = RootTargets /\ Tidy' /\ Shaped'
  BY <1>1, StillStep
<1>3. Marked' = {}
  BY <1>1 DEF Inv, SweepOK, Marked
<1>4. TypeOK'
  <2>1. threshold' \in Nat
    BY <1>1, GCAssumption DEF Inv, TypeOK
  <2> QED BY <1>1, <2>1 DEF Inv, TypeOK, Phases
<1>5. JobOK'
  <2>1. Protected' = Protected
    BY <1>1 DEF Protected
  <2> QED BY <1>1, <1>2, <2>1 DEF Inv, JobOK
<1>6. NoDangling' /\ ScopesNest' /\ MarkOK' /\ SweepOK' /\ Clear'
  BY <1>1, <1>2, <1>3 DEF Inv, NoDangling, ScopesNest, MarkOK, SweepOK, Clear
<1> QED BY <1>2, <1>4, <1>5, <1>6 DEF Inv
-----------------------------------------------------------------------------
(* Allocation.                                                             *)

LEMMA RecordType ==
  ASSUME NEW shape \in Shapes, NEW items \in Seq(Values), NEW parts \in Seq(Addrs)
  PROVE  [shape |-> shape, items |-> items, parts |-> parts] \in Objects
BY DEF Objects

\* A block of no interest to the collector yet: its address was free.
LEMMA FreshAddress ==
  ASSUME Inv, NEW a, NEW shape, Allocated(a, shape)
  PROVE  /\ a \in Addrs /\ a \notin objects /\ a \notin Reach
         /\ phase = "malloc" /\ op # "none" /\ dst \in Locals /\ dst \in Protected
         /\ Marked = {} /\ Marked' = {} /\ marked' \in [Addrs -> BOOLEAN]
         /\ objects' = objects \cup {a} /\ roots' = roots /\ scopes' = scopes
<1>1. /\ phase = "malloc" /\ a \in Addrs \ objects /\ marked' = [marked EXCEPT ![a] = FALSE]
      /\ objects' = objects \cup {a} /\ roots' = roots /\ scopes' = scopes
  BY DEF Allocated
<1>2. a \notin Reach /\ Marked = {}
  BY <1>1 DEF Inv, NoDangling, Clear
<1>3. Marked' = {} /\ marked' \in [Addrs -> BOOLEAN]
  BY <1>1, <1>2 DEF Inv, TypeOK, Marked
<1>4. op # "none" /\ dst \in Locals /\ dst \in Protected
  BY <1>1 DEF Inv, JobOK
<1> QED BY <1>1, <1>2, <1>3, <1>4

\* The operation has returned value v.
LEMMA ReturnStep ==
  ASSUME Inv, NEW a, NEW shape \in Shapes, Allocated(a, shape), NEW v \in Values, Result(v),
         NEW N \in SUBSET (objects \cup {a}),
         Reach' \subseteq Reach \cup N, Tidy', Shaped', heap' \in [Addrs -> Objects]
  PROVE  Inv'
<1>1. /\ a \in Addrs /\ a \notin objects /\ a \notin Reach /\ dst \in Locals
      /\ Marked' = {} /\ marked' \in [Addrs -> BOOLEAN]
      /\ objects' = objects \cup {a} /\ roots' = roots /\ scopes' = scopes
  BY FreshAddress
<1>2. /\ local' = [local EXCEPT ![dst] = v]
      /\ phase' = "run" /\ op' = "none" /\ dst' = Nil /\ made' = <<>>
      /\ UNCHANGED <<work, before>>
  BY DEF Result
<1>3. /\ bytes' = bytes + Size[shape] /\ retrying' = FALSE
      /\ UNCHANGED <<threshold, disableCount, unswept>>
  BY DEF Allocated
<1>4. TypeOK'
  <2>1. bytes' \in Int
    BY <1>3, GCAssumption DEF Inv, TypeOK
  <2>2. local' \in [Locals -> Values]
    BY <1>1, <1>2 DEF Inv, TypeOK
  <2>3. objects' \subseteq Addrs /\ roots' \in Seq(Locals) /\ scopes' \in Seq(Nat)
    BY <1>1 DEF Inv, TypeOK
  <2>4. phase' \in Phases /\ op' \in Operations \cup {"none"} /\ dst' \in Locals \cup {Nil}
        /\ made' \in Seq(Addrs) /\ work' \in Seq(Values) /\ before' \in Int
    BY <1>2 DEF Inv, TypeOK, Phases
  <2>5. /\ unswept' \subseteq Addrs /\ threshold' \in Nat
        /\ disableCount' \in Nat /\ retrying' \in BOOLEAN
    BY <1>3 DEF Inv, TypeOK
  <2> QED BY <1>1, <2>1, <2>2, <2>3, <2>4, <2>5 DEF TypeOK
<1>5. ScopesNest' /\ NoDangling'
  BY <1>1 DEF Inv, ScopesNest, NoDangling
<1>6. JobOK' /\ MarkOK' /\ SweepOK' /\ Clear'
  BY <1>1, <1>2 DEF JobOK, MarkOK, SweepOK, Clear
<1> QED BY <1>4, <1>5, <1>6 DEF Inv

\* The roots after the operation: what they were, and its result.
LEMMA ResultRoots ==
  ASSUME Inv, NEW v \in Values, Result(v), dst \in Locals, roots' = roots
  PROVE  RootTargets' \subseteq RootTargets \cup {v}
<1> SUFFICES ASSUME NEW w \in RootTargets' PROVE w \in RootTargets \cup {v}
  OBVIOUS
<1>1. local' = [local EXCEPT ![dst] = v] /\ Protected' = Protected
  BY DEF Result, Protected
<1>2. PICK x \in Protected : w = local'[x] /\ w \in Addrs
  BY <1>1 DEF RootTargets
<1>3. x \in Locals
  BY ProtectedType DEF Inv
<1>4. w = v \/ w = local[x]
  BY <1>1, <1>2, <1>3 DEF Inv, TypeOK
<1> QED BY <1>2, <1>4 DEF RootTargets

\* A new string, or a new list of values the program has.
LEMMA NewObject ==
  ASSUME Inv, NEW a \in Addrs, a \notin Reach, NEW shape \in {"string", "list"},
         NEW items \in Seq(Values), shape = "string" => items = <<>>,
         \A i \in DOMAIN items :
           items[i] \in Addrs => items[i] \in Reach /\ heap[items[i]].shape # "entries",
         heap' = [heap EXCEPT ![a] = [shape |-> shape, items |-> items, parts |-> <<>>]],
         RootTargets' \subseteq RootTargets \cup {a}
  PROVE  Reach' \subseteq Reach \cup {a} /\ Tidy' /\ Shaped' /\ heap' \in [Addrs -> Objects]
<1>1. /\ heap'[a] = [shape |-> shape, items |-> items, parts |-> <<>>]
      /\ \A b \in Addrs \ {a} : heap'[b] = heap[b]
  BY DEF Inv, TypeOK
<1>2. Reach \in SUBSET Addrs /\ Closed(Reach) /\ {a} \in SUBSET Addrs
  BY ReachClosed DEF Inv, Reach
<1>3. \A b \in Reach : heap'[b] = heap[b]
  BY <1>1, <1>2
<1>4. Parts(a)' = {} /\ \A v \in Items(a)' : v \in Reach /\ heap[v].shape # "entries"
  BY <1>1 DEF Parts, Items
<1>5. \A b \in Reach : Items(b)' = Items(b) /\ Edges(b)' = Edges(b)
  BY <1>3 DEF Edges, Items, Parts
<1>6. Reach' \subseteq Reach \cup {a}
  <2>1. RootTargets' \subseteq Reach \cup {a}
    BY <1>2 DEF Closed
  <2>2. \A b \in Reach \cup {a} : Edges(b)' \subseteq Reach \cup {a}
    BY <1>2, <1>4, <1>5 DEF Closed, Edges
  <2>3. Reach \cup {a} \in SUBSET Addrs
    BY <1>2
  <2> QED BY <2>1, <2>2, <2>3 DEF Reach, Closed
<1>7. \A v \in Reach \cup {a} : v \in Reach => heap'[v].shape = heap[v].shape
  BY <1>3
<1>8. \A v \in Reach : heap[v].shape # "entries" => heap'[v].shape # "entries"
  BY <1>3
<1>9. Tidy'
  <2>1. ASSUME NEW v \in RootTargets' PROVE heap'[v].shape # "entries"
    <3>1. CASE v = a
      BY <1>1, <3>1
    <3>2. CASE v # a
      BY <1>2, <1>8, <3>2 DEF Inv, Tidy, Closed
    <3> QED BY <3>1, <3>2
  <2>2. ASSUME NEW b \in Reach \cup {a}, NEW v \in Items(b)' PROVE heap'[v].shape # "entries"
    <3>1. CASE b \in Reach
      <4>1. v \in Items(b) /\ v \in Reach
        BY <1>2, <1>5, <3>1 DEF Closed, Edges
      <4> QED BY <1>8, <3>1, <4>1 DEF Inv, Tidy
    <3>2. CASE b = a
      BY <1>4, <1>8, <3>2
    <3> QED BY <3>1, <3>2
  <2>3. ASSUME NEW b \in Reach \cup {a}, heap'[b].shape = "map"
        PROVE  Len(heap'[b].parts) = 1 /\ heap'[heap'[b].parts[1]].shape = "entries"
    <3>1. b \in Reach /\ heap'[b] = heap[b]
      BY <1>1, <1>3, <2>3
    <3>2. Len(heap[b].parts) = 1 /\ heap[heap[b].parts[1]].shape = "entries"
          /\ heap[b].parts \in Seq(Addrs)
      BY <1>2, <2>3, <3>1 DEF Inv, Tidy, TypeOK, Objects
    <3>3. heap[b].parts[1] \in Edges(b)
      BY <3>2 DEF Edges, Parts
    <3>4. heap[b].parts[1] \in Reach
      BY <1>2, <3>1, <3>3 DEF Closed
    <3> QED BY <1>3, <3>1, <3>2, <3>4
  <2> QED BY <1>6, <2>1, <2>2, <2>3 DEF Tidy
<1>10. Shaped'
  BY <1>1 DEF Inv, Shaped
<1>11. heap' \in [Addrs -> Objects]
  <2>1. shape \in Shapes /\ <<>> \in Seq(Addrs)
    BY DEF Shapes
  <2>2. [shape |-> shape, items |-> items, parts |-> <<>>] \in Objects
    BY <2>1, RecordType
  <2> QED BY <1>1, <2>2 DEF Inv, TypeOK
<1> QED BY <1>6, <1>9, <1>10, <1>11

LEMMA MakeOneStep == Inv /\ MakeOne => Inv'
<1> SUFFICES ASSUME Inv, MakeOne PROVE Inv'
  OBVIOUS
<1>1. PICK a \in Addrs, shape \in {"string", "list"} :
        /\ Allocated(a, shape) /\ heap' = [heap EXCEPT ![a] = Fresh(shape)] /\ Result(a)
  BY DEF MakeOne
<1>2. a \notin Reach /\ dst \in Locals /\ roots' = roots /\ shape \in Shapes /\ a \in Values
  BY <1>1, FreshAddress DEF Shapes, Values
<1>3. RootTargets' \subseteq RootTargets \cup {a}
  BY <1>1, <1>2, ResultRoots
<1> PICK items : items = <<>>
  OBVIOUS
<1>4. /\ items \in Seq(Values)
      /\ \A i \in DOMAIN items :
           items[i] \in Addrs => items[i] \in Reach /\ heap[items[i]].shape # "entries"
      /\ heap' = [heap EXCEPT ![a] = [shape |-> shape, items |-> items, parts |-> <<>>]]
  BY <1>1 DEF Fresh
<1>5. Reach' \subseteq Reach \cup {a} /\ Tidy' /\ Shaped' /\ heap' \in [Addrs -> Objects]
  BY <1>2, <1>3, <1>4, NewObject
<1>6. {a} \in SUBSET (objects \cup {a})
  OBVIOUS
<1> QED BY <1>1, <1>2, <1>5, <1>6, ReturnStep

LEMMA GrowListStep == Inv /\ GrowList => Inv'
<1> SUFFICES ASSUME Inv, GrowList PROVE Inv'
  OBVIOUS
<1> PICK l : l = local[dst]
  OBVIOUS
<1>1. PICK a \in Addrs :
        /\ Allocated(a, "list") /\ Result(a)
        /\ heap' = [heap EXCEPT ![a] = [Fresh("list") EXCEPT !.items = heap[l].items]]
  BY DEF GrowList
<1>2. /\ a \notin Reach /\ dst \in Locals /\ dst \in Protected /\ roots' = roots
      /\ "list" \in Shapes /\ a \in Values /\ phase = "malloc"
  BY <1>1, FreshAddress DEF Shapes, Values
<1>3. RootTargets' \subseteq RootTargets \cup {a}
  BY <1>1, <1>2, ResultRoots
<1>4. l \in Reach
  <2>1. op = "grow" /\ l \in Addrs
    BY <1>2 DEF GrowList, Inv, JobOK
  <2>2. l \in RootTargets
    BY <1>2, <2>1 DEF RootTargets
  <2> QED BY <2>2, ReachClosed DEF Inv, Closed
<1> PICK items : items = heap[l].items
  OBVIOUS
<1>5. /\ items \in Seq(Values)
      /\ \A i \in DOMAIN items :
           items[i] \in Addrs => items[i] \in Reach /\ heap[items[i]].shape # "entries"
  <2>1. heap[l] \in Objects
    BY <1>4 DEF Inv, TypeOK, Reach
  <2>2. \A i \in DOMAIN items : items[i] \in Addrs => items[i] \in Items(l) /\ items[i] \in Edges(l)
    BY DEF Items, Edges
  <2> QED BY <1>4, <2>1, <2>2, ReachClosed DEF Inv, Tidy, Closed, Objects
<1>6. heap' = [heap EXCEPT ![a] = [shape |-> "list", items |-> items, parts |-> <<>>]]
  <2>1. [Fresh("list") EXCEPT !.items = items]
          = [shape |-> "list", items |-> items, parts |-> <<>>]
    BY DEF Fresh
  <2> QED BY <1>1, <2>1
<1>7. Reach' \subseteq Reach \cup {a} /\ Tidy' /\ Shaped' /\ heap' \in [Addrs -> Objects]
  BY <1>2, <1>3, <1>5, <1>6, NewObject
<1>8. {a} \in SUBSET (objects \cup {a})
  OBVIOUS
<1> QED BY <1>1, <1>2, <1>7, <1>8, ReturnStep

\* A new entries array a of a map m.
LEMMA NewEntries ==
  ASSUME Inv, NEW a \in Addrs, a \notin Reach, NEW m \in Addrs, m # a,
         heap[m].shape = "map",
         NEW items \in Seq(Values),
         \A i \in DOMAIN items :
           items[i] \in Addrs => items[i] \in Reach /\ heap[items[i]].shape # "entries",
         heap'[a] = [shape |-> "entries", items |-> items, parts |-> <<>>],
         heap'[m] = [shape |-> "map", items |-> <<>>, parts |-> <<a>>],
         \A b \in Addrs \ {a, m} : heap'[b] = heap[b],
         heap' \in [Addrs -> Objects],
         RootTargets' \subseteq RootTargets \cup {m}
  PROVE  Reach' \subseteq Reach \cup {a, m} /\ Tidy' /\ Shaped'
<1> PICK N : N = Reach \cup {a, m}
  OBVIOUS
<1>1. Reach \in SUBSET Addrs /\ Closed(Reach) /\ N \in SUBSET Addrs
  BY ReachClosed DEF Inv, Reach
<1>2. Parts(a)' = {} /\ Items(m)' = {} /\ Parts(m)' = {a}
      /\ \A v \in Items(a)' : v \in Reach /\ heap[v].shape # "entries"
  BY DEF Parts, Items
<1>3. \A b \in Reach \ {m} : heap'[b] = heap[b]
                             /\ Items(b)' = Items(b) /\ Edges(b)' = Edges(b)
  BY <1>1 DEF Edges, Items, Parts
<1>4. \A v \in Reach : heap'[v].shape = heap[v].shape
  BY <1>3
<1>5. Reach' \subseteq N
  <2>1. RootTargets' \subseteq N
    BY <1>1 DEF Closed
  <2>2. \A b \in N : Edges(b)' \subseteq N
    BY <1>1, <1>2, <1>3 DEF Closed, Edges
  <2> QED BY <1>1, <2>1, <2>2 DEF Reach, Closed
<1>6. Tidy'
  <2>1. ASSUME NEW v \in RootTargets' PROVE heap'[v].shape # "entries"
    <3>1. CASE v = m
      BY <3>1
    <3>2. CASE v # m
      BY <1>1, <1>4, <3>2 DEF Inv, Tidy, Closed
    <3> QED BY <3>1, <3>2
  <2>2. ASSUME NEW b \in N, NEW v \in Items(b)' PROVE heap'[v].shape # "entries"
    <3>1. CASE b \in Reach \ {m}
      <4>1. v \in Items(b) /\ v \in Reach
        BY <1>1, <1>3, <3>1 DEF Closed, Edges
      <4> QED BY <1>4, <3>1, <4>1 DEF Inv, Tidy
    <3>2. CASE b \in {a, m}
      BY <1>2, <1>4, <3>2
    <3> QED BY <3>1, <3>2
  <2>3. ASSUME NEW b \in N, heap'[b].shape = "map"
        PROVE  Len(heap'[b].parts) = 1 /\ heap'[heap'[b].parts[1]].shape = "entries"
    <3>1. CASE b \in Reach \ {m}
      <4>1. heap'[b] = heap[b]
        BY <1>3, <3>1
      <4>2. Len(heap[b].parts) = 1 /\ heap[heap[b].parts[1]].shape = "entries"
            /\ heap[b].parts \in Seq(Addrs)
        BY <1>1, <2>3, <3>1, <4>1 DEF Inv, Tidy, TypeOK, Objects
      <4>3. heap[b].parts[1] \in Edges(b)
        BY <4>2 DEF Edges, Parts
      <4>4. heap[b].parts[1] \in Reach
        BY <1>1, <3>1, <4>3 DEF Closed
      <4> QED BY <1>4, <4>1, <4>2, <4>4
    <3>2. CASE b = m
      BY <3>2
    <3> QED BY <2>3, <3>1, <3>2
  <2> QED BY <1>5, <2>1, <2>2, <2>3 DEF Tidy
<1>7. Shaped'
  BY DEF Inv, Shaped
<1> QED BY <1>5, <1>6, <1>7

LEMMA FirstReplaced ==
  ASSUME NEW S, NEW a \in S, NEW s \in Seq(S), Len(s) = 1
  PROVE  <<a>> \o Tail(s) = <<a>>
<1>1. s # <<>>
  BY EmptySeq
<1>2. Tail(s) \in Seq(S) /\ Len(Tail(s)) = 0
  BY <1>1, HeadTailProperties
<1>3. Tail(s) = <<>>
  BY <1>2, EmptySeq
<1>4. <<a>> \in Seq(S)
  OBVIOUS
<1> QED BY <1>3, <1>4, ConcatEmptySeq

LEMMA GrowMapStep == Inv /\ GrowMap => Inv'
<1> SUFFICES ASSUME Inv, GrowMap PROVE Inv'
  OBVIOUS
<1> PICK m : m = local[dst]
  OBVIOUS
<1>1. PICK a \in Addrs :
        /\ op = "grow" /\ heap[m].shape = "map" /\ Allocated(a, "entries") /\ Result(m)
        /\ heap' = [heap EXCEPT ![a] = [Fresh("entries") EXCEPT !.items = Contents(m)],
                                ![m].parts = <<a>> \o Tail(@)]
  BY DEF GrowMap
<1>2. /\ a \notin Reach /\ a \notin objects /\ dst \in Locals /\ dst \in Protected
      /\ roots' = roots /\ "entries" \in Shapes /\ phase = "malloc"
  BY <1>1, FreshAddress DEF Shapes
<1>3. m \in Addrs /\ m \in RootTargets /\ m \in Reach /\ m # a /\ m \in Values
  <2>1. m \in Addrs
    BY <1>1, <1>2 DEF Inv, JobOK
  <2>2. m \in RootTargets
    BY <1>2, <2>1 DEF RootTargets
  <2>3. m \in Reach
    BY <2>2, ReachClosed DEF Inv, Closed
  <2> QED BY <1>2, <2>1, <2>2, <2>3 DEF Values
<1>4. RootTargets' \subseteq RootTargets \cup {m}
  BY <1>1, <1>2, <1>3, ResultRoots
<1> PICK items : items = Contents(m)
  OBVIOUS
<1>5. /\ items \in Seq(Values)
      /\ \A i \in DOMAIN items :
           items[i] \in Addrs => items[i] \in Reach /\ heap[items[i]].shape # "entries"
  <2>1. items \in Seq(Values)
    BY <1>3, ContentsType DEF Inv
  <2>2. Storage(m) \in Reach /\ items = heap[Storage(m)].items
    BY <1>1, <1>3, ContentsReached DEF Inv
  <2>3. \A i \in DOMAIN items : items[i] \in Addrs =>
          items[i] \in Items(Storage(m)) /\ items[i] \in Edges(Storage(m))
    BY <2>2 DEF Items, Edges
  <2> QED BY <2>1, <2>2, <2>3, ReachClosed DEF Inv, Tidy, Closed
<1> PICK entries : entries = [shape |-> "entries", items |-> items, parts |-> <<>>]
  OBVIOUS
<1> PICK map : map = [shape |-> "map", items |-> <<>>, parts |-> <<a>>]
  OBVIOUS
<1>6. entries \in Objects /\ map \in Objects
  <2>1. "entries" \in Shapes /\ "map" \in Shapes
    BY DEF Shapes
  <2>2. <<>> \in Seq(Addrs) /\ <<a>> \in Seq(Addrs) /\ <<>> \in Seq(Values)
    OBVIOUS
  <2> QED BY <1>5, <2>1, <2>2, RecordType
<1>7. heap[m] = [shape |-> "map", items |-> <<>>, parts |-> heap[m].parts]
      /\ <<a>> \o Tail(heap[m].parts) = <<a>>
  <2>1. heap[m] \in Objects /\ heap[m].items = <<>> /\ Len(heap[m].parts) = 1
    BY <1>1, <1>3 DEF Inv, TypeOK, Shaped, Tidy
  <2>2. heap[m].parts \in Seq(Addrs)
    BY <2>1 DEF Objects
  <2>5. <<a>> \o Tail(heap[m].parts) = <<a>>
    BY <2>1, <2>2, FirstReplaced
  <2>6. heap[m] = [shape |-> "map", items |-> <<>>, parts |-> heap[m].parts]
    BY <1>1, <2>1 DEF Objects
  <2> QED BY <2>5, <2>6
<1>8. heap' = [heap EXCEPT ![a] = entries, ![m] = map]
  <2>1. [Fresh("entries") EXCEPT !.items = items] = entries
    BY DEF Fresh
  <2>2. [heap[m] EXCEPT !.parts = <<a>>] = map
    BY <1>7
  <2>3. heap' = [heap EXCEPT ![a] = entries, ![m].parts = <<a>> \o Tail(@)]
    BY <1>1, <2>1
  <2>4. heap' = [heap EXCEPT ![a] = entries, ![m] = [heap[m] EXCEPT !.parts = <<a>>]]
    BY <1>3, <1>7, <2>3 DEF Inv, TypeOK
  <2> QED BY <2>2, <2>4
<1>9. /\ heap'[a] = entries /\ heap'[m] = map /\ heap' \in [Addrs -> Objects]
      /\ \A b \in Addrs \ {a, m} : heap'[b] = heap[b]
  BY <1>3, <1>6, <1>8 DEF Inv, TypeOK
<1>10. Reach' \subseteq Reach \cup {a, m} /\ Tidy' /\ Shaped'
  BY <1>1, <1>2, <1>3, <1>4, <1>5, <1>9, NewEntries
<1>11. {a, m} \in SUBSET (objects \cup {a})
  BY <1>3 DEF Inv, NoDangling
<1> QED BY <1>1, <1>2, <1>3, <1>9, <1>10, <1>11, ReturnStep

\* make_map: a map that nothing refers to, then its entries.
LEMMA MakeMapPartStep == Inv /\ MakeMapPart => Inv'
<1> SUFFICES ASSUME Inv, MakeMapPart PROVE Inv'
  OBVIOUS
<1>1. PICK a \in Addrs :
        /\ op \in {"map", "varmap"}
        /\ Allocated(a, Allocates(op)[Len(made) + 1])
        /\ heap' = HeapWith(a)
        /\ IF Len(made) + 1 = Len(Allocates(op))
           THEN Result(made[1])
           ELSE /\ made' = Append(made, a)
                /\ EnterAllocate(bytes')
                /\ UNCHANGED <<local, op, dst>>
  BY DEF MakeMapPart
<1>2. op = "map" /\ phase = "malloc" /\ disableCount > 0 /\ disableCount \in Nat
  BY <1>1 DEF Allocated, Inv, JobOK, TypeOK
<1>3. /\ Len(Allocates(op)) = 2
      /\ Allocates(op)[1] = "map" /\ Allocates(op)[2] = "entries"
  BY <1>2 DEF Allocates
<1>4. made \in Seq(Addrs)
  BY DEF Inv, TypeOK
<1>5. CASE made = <<>>
  <2>1. Len(made) = 0 /\ Len(made) + 1 = 1 /\ made' = <<a>>
    BY <1>1, <1>3, <1>5
  <2>2. /\ Allocated(a, "map") /\ "map" \in Shapes
        /\ heap' = [heap EXCEPT ![a] = Fresh("map")]
        /\ EnterAllocate(bytes') /\ UNCHANGED <<local, op, dst>>
    <3>1. Allocates(op)[Len(made) + 1] = "map"
      BY <1>3, <2>1
    <3> QED BY <1>1, <1>3, <2>1, <3>1 DEF HeapWith, Shapes
  <2>3. /\ a \notin Reach /\ a \notin objects /\ dst \in Locals /\ dst \in Protected
        /\ Marked' = {} /\ marked' \in [Addrs -> BOOLEAN]
        /\ objects' = objects \cup {a} /\ roots' = roots /\ scopes' = scopes
    BY <2>2, FreshAddress
  <2>4. /\ bytes' = bytes + Size["map"] /\ retrying' = FALSE
        /\ UNCHANGED <<threshold, disableCount, unswept>>
    BY <2>2 DEF Allocated
  <2>5. phase' = "malloc" /\ UNCHANGED <<work, before>>
    BY <1>2, <2>2 DEF EnterAllocate
  <2>6. /\ heap'[a] = Fresh("map") /\ heap' \in [Addrs -> Objects]
        /\ \A b \in Addrs \ {a} : heap'[b] = heap[b]
    <3>1. <<>> \in Seq(Values) /\ <<>> \in Seq(Addrs)
      OBVIOUS
    <3>2. Fresh("map") \in Objects
      BY <2>2, <3>1, RecordType DEF Fresh
    <3> QED BY <2>2, <3>2 DEF Inv, TypeOK
  <2>7. Reach \subseteq Addrs /\ Closed(Reach)
    BY ReachClosed DEF Inv, Reach
  <2>8. Reach' = Reach
    BY <2>2, <2>3, <2>6, <2>7, ReachKept DEF Inv
  <2>9. RootTargets' = RootTargets /\ Protected' = Protected
    BY <2>2, <2>3 DEF RootTargets, Protected
  <2>10. Tidy'
    <3>1. \A b \in Reach : heap'[b] = heap[b] /\ Items(b)' = Items(b) /\ Items(b) \subseteq Reach
      BY <2>3, <2>6, <2>7 DEF Items, Edges, Closed
    <3>2. RootTargets \subseteq Reach
      BY <2>7 DEF Closed
    <3>3. ASSUME NEW b \in Reach, heap[b].shape = "map"
          PROVE  Len(heap[b].parts) = 1 /\ heap[b].parts[1] \in Reach
      <4>1. Len(heap[b].parts) = 1 /\ heap[b].parts \in Seq(Addrs)
        BY <2>7, <3>3 DEF Inv, Tidy, TypeOK, Objects
      <4>2. heap[b].parts[1] \in Edges(b)
        BY <4>1 DEF Edges, Parts
      <4> QED BY <2>7, <4>1, <4>2 DEF Closed
    <3> QED BY <2>8, <2>9, <3>1, <3>2, <3>3 DEF Inv, Tidy
  <2>11. Shaped'
    BY <2>6 DEF Inv, Shaped, Fresh
  <2>12. JobOK'
    <3>1. made'[1] = a /\ Len(made') = 1 /\ made' # <<>>
      BY <2>1
    <3> QED BY <1>2, <2>2, <2>3, <2>4, <2>5, <2>6, <2>8, <2>9, <3>1 DEF JobOK
  <2>13. TypeOK'
    <3>1. bytes' \in Int
      BY <2>2, <2>4, GCAssumption DEF Inv, TypeOK
    <3>2. objects' \subseteq Addrs /\ roots' \in Seq(Locals) /\ scopes' \in Seq(Nat)
      BY <2>3 DEF Inv, TypeOK
    <3>3. phase' \in Phases /\ made' \in Seq(Addrs)
      BY <2>1, <2>5 DEF Phases
    <3>4. /\ op' \in Operations \cup {"none"} /\ dst' \in Locals \cup {Nil}
          /\ local' \in [Locals -> Values] /\ work' \in Seq(Values) /\ before' \in Int
      BY <2>2, <2>5 DEF Inv, TypeOK
    <3>5. /\ unswept' \subseteq Addrs /\ threshold' \in Nat
          /\ disableCount' \in Nat /\ retrying' \in BOOLEAN
      BY <2>4 DEF Inv, TypeOK
    <3> QED BY <2>3, <2>6, <3>1, <3>2, <3>3, <3>4, <3>5 DEF TypeOK
  <2>14. NoDangling' /\ ScopesNest' /\ MarkOK' /\ SweepOK' /\ Clear'
    BY <2>3, <2>5, <2>8 DEF Inv, NoDangling, ScopesNest, MarkOK, SweepOK, Clear
  <2> QED BY <2>10, <2>11, <2>12, <2>13, <2>14 DEF Inv
<1>6. CASE made # <<>>
  <2> PICK m : m = made[1]
    OBVIOUS
  <2>1. Len(made) = 1 /\ m \in objects /\ m \notin Reach /\ heap[m] = Fresh("map")
    BY <1>6 DEF Inv, JobOK
  <2>2. Allocated(a, "entries") /\ Result(m) /\ heap' = HeapWith(a) /\ "entries" \in Shapes
        /\ heap' = Link([heap EXCEPT ![a] = Fresh("entries")], a, m)
    <3>1. Allocates(op)[Len(made) + 1] = "entries" /\ Len(made) + 1 = Len(Allocates(op))
      BY <1>3, <2>1
    <3> QED BY <1>1, <3>1 DEF HeapWith, Shapes
  <2>3. /\ a \notin Reach /\ a \notin objects /\ dst \in Locals /\ roots' = roots
    BY <2>2, FreshAddress
  <2>4. m \in Addrs /\ m # a /\ m \in Values
    BY <2>1, <2>3 DEF Inv, TypeOK, Values
  <2>5. RootTargets' \subseteq RootTargets \cup {m}
    BY <2>2, <2>3, <2>4, ResultRoots
  <2> PICK items : items = <<>>
    OBVIOUS
  <2> PICK map : map = [shape |-> "map", items |-> <<>>, parts |-> <<a>>]
    OBVIOUS
  <2>6. items \in Seq(Values) /\ \A i \in DOMAIN items :
           items[i] \in Addrs => items[i] \in Reach /\ heap[items[i]].shape # "entries"
    OBVIOUS
  <2>7. Fresh("entries") \in Objects /\ map \in Objects
    <3>1. "map" \in Shapes /\ <<>> \in Seq(Addrs) /\ <<a>> \in Seq(Addrs) /\ <<>> \in Seq(Values)
      BY DEF Shapes
    <3>2. map \in Objects
      BY <3>1, RecordType
    <3> QED BY <2>2, <3>1, <3>2, RecordType DEF Fresh
  <2>8. heap' = [heap EXCEPT ![a] = Fresh("entries"), ![m] = map]
    <3>1. heap' = [heap EXCEPT ![a] = Fresh("entries"),
                               ![m] = [Fresh("map") EXCEPT !.parts = Append(@, a)]]
      BY <2>1, <2>2, <2>4 DEF Inv, TypeOK, Link
    <3>2. [Fresh("map") EXCEPT !.parts = Append(@, a)] = map
      BY DEF Fresh
    <3> QED BY <3>1, <3>2
  <2>9. /\ heap'[a] = Fresh("entries") /\ heap'[m] = map /\ heap' \in [Addrs -> Objects]
        /\ \A b \in Addrs \ {a, m} : heap'[b] = heap[b]
    BY <2>4, <2>7, <2>8 DEF Inv, TypeOK
  <2>10. heap[m].shape = "map"
    BY <2>1 DEF Fresh
  <2>11. heap'[a] = [shape |-> "entries", items |-> items, parts |-> <<>>]
    BY <2>9 DEF Fresh
  <2>12. Reach' \subseteq Reach \cup {a, m} /\ Tidy' /\ Shaped'
    <3>1. /\ heap'[m] = [shape |-> "map", items |-> <<>>, parts |-> <<a>>]
          /\ heap' \in [Addrs -> Objects] /\ \A b \in Addrs \ {a, m} : heap'[b] = heap[b]
      BY <2>9
    <3>2. \E it \in Seq(Values) :
            /\ \A i \in DOMAIN it :
                 it[i] \in Addrs => it[i] \in Reach /\ heap[it[i]].shape # "entries"
            /\ heap'[a] = [shape |-> "entries", items |-> it, parts |-> <<>>]
      BY <2>6, <2>11
    <3>3. a \in Addrs /\ a \notin Reach /\ m \in Addrs /\ m # a
      BY <2>3, <2>4
    <3> QED BY <2>5, <2>10, <3>1, <3>2, <3>3, NewEntries, SMTT(30)
  <2>13. {a, m} \in SUBSET (objects \cup {a})
    BY <2>1
  <2> QED BY <2>2, <2>4, <2>9, <2>12, <2>13, ReturnStep
<1> QED BY <1>5, <1>6
-----------------------------------------------------------------------------
(* The theorems.                                                           *)

LEMMA InvInit == Init => Inv
<1> SUFFICES ASSUME Init PROVE Inv
  OBVIOUS
<1>1. TypeOK
  <2>1. "string" \in Shapes /\ <<>> \in Seq(Values) /\ <<>> \in Seq(Addrs)
    BY DEF Shapes
  <2>2. Fresh("string") \in Objects
    BY <2>1, RecordType DEF Fresh
  <2>3. heap \in [Addrs -> Objects]
    BY <2>2 DEF Init
  <2>4. local \in [Locals -> Values] /\ marked \in [Addrs -> BOOLEAN]
    BY DEF Init, Values
  <2>5. roots \in Seq(Locals) /\ scopes \in Seq(Nat) /\ made \in Seq(Addrs) /\ work \in Seq(Values)
    BY DEF Init
  <2>6. bytes \in Int /\ before \in Int /\ threshold \in Nat /\ disableCount \in Nat
    BY GCAssumption DEF Init
  <2> QED BY <2>3, <2>4, <2>5, <2>6 DEF Init, TypeOK, Phases
<1>2. RootTargets = {}
  BY DEF Init, RootTargets, Protected
<1>3. Reach = {}
  BY <1>2 DEF Reach, Closed
<1>4. Shaped
  BY DEF Init, Shaped, Fresh
<1>5. Tidy /\ NoDangling /\ ScopesNest
  BY <1>2, <1>3 DEF Init, Tidy, NoDangling, ScopesNest
<1>6. JobOK /\ MarkOK /\ SweepOK /\ Clear
  BY DEF Init, JobOK, MarkOK, SweepOK, Clear, Marked
<1> QED BY <1>1, <1>4, <1>5, <1>6 DEF Inv

LEMMA InvStutters == Inv /\ UNCHANGED vars => Inv'
<1> SUFFICES ASSUME Inv, UNCHANGED vars PROVE Inv'
  OBVIOUS
<1>1. UNCHANGED <<objects, marked, heap, local, roots, scopes, bytes, threshold, disableCount,
                  phase, op, dst, made, work, unswept, before, retrying>>
  BY DEF vars
<1>2. Reach' = Reach /\ RootTargets' = RootTargets /\ Tidy' /\ Shaped'
  BY <1>1, StillStep
<1>3. \A b \in Addrs : Edges(b)' = Edges(b)
  BY <1>1 DEF Edges, Items, Parts
<1>4. Marked' = Marked /\ Pending' = Pending /\ Protected' = Protected
  BY <1>1 DEF Marked, Pending, Protected
<1>5. TypeOK' /\ ScopesNest' /\ NoDangling'
  BY <1>1, <1>2 DEF Inv, TypeOK, ScopesNest, NoDangling
<1>6. JobOK'
  BY <1>1, <1>2, <1>4 DEF Inv, JobOK
<1>7. MarkOK'
  BY <1>1, <1>2, <1>3, <1>4 DEF Inv, MarkOK, Marked
<1>8. SweepOK' /\ Clear'
  BY <1>1, <1>2, <1>4 DEF Inv, SweepOK, Clear
<1> QED BY <1>2, <1>5, <1>6, <1>7, <1>8 DEF Inv

\* Funcrefs, VarMaps and marks that no sweep clears do not come up.
LEMMA InvStep == Disciplined /\ Inv /\ [Next]_vars => Inv'
<1> SUFFICES ASSUME Disciplined, Inv, [Next]_vars PROVE Inv'
  OBVIOUS
<1>1. CASE Program
  <2>1. ~Report
    BY DEF Report, Disciplined
  <2> QED BY <1>1, <2>1, ScopeSteps, ProtectStep, PopScopeStep, AssignStep, StoreStep, DropStep,
             MakeStep, CollectStep, ShutdownStep DEF Program
<1>2. CASE Allocate
  <2>1. ~MakeFuncRef
    BY DEF MakeFuncRef, Inv, JobOK
  <2> QED BY <1>2, <2>1, MakeOneStep, GrowListStep, GrowMapStep, MakeMapPartStep,
             MallocFailsStep DEF Allocate
<1>3. CASE Collector
  <2>1. ~EndReport
    BY DEF EndReport, Inv, JobOK
  <2> QED BY <1>3, <2>1, MarkStep, EndMarkStep, SweepLiveStep, SweepGarbageStep, EndSweepStep
          DEF Collector
<1>4. CASE UNCHANGED vars
  BY <1>4, InvStutters
<1> QED BY <1>1, <1>2, <1>3, <1>4 DEF Next

LEMMA InvHolds == Disciplined => (Spec => []Inv)
<1> SUFFICES ASSUME Disciplined PROVE Spec => []Inv
  OBVIOUS
<1>1. Inv /\ [Next]_vars => Inv'
  BY InvStep
<1> QED BY <1>1, InvInit, PTL DEF Spec

\* Every variable of the collector keeps a value of its kind.
THEOREM TypeCorrect == Disciplined => (Spec => []TypeOK)
<1> SUFFICES ASSUME Disciplined PROVE Spec => []TypeOK
  OBVIOUS
<1>1. Inv => TypeOK
  BY DEF Inv
<1> QED BY <1>1, InvHolds, PTL

\* gc.c frees nothing that a protected local reaches.
THEOREM NothingDangles == Disciplined => (Spec => []NoDangling)
<1> SUFFICES ASSUME Disciplined PROVE Spec => []NoDangling
  OBVIOUS
<1>1. Inv => NoDangling
  BY DEF Inv
<1> QED BY <1>1, InvHolds, PTL

\* gc_sweep_phase leaves no mark for the next collection to trip over.
THEOREM NoMarkSurvives == Disciplined => (Spec => []MarksCleared)
<1> SUFFICES ASSUME Disciplined PROVE Spec => []MarksCleared
  OBVIOUS
<1>1. Inv => MarksCleared
  BY DEF Inv, TypeOK, Clear, Marked, MarksCleared
<1> QED BY <1>1, InvHolds, PTL

\* gc_pop_scope never makes the root count grow.
THEOREM ScopesStayNested == Disciplined => (Spec => []ScopesNest)
<1> SUFFICES ASSUME Disciplined PROVE Spec => []ScopesNest
  OBVIOUS
<1>1. Inv => ScopesNest
  BY DEF Inv
<1> QED BY <1>1, InvHolds, PTL

\* gc_collect leaves exactly what is reachable.
THEOREM CollectionsExact == Disciplined => (Spec => CollectExact)
<1> SUFFICES ASSUME Disciplined PROVE Spec => CollectExact
  OBVIOUS
<1>1. Inv /\ [Next]_vars => [phase = "sweep" /\ phase' # "sweep" => objects = Reach]_vars
  <2> SUFFICES ASSUME Inv, Next, phase = "sweep", phase' # "sweep" PROVE objects = Reach
    BY DEF vars
  <2>1. unswept = {}
    <3>1. ~Program
      BY DEF Program, PushScope, Protect, PopScope, Disable, Enable, Assign, Store, Drop,
             Make, Collect, Report, Shutdown
    <3>2. ~Allocate
      BY DEF Allocate, MakeOne, MakeFuncRef, GrowList, GrowMap, MakeMapPart, MallocFails, Allocated
    <3>3. Collector
      BY <3>1, <3>2 DEF Next
    <3> QED BY <3>3 DEF Collector, Mark, EndMark, EndReport, SweepLive, SweepGarbage, EndSweep
  <2>2. Marked \subseteq unswept /\ Reach = (objects \ unswept) \cup Marked
    BY DEF Inv, SweepOK
  <2> QED BY <2>1, <2>2
<1> QED BY <1>1, InvHolds, PTL DEF Spec, CollectExact

-----------------------------------------------------------------------------
(* Sums over finite sets, as MapThenSumSet computes them.                  *)

\* A set of numbers that is not empty has a least one.
LEMMA LeastNumber ==
  ASSUME NEW S \in SUBSET Nat, S # {}
  PROVE  \E n \in S : \A m \in S : n <= m
<1>1. PICK n \in S : \A m \in S : ~(<<m, n>> \in OpToRel(<, Nat))
  BY NatLessThanWellFounded, WFMin
<1>2. \A m \in S : ~(m < n)
  BY <1>1 DEF OpToRel
<1> QED BY <1>2

Some(s) == CHOOSE x \in s : TRUE

\* f is the sum of w over each of the sets in D.
Sums(w, f, D) ==
  f = [s \in D |-> IF s = {} THEN 0 ELSE w[Some(s)] + f[s \ {Some(s)}]]

IsSum(w, f, S) == Sums(w, f, SUBSET S)

UpTo(S, n) == {s \in SUBSET S : Cardinality(s) <= n}

LEMMA Smaller ==
  ASSUME NEW S, IsFiniteSet(S), NEW s \in SUBSET S, s # {}
  PROVE  /\ Some(s) \in s /\ s \ {Some(s)} \in SUBSET S
         /\ Cardinality(s) \in Nat
         /\ Cardinality(s \ {Some(s)}) = Cardinality(s) - 1
<1>1. IsFiniteSet(s) /\ Cardinality(s) \in Nat
  BY FS_Subset, FS_CardinalityType
<1>2. Some(s) \in s
  BY DEF Some
<1> QED BY <1>1, <1>2, FS_RemoveElement

\* The sums over all sets of up to n elements, from those of fewer.
LEMMA SumsNext ==
  ASSUME NEW S, IsFiniteSet(S), NEW w, NEW n \in Nat, NEW f, Sums(w, f, UpTo(S, n))
  PROVE  \E g : Sums(w, g, UpTo(S, n + 1))
<1> DEFINE g == [s \in UpTo(S, n + 1) |-> IF s = {} THEN 0 ELSE w[Some(s)] + f[s \ {Some(s)}]]
<1>1. \A s \in UpTo(S, n) : s \in UpTo(S, n + 1) /\ g[s] = f[s]
  <2> SUFFICES ASSUME NEW s \in UpTo(S, n) PROVE s \in UpTo(S, n + 1) /\ g[s] = f[s]
    OBVIOUS
  <2>1. Cardinality(s) \in Nat
    BY FS_Subset, FS_CardinalityType DEF UpTo
  <2>2. s \in UpTo(S, n + 1)
    BY <2>1 DEF UpTo
  <2>3. f[s] = IF s = {} THEN 0 ELSE w[Some(s)] + f[s \ {Some(s)}]
    BY DEF Sums
  <2> QED BY <2>2, <2>3
<1>2. \A s \in UpTo(S, n + 1) : s # {} => s \ {Some(s)} \in UpTo(S, n)
  BY Smaller DEF UpTo
<1>3. \A s \in UpTo(S, n + 1) :
        g[s] = IF s = {} THEN 0 ELSE w[Some(s)] + g[s \ {Some(s)}]
  BY <1>1, <1>2
<1>4. g = [s \in UpTo(S, n + 1) |-> g[s]]
  OBVIOUS
<1> HIDE DEF g
<1>5. g = [s \in UpTo(S, n + 1) |-> IF s = {} THEN 0 ELSE w[Some(s)] + g[s \ {Some(s)}]]
  BY <1>3, <1>4
<1> QED BY <1>5 DEF Sums

LEMMA SumsUpTo ==
  ASSUME NEW S, IsFiniteSet(S), NEW w, NEW n \in Nat
  PROVE  \E f : Sums(w, f, UpTo(S, n))
<1> DEFINE Missing == {m \in Nat : ~ \E f : Sums(w, f, UpTo(S, m))}
<1> SUFFICES ASSUME Missing # {} PROVE FALSE
  OBVIOUS
<1>1. PICK m \in Missing : \A k \in Missing : m <= k
  BY LeastNumber
<1>2. CASE m = 0
  <2>1. UpTo(S, 0) = {{}}
    <3>1. \A s \in SUBSET S : Cardinality(s) <= 0 <=> s = {}
      BY FS_Subset, FS_CardinalityType, FS_EmptySet
    <3> QED BY <3>1 DEF UpTo
  <2> DEFINE z == [s \in {{}} |-> 0]
  <2>2. z = [s \in UpTo(S, 0) |-> IF s = {} THEN 0 ELSE w[Some(s)] + z[s \ {Some(s)}]]
    BY <2>1
  <2> HIDE DEF z
  <2>3. Sums(w, z, UpTo(S, 0))
    BY <2>2 DEF Sums
  <2> QED BY <1>2, <2>3
<1>3. CASE m # 0
  <2>1. m - 1 \in Nat /\ (m - 1) + 1 = m
    BY <1>3
  <2>2. m - 1 \notin Missing
    BY <1>1, <2>1
  <2>3. PICK f : Sums(w, f, UpTo(S, m - 1))
    BY <2>1, <2>2
  <2>4. \E g : Sums(w, g, UpTo(S, (m - 1) + 1))
    BY <2>1, <2>3, SumsNext
  <2> QED BY <2>1, <2>4
<1> QED BY <1>2, <1>3

LEMMA SumsExist ==
  ASSUME NEW S, IsFiniteSet(S), NEW w
  PROVE  \E f : IsSum(w, f, S)
<1>1. Cardinality(S) \in Nat
  BY FS_CardinalityType
<1>2. UpTo(S, Cardinality(S)) = SUBSET S
  BY FS_Subset DEF UpTo
<1>3. PICK f : Sums(w, f, UpTo(S, Cardinality(S)))
  BY <1>1, SumsUpTo
<1>4. Sums(w, f, SUBSET S)
  BY <1>2, <1>3
<1> QED BY <1>4 DEF IsSum

\* What a sum adds up, one element at a time.
LEMMA SumOf ==
  ASSUME NEW S, IsFiniteSet(S), NEW w, NEW f, IsSum(w, f, S), NEW s \in SUBSET S
  PROVE  /\ s = {} => f[s] = 0
         /\ s # {} => f[s] = w[Some(s)] + f[s \ {Some(s)}]
BY DEF IsSum, Sums

LEMMA SumEmpty ==
  ASSUME NEW S, IsFiniteSet(S), NEW w, NEW f, IsSum(w, f, S)
  PROVE  f[{}] = 0
<1>1. {} \in SUBSET S
  OBVIOUS
<1> QED BY <1>1 DEF IsSum, Sums

\* The total does not depend on the order in which the elements are taken:
\* any of them may come first.
LEMMA SumTaken ==
  ASSUME NEW S, IsFiniteSet(S), NEW w, \A x \in S : w[x] \in Int,
         NEW f, IsSum(w, f, S)
  PROVE  \A s \in SUBSET S : /\ f[s] \in Int
                             /\ \A a \in s : f[s] = w[a] + f[s \ {a}]
<1> DEFINE Right(s) == f[s] \in Int /\ \A a \in s : f[s] = w[a] + f[s \ {a}]
           Wrong == {n \in Nat : \E s \in SUBSET S : Cardinality(s) = n /\ ~Right(s)}
<1>0. \A s \in SUBSET S : IsFiniteSet(s) /\ Cardinality(s) \in Nat
  BY FS_Subset, FS_CardinalityType
<1> SUFFICES ASSUME NEW s0 \in SUBSET S, ~Right(s0) PROVE FALSE
  OBVIOUS
<1>1. Wrong \in SUBSET Nat /\ Wrong # {}
  BY <1>0
<1>2. PICK n \in Wrong : \A m \in Wrong : n <= m
  <2> HIDE DEF Wrong
  <2> QED BY <1>1, LeastNumber
<1>3. PICK s \in SUBSET S : Cardinality(s) = n /\ n \in Nat /\ ~Right(s)
  OBVIOUS
<1>4. \A t \in SUBSET S : Cardinality(t) < n => Right(t)
  BY <1>0, <1>2
<1> HIDE DEF Wrong
<1>5. s # {}
  <2>1. f[{}] = 0
    BY SumEmpty
  <2> QED BY <1>3, <2>1
<1> PICK x : x = Some(s)
  OBVIOUS
<1>a. f[s] = w[x] + f[s \ {x}]
  BY <1>5, SumOf
<1>b. x \in s /\ s \ {x} \in SUBSET S /\ Cardinality(s \ {x}) < n
  BY <1>3, <1>5, Smaller
<1>6. x \in s /\ s \ {x} \in SUBSET S /\ Cardinality(s \ {x}) < n /\ f[s] = w[x] + f[s \ {x}]
  BY <1>a, <1>b
<1>7. Right(s \ {x}) /\ w[x] \in Int
  BY <1>4, <1>6
<1>8. f[s] \in Int
  BY <1>6, <1>7
<1>9. ASSUME NEW a \in s, a # x PROVE f[s] = w[a] + f[s \ {a}]
  <2>1. a \in s \ {x} /\ w[a] \in Int
    BY <1>9
  <2>2. f[s \ {x}] = w[a] + f[(s \ {x}) \ {a}]
    BY <1>7, <2>1
  <2>3. s \ {a} \in SUBSET S /\ Cardinality(s \ {a}) < n /\ x \in s \ {a}
    BY <1>0, <1>3, <1>6, <1>9, FS_RemoveElement
  <2>4. f[s \ {a}] = w[x] + f[(s \ {a}) \ {x}]
    BY <1>4, <2>3
  <2> PICK t : t = (s \ {x}) \ {a}
    OBVIOUS
  <2>5. t = (s \ {a}) \ {x}
    OBVIOUS
  <2>6. t \in SUBSET S /\ Cardinality(t) < n
    <3>1. s \ {x} \in SUBSET S /\ Cardinality(s \ {x}) \in Nat /\ IsFiniteSet(s \ {x})
      BY <1>0, <1>6
    <3>2. Cardinality(t) = Cardinality(s \ {x}) - 1
      BY <2>1, <3>1, FS_RemoveElement
    <3> QED BY <1>3, <1>6, <3>1, <3>2
  <2>7. f[t] \in Int
    BY <1>4, <2>6
  <2>8. f[s] = w[x] + (w[a] + f[t]) /\ f[s \ {a}] = w[x] + f[t]
    BY <1>6, <2>2, <2>4, <2>5
  <2> QED BY <1>7, <2>1, <2>7, <2>8
<1> QED BY <1>3, <1>6, <1>8, <1>9

Agree(w, v, s) == \A x \in s : w[x] = v[x]

\* Nor on the set that the sum is part of, nor on weights elsewhere.
LEMMA SumsAgree ==
  ASSUME NEW S, IsFiniteSet(S), NEW w, NEW f, IsSum(w, f, S),
         NEW T, IsFiniteSet(T), NEW v, NEW g, IsSum(v, g, T),
         NEW s0, s0 \subseteq S, s0 \subseteq T, Agree(w, v, s0)
  PROVE  f[s0] = g[s0]
<1> DEFINE Same(s) == (\A x \in s : w[x] = v[x]) => f[s] = g[s]
           Wrong == {n \in Nat : \E s \in SUBSET (S \cap T) : Cardinality(s) = n /\ ~Same(s)}
<1>0. \A s \in SUBSET S : IsFiniteSet(s) /\ Cardinality(s) \in Nat
  BY FS_Subset, FS_CardinalityType
<1> SUFFICES ASSUME ~Same(s0) PROVE FALSE
  BY DEF Agree
<1>1. Wrong \in SUBSET Nat /\ Wrong # {}
  BY <1>0
<1>2. PICK n \in Wrong : \A m \in Wrong : n <= m
  <2> HIDE DEF Wrong
  <2> QED BY <1>1, LeastNumber
<1>3. PICK s \in SUBSET (S \cap T) : Cardinality(s) = n /\ ~Same(s)
  OBVIOUS
<1>4. \A t \in SUBSET (S \cap T) : Cardinality(t) < n => Same(t)
  BY <1>0, <1>2
<1> HIDE DEF Wrong
<1>a. s \in SUBSET S /\ s \in SUBSET T
  OBVIOUS
<1>b. /\ s = {} => f[s] = 0
      /\ s # {} => f[s] = w[Some(s)] + f[s \ {Some(s)}]
  BY <1>a, SumOf
<1>c. /\ s = {} => g[s] = 0
      /\ s # {} => g[s] = v[Some(s)] + g[s \ {Some(s)}]
  BY <1>a, SumOf
<1>5. s # {}
  BY <1>3, <1>b, <1>c
<1> PICK x : x = Some(s)
  OBVIOUS
<1>6. x \in s /\ s \ {x} \in SUBSET (S \cap T) /\ Cardinality(s \ {x}) < n
  BY <1>0, <1>3, <1>5, <1>a, Smaller
<1>7. f[s] = w[x] + f[s \ {x}] /\ g[s] = v[x] + g[s \ {x}]
  BY <1>5, <1>b, <1>c
<1>8. Same(s \ {x})
  BY <1>4, <1>6
<1> QED BY <1>3, <1>6, <1>7, <1>8

-----------------------------------------------------------------------------
(* bytes_allocated.                                                        *)

\* The bytes each address takes, as long as an object is there.
Weights == [a \in Addrs |-> Size[heap[a].shape]]

\* A heap of objects as they are laid out: nothing else is needed of it here.
ShapedHeap(h) ==
  /\ DOMAIN h = Addrs
  /\ \A a \in Addrs :
       /\ h[a] = [shape |-> h[a].shape, items |-> h[a].items, parts |-> h[a].parts]
       /\ h[a].shape \in Shapes

SameShapes(h, g, S) == \A a \in S : g[a].shape = h[a].shape

\* total counts the bytes of the objects.
Counted(total) == \E f : IsSum(Weights, f, objects) /\ total = f[objects]

\* The constructors of maps: how far they are.
MadeInv ==
  /\ op \in Operations \cup {"none"}
  /\ phase \in {"run", "report"} => op = "none"
  /\ op = "none" => made = <<>>
  /\ op \in {"map", "varmap"} => made \in Seq(Addrs) /\ Len(made) < Len(Allocates(op))

BytesInv ==
  /\ ShapedHeap(heap) /\ MadeInv
  /\ objects \subseteq Addrs
  /\ phase = "sweep" => unswept \subseteq objects
  /\ phase # "exited" => Counted(bytes)

LEMMA ObjectsFinite == BytesInv => IsFiniteSet(objects)
BY GCAssumption, FS_Subset DEF BytesInv

LEMMA WeightsType == ShapedHeap(heap) => Weights \in [Addrs -> Int]
BY GCAssumption DEF Weights, ShapedHeap

\* What a sum over the same objects with the same weights is.
LEMMA CountedOnce ==
  ASSUME BytesInv, NEW f, IsSum(Weights, f, objects), NEW total, Counted(total)
  PROVE  total = f[objects]
<1>1. PICK g : IsSum(Weights, g, objects) /\ total = g[objects]
  BY DEF Counted
<1>2. IsFiniteSet(objects)
  BY ObjectsFinite
<1> PICK w, S : w = Weights /\ S = objects
  OBVIOUS
<1>3. S \in SUBSET (S \cap S) /\ f[S] = g[S]
  <2>1. IsSum(w, f, S) /\ IsSum(w, g, S) /\ IsFiniteSet(S)
    BY <1>1, <1>2
  <2>2. Agree(w, w, S) /\ S \subseteq S
    BY DEF Agree
  <2>3. f[S] = g[S]
    BY ONLY <2>1, <2>2, SumsAgree
  <2> QED BY <2>3
<1> QED BY <1>1, <1>3

\* BytesExact takes the sum that Sums defines.
LEMMA TotalIsSum ==
  ASSUME BytesInv
  PROVE  Counted(MapThenSumSet(LAMBDA a : Size[heap[a].shape], objects))
<1> PICK w, S : w = Weights /\ S = objects
  OBVIOUS
<1>1. IsFiniteSet(S)
  BY ObjectsFinite
<1>2. \E f : IsSum(w, f, S)
  BY <1>1, SumsExist
<1> DEFINE f0 == CHOOSE f : f = [s \in SUBSET S |->
                   IF s = {} THEN 0
                   ELSE Size[heap[CHOOSE x \in s : TRUE].shape] + f[s \ {CHOOSE x \in s : TRUE}]]
<1>3. f0 = [s \in SUBSET S |->
                   IF s = {} THEN 0
                   ELSE Size[heap[CHOOSE x \in s : TRUE].shape] + f0[s \ {CHOOSE x \in s : TRUE}]]
  <2>1. PICK f : IsSum(w, f, S)
    BY <1>2
  <2>2. \A s \in SUBSET S : s # {} =>
          w[Some(s)] = Size[heap[CHOOSE x \in s : TRUE].shape]
    BY DEF BytesInv, Weights, Some
  <2>3. f = [s \in SUBSET S |->
                   IF s = {} THEN 0
                   ELSE Size[heap[CHOOSE x \in s : TRUE].shape] + f[s \ {CHOOSE x \in s : TRUE}]]
    BY <2>1, <2>2, ZenonT(60) DEF IsSum, Sums, Some
  <2> QED BY <2>3, ZenonT(60)
<1>4. MapThenSumSet(LAMBDA a : Size[heap[a].shape], objects) = f0[S]
  BY DEF MapThenSumSet, MapThenFoldSet
<1>5. \A s \in SUBSET S : s # {} =>
          w[Some(s)] = Size[heap[CHOOSE x \in s : TRUE].shape]
  BY DEF BytesInv, Weights, Some
<1> HIDE DEF f0
<1>6. IsSum(w, f0, S)
  BY <1>3, <1>5 DEF IsSum, Sums, Some
<1> QED BY <1>4, <1>6 DEF Counted

\* What becomes of the total when an object comes, goes or stays.
LEMMA CountedKept ==
  ASSUME BytesInv, ShapedHeap(heap'), objects' = objects, SameShapes(heap, heap', objects),
         NEW total, Counted(total)
  PROVE  Counted(total)'
<1> PICK w, v, S : w = Weights /\ v = Weights' /\ S = objects
  OBVIOUS
<1>1. IsFiniteSet(S)
  BY ObjectsFinite
<1>2. PICK f : IsSum(w, f, S) /\ total = f[S]
  BY DEF Counted
<1>3. PICK g : IsSum(v, g, S)
  BY <1>1, SumsExist
<1>4. Agree(w, v, S) /\ S \subseteq S
  BY DEF Agree, Weights, SameShapes, BytesInv
<1>5. f[S] = g[S]
  BY ONLY <1>1, <1>2, <1>3, <1>4, SumsAgree
<1> QED BY <1>2, <1>3, <1>5 DEF Counted

LEMMA CountedMore ==
  ASSUME BytesInv, ShapedHeap(heap'), NEW a \in Addrs \ objects, objects' = objects \cup {a},
         SameShapes(heap, heap', objects), NEW total, Counted(total),
         NEW z, z = Size[heap'[a].shape]
  PROVE  Counted(total + z)'
<1> PICK w, v, S, T : w = Weights /\ v = Weights' /\ S = objects /\ T = objects'
  OBVIOUS
<1>1. IsFiniteSet(S) /\ IsFiniteSet(T)
  BY ObjectsFinite, FS_AddElement
<1>2. PICK f : IsSum(w, f, S) /\ total = f[S]
  BY DEF Counted
<1>3. PICK g : IsSum(v, g, T)
  BY <1>1, SumsExist
<1>4. Agree(w, v, S) /\ S \subseteq S /\ S \subseteq T
  BY DEF Agree, Weights, SameShapes, BytesInv
<1>5. f[S] = g[S]
  BY ONLY <1>1, <1>2, <1>3, <1>4, SumsAgree
<1>6. (\A x \in T : v[x] \in Int) /\ v[a] = Size[heap'[a].shape]
  BY GCAssumption DEF Weights, ShapedHeap, BytesInv
<1>7. a \in T /\ T \in SUBSET T /\ T \ {a} = S
  OBVIOUS
<1>8. g[T] = v[a] + g[S] /\ g[S] \in Int /\ v[a] \in Int
  <2>1. \A s \in SUBSET T : g[s] \in Int /\ \A x \in s : g[s] = v[x] + g[s \ {x}]
    BY ONLY <1>1, <1>3, <1>6, SumTaken
  <2>2. g[T] = v[a] + g[T \ {a}]
    BY <1>7, <2>1
  <2>3. S \in SUBSET T
    BY <1>4
  <2>4. g[S] \in Int
    BY <2>1, <2>3
  <2>5. v[a] \in Int
    BY <1>6, <1>7
  <2>6. T \ {a} = S
    BY <1>7
  <2> QED BY ONLY <2>2, <2>4, <2>5, <2>6
<1>9. total + z = g[T]
  <2>1. v[a] = z /\ total = g[S]
    BY <1>2, <1>5, <1>6
  <2> QED BY ONLY <1>8, <2>1
<1> QED BY <1>3, <1>9 DEF Counted

LEMMA CountedLess ==
  ASSUME BytesInv, ShapedHeap(heap'), NEW a \in objects, objects' = objects \ {a},
         SameShapes(heap, heap', objects'), NEW total, Counted(total),
         NEW z, z = Size[heap[a].shape]
  PROVE  Counted(total - z)'
<1> PICK w, v, S, T : w = Weights /\ v = Weights' /\ S = objects /\ T = objects'
  OBVIOUS
<1>1. IsFiniteSet(S) /\ IsFiniteSet(T)
  BY ObjectsFinite, FS_RemoveElement
<1>2. PICK f : IsSum(w, f, S) /\ total = f[S]
  BY DEF Counted
<1>3. PICK g : IsSum(v, g, T)
  BY <1>1, SumsExist
<1>4. Agree(w, v, T) /\ T \subseteq S /\ T \subseteq T
  BY DEF Agree, Weights, SameShapes, BytesInv
<1>5. f[T] = g[T]
  BY ONLY <1>1, <1>2, <1>3, <1>4, SumsAgree
<1>6. (\A x \in S : w[x] \in Int) /\ w[a] = Size[heap[a].shape]
  BY GCAssumption DEF Weights, ShapedHeap, BytesInv
<1>7. a \in S /\ S \in SUBSET S /\ S \ {a} = T
  OBVIOUS
<1>8. f[S] = w[a] + f[T] /\ f[T] \in Int /\ w[a] \in Int
  <2>1. \A s \in SUBSET S : f[s] \in Int /\ \A x \in s : f[s] = w[x] + f[s \ {x}]
    BY ONLY <1>1, <1>2, <1>6, SumTaken
  <2>2. f[S] = w[a] + f[S \ {a}]
    BY <1>7, <2>1
  <2>3. T \in SUBSET S
    BY <1>4
  <2>4. f[T] \in Int
    BY <2>1, <2>3
  <2>5. w[a] \in Int
    BY <1>6, <1>7
  <2>6. S \ {a} = T
    BY <1>7
  <2> QED BY ONLY <2>2, <2>4, <2>5, <2>6
<1>9. total - z = g[T]
  <2>1. w[a] = z /\ total = f[S] /\ f[T] = g[T]
    BY <1>2, <1>5, <1>6
  <2> QED BY ONLY <1>8, <2>1
<1> QED BY <1>3, <1>9 DEF Counted

-----------------------------------------------------------------------------
(* The steps.                                                              *)

\* h with an object put at a.
Placed(h, a, object) == [h EXCEPT ![a] = object]

LEMMA PlacedShaped ==
  ASSUME NEW h, ShapedHeap(h), NEW a \in Addrs, NEW object, object.shape \in Shapes,
         object = [shape |-> object.shape, items |-> object.items, parts |-> object.parts]
  PROVE  /\ ShapedHeap(Placed(h, a, object))
         /\ Placed(h, a, object)[a] = object
         /\ \A b \in Addrs : b # a => Placed(h, a, object)[b] = h[b]
BY DEF ShapedHeap, Placed

\* Changing what an object holds leaves its shape.
LEMMA LinkShaped ==
  ASSUME NEW h, ShapedHeap(h), NEW a, NEW owner
  PROVE  /\ ShapedHeap(Link(h, a, owner))
         /\ SameShapes(h, Link(h, a, owner), Addrs)
<1> PICK g : g = Link(h, a, owner)
  OBVIOUS
<1>1. CASE owner \notin Addrs
  <2>1. DOMAIN g = Addrs /\ \A b \in Addrs : g[b] = h[b]
    BY <1>1 DEF Link, ShapedHeap
  <2> QED BY <2>1 DEF ShapedHeap, SameShapes
<1>2. CASE owner \in Addrs
  <2>1. DOMAIN g = Addrs
    BY DEF Link, ShapedHeap
  <2>2. \A b \in Addrs : b # owner => g[b] = h[b]
    BY <1>2 DEF Link, ShapedHeap
  <2> PICK r : r = h[owner]
    OBVIOUS
  <2>3. r = [shape |-> r.shape, items |-> r.items, parts |-> r.parts] /\ r.shape \in Shapes
    BY <1>2 DEF ShapedHeap
  <2>4. g[owner] = [r EXCEPT !.parts = Append(@, a)]
    BY <1>2 DEF Link, ShapedHeap
  <2>5. g[owner] = [shape |-> r.shape, items |-> r.items, parts |-> Append(r.parts, a)]
    BY <2>3, <2>4
  <2>6. /\ g[owner] = [shape |-> g[owner].shape, items |-> g[owner].items,
                       parts |-> g[owner].parts]
        /\ g[owner].shape = r.shape
    BY <2>5
  <2> QED BY <2>1, <2>2, <2>3, <2>6 DEF ShapedHeap, SameShapes
<1> QED BY <1>1, <1>2

LEMMA ItemsShaped ==
  ASSUME ShapedHeap(heap), NEW owner, NEW items,
         heap' = [heap EXCEPT ![owner].items = items]
  PROVE  ShapedHeap(heap') /\ SameShapes(heap, heap', Addrs)
<1> PICK h, g : g = heap' /\ h = heap
  OBVIOUS
<1>1. CASE owner \notin Addrs
  <2>1. DOMAIN g = Addrs /\ \A b \in Addrs : g[b] = h[b]
    BY <1>1 DEF ShapedHeap
  <2> QED BY <2>1 DEF ShapedHeap, SameShapes
<1>2. CASE owner \in Addrs
  <2>1. DOMAIN g = Addrs
    BY DEF ShapedHeap
  <2>2. \A b \in Addrs : b # owner => g[b] = h[b]
    BY <1>2 DEF ShapedHeap
  <2> PICK r : r = h[owner]
    OBVIOUS
  <2>3. r = [shape |-> r.shape, items |-> r.items, parts |-> r.parts] /\ r.shape \in Shapes
    BY <1>2 DEF ShapedHeap
  <2>4. g[owner] = [r EXCEPT !.items = items]
    BY <1>2 DEF ShapedHeap
  <2>5. g[owner] = [shape |-> r.shape, items |-> items, parts |-> r.parts]
    BY <2>3, <2>4
  <2>6. /\ g[owner] = [shape |-> g[owner].shape, items |-> g[owner].items,
                       parts |-> g[owner].parts]
        /\ g[owner].shape = r.shape
    BY <2>5
  <2> QED BY <2>1, <2>2, <2>3, <2>6 DEF ShapedHeap, SameShapes
<1> QED BY <1>1, <1>2

\* Steps that neither allocate nor free.
LEMMA BytesStay ==
  ASSUME BytesInv, phase # "exited", UNCHANGED <<objects, bytes>>, MadeInv',
         ShapedHeap(heap'), SameShapes(heap, heap', Addrs),
         phase' = "sweep" => unswept' \subseteq objects
  PROVE  BytesInv'
<1> PICK total : total = bytes
  OBVIOUS
<1>1. Counted(total)
  BY DEF BytesInv
<1>2. SameShapes(heap, heap', objects)
  BY DEF SameShapes, BytesInv
<1>3. Counted(total)'
  BY <1>1, <1>2, CountedKept
<1>4. Counted(bytes)'
  BY <1>3 DEF Counted
<1> QED BY <1>4 DEF BytesInv

LEMMA BytesOfSameHeap ==
  ASSUME BytesInv, phase # "exited", UNCHANGED <<objects, heap, bytes>>, MadeInv',
         phase' = "sweep" => unswept' \subseteq objects
  PROVE  BytesInv'
<1>1. ShapedHeap(heap') /\ SameShapes(heap, heap', Addrs)
  BY DEF BytesInv, SameShapes
<1> QED BY <1>1, BytesStay

\* A step of an operation that allocates.
LEMMA BytesOfNew ==
  ASSUME BytesInv, NEW a \in Addrs, NEW shape, Allocated(a, shape), shape \in Shapes,
         ShapedHeap(heap'), heap'[a].shape = shape, SameShapes(heap, heap', objects),
         MadeInv', phase' # "sweep"
  PROVE  BytesInv'
<1> PICK total, z : total = bytes /\ z = Size[shape]
  OBVIOUS
<1>1. Counted(total) /\ bytes' = total + z /\ objects' = objects \cup {a} /\ a \in Addrs \ objects
  BY DEF BytesInv, Allocated
<1>2. z = Size[heap'[a].shape]
  OBVIOUS
<1>3. Counted(total + z)'
  BY <1>1, <1>2, CountedMore
<1>4. Counted(bytes)'
  BY <1>1, <1>3 DEF Counted
<1> QED BY <1>1, <1>4 DEF BytesInv

LEMMA AllocatesType ==
  ASSUME NEW operation \in {"map", "varmap"}
  PROVE  Allocates(operation) \in Seq(Shapes) /\ Len(Allocates(operation)) \in {2, 5}
<1>1. CASE operation = "map"
  BY <1>1 DEF Allocates, Shapes
<1>2. CASE operation = "varmap"
  BY <1>2 DEF Allocates, Shapes
<1> QED BY <1>1, <1>2

\* The program's own steps.
LEMMA ProgramBytes == BytesInv /\ Program => BytesInv'
<1> SUFFICES ASSUME BytesInv, Program PROVE BytesInv'
  OBVIOUS
<1> USE DEF shadow, job, tracing
<1>1. ASSUME PushScope \/ Protect \/ PopScope \/ Disable \/ Enable \/ Assign PROVE BytesInv'
  <2>1. phase = "run" /\ UNCHANGED <<objects, heap, bytes, phase, op, made, unswept>>
    BY <1>1 DEF PushScope, Protect, PopScope, Disable, Enable, Assign
  <2>2. MadeInv'
    BY <2>1 DEF MadeInv, BytesInv
  <2> QED BY <2>1, <2>2, BytesOfSameHeap
<1>2. ASSUME Store \/ Drop PROVE BytesInv'
  <2>1. phase = "run" /\ UNCHANGED <<objects, bytes, phase, op, made, unswept>>
    BY <1>2 DEF Store, Drop
  <2>2. MadeInv'
    BY <2>1 DEF MadeInv, BytesInv
  <2>3. \E owner, items : heap' = [heap EXCEPT ![owner].items = items]
    <3>1. CASE Store
      <4>1. PICK a \in Containers, x \in Protected :
               heap' = [heap EXCEPT ![Storage(a)].items = Append(heap[Storage(a)].items, local[x])]
        BY <3>1 DEF Store
      <4> QED BY <4>1
    <3>2. CASE Drop
      <4>1. PICK a \in Containers : \E n \in 0 .. Len(Contents(a)) - 1 :
               heap' = [heap EXCEPT ![Storage(a)].items = SubSeq(@, 1, n)]
        BY <3>2 DEF Drop
      <4>2. PICK n \in 0 .. Len(Contents(a)) - 1 :
               heap' = [heap EXCEPT ![Storage(a)].items = SubSeq(@, 1, n)]
        BY <4>1
      <4>3. heap' = [heap EXCEPT ![Storage(a)].items = SubSeq(heap[Storage(a)].items, 1, n)]
        BY <4>2
      <4> QED BY <4>3
    <3> QED BY <1>2, <3>1, <3>2
  <2>4. ShapedHeap(heap') /\ SameShapes(heap, heap', Addrs)
    BY <2>3, ItemsShaped DEF BytesInv
  <2> QED BY <2>1, <2>2, <2>4, BytesStay
<1>3. ASSUME Make PROVE BytesInv'
  <2>1. /\ phase = "run" /\ UNCHANGED <<objects, heap, bytes, made>>
        /\ op' \in Operations /\ phase' \in {"mark", "malloc"}
    BY <1>3, GCAssumption DEF Make, EnterAllocate
  <2>2. made' = <<>>
    BY <2>1 DEF MadeInv, BytesInv
  <2>3. MadeInv'
    BY <2>1, <2>2, AllocatesType DEF MadeInv
  <2> QED BY <2>1, <2>3, BytesOfSameHeap
<1>4. ASSUME Collect \/ Report PROVE BytesInv'
  <2>1. /\ phase = "run" /\ UNCHANGED <<objects, heap, bytes, op, made>>
        /\ phase' \in {"mark", "report"}
    BY <1>4 DEF Collect, Report, StartCollection
  <2>2. MadeInv'
    BY <2>1 DEF MadeInv, BytesInv
  <2> QED BY <2>1, <2>2, BytesOfSameHeap
<1>5. ASSUME Shutdown PROVE BytesInv'
  <2>1. objects' = {} /\ phase' = "exited" /\ UNCHANGED <<heap, op, made>>
    BY <1>5 DEF Shutdown
  <2>2. MadeInv'
    BY <2>1 DEF MadeInv, BytesInv
  <2> QED BY <2>1, <2>2 DEF BytesInv
<1> QED BY <1>1, <1>2, <1>3, <1>4, <1>5 DEF Program

\* The collector's.
LEMMA CollectorBytes == BytesInv /\ Collector => BytesInv'
<1> SUFFICES ASSUME BytesInv, Collector PROVE BytesInv'
  OBVIOUS
<1> USE DEF shadow, job, tracing
<1>1. ASSUME Mark \/ EndMark \/ EndReport \/ SweepLive \/ EndSweep PROVE BytesInv'
  <2>1. /\ phase \in {"mark", "report", "sweep"} /\ UNCHANGED <<objects, heap, bytes, op, made>>
        /\ phase' \in {"run", "report"} => phase = "report" \/ op = "none"
        /\ phase' = "sweep" => unswept' \subseteq objects
        /\ phase' # "exited"
    BY <1>1 DEF Mark, EndMark, EndReport, SweepLive, EndSweep, BytesInv
  <2>2. MadeInv'
    BY <2>1 DEF MadeInv, BytesInv
  <2> QED BY <2>1, <2>2, BytesOfSameHeap
<1>2. ASSUME SweepGarbage PROVE BytesInv'
  <2>1. PICK a \in unswept :
           /\ objects' = objects \ {a} /\ unswept' = unswept \ {a}
           /\ bytes' = bytes - Freed(a)
           /\ heap' = Placed(heap, a, Fresh("string"))
    BY <1>2 DEF SweepGarbage, Placed
  <2>2. phase = "sweep" /\ UNCHANGED <<phase, op, made>>
    BY <1>2 DEF SweepGarbage
  <2>3. MadeInv'
    BY <2>2 DEF MadeInv, BytesInv
  <2>4. a \in objects /\ a \in Addrs
    BY <2>1, <2>2 DEF BytesInv
  <2>5. ShapedHeap(heap') /\ \A b \in Addrs : b # a => heap'[b] = heap[b]
    <3>1. /\ Fresh("string").shape \in Shapes
          /\ Fresh("string") = [shape |-> Fresh("string").shape, items |-> Fresh("string").items,
                                parts |-> Fresh("string").parts]
      BY DEF Fresh, Shapes
    <3> QED BY <2>1, <2>4, <3>1, PlacedShaped DEF BytesInv
  <2>6. SameShapes(heap, heap', objects')
    BY <2>1, <2>5 DEF SameShapes, BytesInv
  <2> PICK total, z : total = bytes /\ z = Size[heap[a].shape]
    OBVIOUS
  <2>7. Counted(total) /\ bytes' = total - z
    BY <2>1, <2>2 DEF BytesInv, Freed
  <2>8. objects' = objects \ {a}
    BY <2>1
  <2>9. Counted(total - z)'
    BY <2>4, <2>5, <2>6, <2>7, <2>8, CountedLess
  <2>10. Counted(bytes)'
    BY <2>7, <2>9 DEF Counted
  <2> QED BY <2>1, <2>2, <2>3, <2>5, <2>10 DEF BytesInv
<1> QED BY <1>1, <1>2 DEF Collector

\* An operation that is over.
LEMMA ReturnMade ==
  ASSUME NEW v, Result(v) PROVE MadeInv' /\ phase' # "sweep"
BY DEF Result, MadeInv

\* A block by itself.
LEMMA BytesOfBlock ==
  ASSUME BytesInv, NEW a \in Addrs, NEW shape \in Shapes, Allocated(a, shape),
         NEW object, object.shape = shape,
         object = [shape |-> object.shape, items |-> object.items, parts |-> object.parts],
         heap' = Placed(heap, a, object), MadeInv', phase' # "sweep"
  PROVE  BytesInv'
<1>1. ShapedHeap(heap') /\ heap'[a] = object /\ \A b \in Addrs : b # a => heap'[b] = heap[b]
  BY PlacedShaped DEF BytesInv
<1>2. SameShapes(heap, heap', objects)
  BY <1>1 DEF SameShapes, BytesInv, Allocated
<1> QED BY <1>1, <1>2, BytesOfNew

\* An object that holds values when it is made.
Holding(shape, items) == [Fresh(shape) EXCEPT !.items = items]

LEMMA FreshBlock ==
  ASSUME NEW shape, NEW items, NEW object, object \in {Fresh(shape), Holding(shape, items)}
  PROVE  /\ object.shape = shape
         /\ object = [shape |-> object.shape, items |-> object.items, parts |-> object.parts]
BY DEF Fresh, Holding

\* What the allocating operations do.
LEMMA OneBlockBytes == BytesInv /\ (MakeOne \/ MakeFuncRef \/ GrowList) => BytesInv'
<1> SUFFICES ASSUME BytesInv, MakeOne \/ MakeFuncRef \/ GrowList PROVE BytesInv'
  OBVIOUS
<1>1. ASSUME MakeOne PROVE BytesInv'
  <2>1. PICK a \in Addrs, shape \in {"string", "list"} :
           Allocated(a, shape) /\ heap' = Placed(heap, a, Fresh(shape)) /\ Result(a)
    BY <1>1 DEF MakeOne, Placed
  <2> PICK object : object = Fresh(shape)
    OBVIOUS
  <2>2. /\ object.shape = shape
        /\ object = [shape |-> object.shape, items |-> object.items, parts |-> object.parts]
    BY FreshBlock
  <2>3. MadeInv' /\ phase' # "sweep" /\ shape \in Shapes
    BY <2>1, ReturnMade DEF Shapes
  <2> QED BY <2>1, <2>2, <2>3, BytesOfBlock
<1>2. ASSUME MakeFuncRef PROVE BytesInv'
  <2>1. PICK a \in Addrs :
           /\ Allocated(a, "funcref") /\ Result(a)
           /\ heap' = Placed(heap, a, Holding("funcref", <<local[dst]>>))
    BY <1>2 DEF MakeFuncRef, Placed, Holding
  <2> PICK object : object = Holding("funcref", <<local[dst]>>)
    OBVIOUS
  <2>2. /\ object.shape = "funcref"
        /\ object = [shape |-> object.shape, items |-> object.items, parts |-> object.parts]
    BY FreshBlock
  <2>3. MadeInv' /\ phase' # "sweep" /\ "funcref" \in Shapes
    BY <2>1, ReturnMade DEF Shapes
  <2> QED BY <2>1, <2>2, <2>3, BytesOfBlock
<1>3. ASSUME GrowList PROVE BytesInv'
  <2>1. PICK a \in Addrs :
           /\ Allocated(a, "list") /\ Result(a)
           /\ heap' = Placed(heap, a, Holding("list", heap[local[dst]].items))
    BY <1>3 DEF GrowList, Placed, Holding
  <2> PICK object : object = Holding("list", heap[local[dst]].items)
    OBVIOUS
  <2>2. /\ object.shape = "list"
        /\ object = [shape |-> object.shape, items |-> object.items, parts |-> object.parts]
    BY FreshBlock
  <2>3. MadeInv' /\ phase' # "sweep" /\ "list" \in Shapes
    BY <2>1, ReturnMade DEF Shapes
  <2> QED BY <2>1, <2>2, <2>3, BytesOfBlock
<1> QED BY <1>1, <1>2, <1>3

\* h with other parts in an object.
WithParts(h, owner, parts) == [h EXCEPT ![owner].parts = parts]

LEMMA PartsShaped ==
  ASSUME NEW h, ShapedHeap(h), NEW owner, NEW parts
  PROVE  /\ ShapedHeap(WithParts(h, owner, parts))
         /\ SameShapes(h, WithParts(h, owner, parts), Addrs)
<1> PICK g : g = WithParts(h, owner, parts)
  OBVIOUS
<1>1. CASE owner \notin Addrs
  <2>1. DOMAIN g = Addrs /\ \A b \in Addrs : g[b] = h[b]
    BY <1>1 DEF WithParts, ShapedHeap
  <2> QED BY <2>1 DEF ShapedHeap, SameShapes
<1>2. CASE owner \in Addrs
  <2>1. DOMAIN g = Addrs
    BY DEF WithParts, ShapedHeap
  <2>2. \A b \in Addrs : b # owner => g[b] = h[b]
    BY <1>2 DEF WithParts, ShapedHeap
  <2> PICK r : r = h[owner]
    OBVIOUS
  <2>3. r = [shape |-> r.shape, items |-> r.items, parts |-> r.parts] /\ r.shape \in Shapes
    BY <1>2 DEF ShapedHeap
  <2>4. g[owner] = [r EXCEPT !.parts = parts]
    BY <1>2 DEF WithParts, ShapedHeap
  <2>5. g[owner] = [shape |-> r.shape, items |-> r.items, parts |-> parts]
    BY <2>3, <2>4
  <2>6. /\ g[owner] = [shape |-> g[owner].shape, items |-> g[owner].items,
                       parts |-> g[owner].parts]
        /\ g[owner].shape = r.shape
    BY <2>5
  <2> QED BY <2>1, <2>2, <2>3, <2>6 DEF ShapedHeap, SameShapes
<1> QED BY <1>1, <1>2

LEMMA GrowMapBytes == BytesInv /\ GrowMap => BytesInv'
<1> SUFFICES ASSUME BytesInv, GrowMap PROVE BytesInv'
  OBVIOUS
<1>1. PICK a \in Addrs :
         /\ Allocated(a, "entries") /\ Result(local[dst])
         /\ heap' = [heap EXCEPT
                      ![a] = [Fresh("entries") EXCEPT !.items = Contents(local[dst])],
                      ![local[dst]].parts = <<a>> \o Tail(@)]
  BY DEF GrowMap
<1> PICK o, object : o = local[dst] /\ object = Holding("entries", Contents(o))
  OBVIOUS
<1> PICK h : h = Placed(heap, a, object)
  OBVIOUS
<1>2. \E parts : heap' = WithParts(h, o, parts)
  <2>0. heap' = [heap EXCEPT ![a] = object, ![o].parts = <<a>> \o Tail(@)]
    BY <1>1 DEF Holding
  <2>1. CASE o = a
    <3>1. \E parts : heap' = [[heap EXCEPT ![a] = object] EXCEPT ![o].parts = parts]
      BY <2>0, <2>1
    <3> QED BY <3>1 DEF WithParts, Placed
  <2>2. CASE o # a
    <3>1. heap' = [[heap EXCEPT ![a] = object] EXCEPT ![o].parts = <<a>> \o Tail(heap[o].parts)]
      BY <2>0, <2>2
    <3>2. heap' = WithParts(h, o, <<a>> \o Tail(heap[o].parts))
      BY <3>1 DEF WithParts, Placed
    <3> QED BY <3>2
  <2> QED BY <2>1, <2>2
<1>0. /\ object.shape = "entries" /\ object.shape \in Shapes
      /\ object = [shape |-> object.shape, items |-> object.items, parts |-> object.parts]
  BY FreshBlock DEF Shapes
<1>3. ShapedHeap(h) /\ h[a] = object /\ \A b \in Addrs : b # a => h[b] = heap[b]
  BY <1>0, PlacedShaped DEF BytesInv
<1>4. ShapedHeap(heap') /\ SameShapes(h, heap', Addrs)
  BY <1>2, <1>3, PartsShaped
<1>5. heap'[a].shape = "entries"
  BY <1>0, <1>3, <1>4 DEF SameShapes
<1>6. SameShapes(heap, heap', objects)
  BY <1>1, <1>3, <1>4 DEF SameShapes, BytesInv, Allocated
<1>7. "entries" \in Shapes /\ MadeInv' /\ phase' # "sweep"
  BY <1>1, ReturnMade DEF Shapes
<1> QED BY <1>1, <1>4, <1>5, <1>6, <1>7, BytesOfNew

LEMMA MakeMapPartBytes == BytesInv /\ MakeMapPart => BytesInv'
<1> SUFFICES ASSUME BytesInv, MakeMapPart PROVE BytesInv'
  OBVIOUS
<1>1. PICK a \in Addrs :
         /\ op \in {"map", "varmap"}
         /\ Allocated(a, Allocates(op)[Len(made) + 1])
         /\ heap' = HeapWith(a)
         /\ IF Len(made) + 1 = Len(Allocates(op))
            THEN Result(made[1])
            ELSE /\ made' = Append(made, a)
                 /\ EnterAllocate(bytes')
                 /\ UNCHANGED <<local, op, dst>>
  BY DEF MakeMapPart
<1> PICK shape : shape = Allocates(op)[Len(made) + 1]
  OBVIOUS
<1>2. made \in Seq(Addrs) /\ Len(made) < Len(Allocates(op)) /\ Len(made) \in Nat
  BY <1>1 DEF BytesInv, MadeInv
<1>3. shape \in Shapes
  <2>1. Len(made) + 1 \in 1 .. Len(Allocates(op)) /\ Allocates(op) \in Seq(Shapes)
    BY <1>1, <1>2, AllocatesType
  <2> QED BY <2>1
<1>4. MadeInv' /\ phase' # "sweep"
  <2>1. CASE Len(made) + 1 = Len(Allocates(op))
    BY <1>1, <2>1, ReturnMade
  <2>2. CASE Len(made) + 1 # Len(Allocates(op))
    <3>1. /\ made' = Append(made, a) /\ op' = op /\ phase' \in {"mark", "malloc"}
      BY <1>1, <2>2 DEF EnterAllocate
    <3>2. Len(Allocates(op)) \in Nat
      BY <1>1, AllocatesType
    <3>3. made' \in Seq(Addrs) /\ Len(made') < Len(Allocates(op'))
      BY <1>2, <2>2, <3>1, <3>2
    <3> QED BY <1>1, <3>1, <3>3 DEF MadeInv, Operations
  <2> QED BY <2>1, <2>2
<1> PICK h : h = Placed(heap, a, Fresh(shape))
  OBVIOUS
<1>5. ShapedHeap(h) /\ h[a].shape = shape /\ \A b \in Addrs : b # a => h[b] = heap[b]
  <2> PICK object : object = Fresh(shape)
    OBVIOUS
  <2>1. /\ object.shape = shape
        /\ object = [shape |-> object.shape, items |-> object.items, parts |-> object.parts]
    BY FreshBlock
  <2> QED BY <1>3, <2>1, PlacedShaped DEF BytesInv
<1>6. ShapedHeap(heap') /\ SameShapes(h, heap', Addrs)
  <2>1. \/ heap' = h
        \/ \E o : heap' = Link(h, a, o)
        \/ \E o, p : heap' = Link(Link(h, a, o), o, p)
    BY <1>1 DEF HeapWith, Placed
  <2>2. CASE heap' = h
    BY <1>5, <2>2 DEF SameShapes
  <2>3. ASSUME NEW o, heap' = Link(h, a, o)
        PROVE  ShapedHeap(heap') /\ SameShapes(h, heap', Addrs)
    BY <1>5, <2>3, LinkShaped
  <2>4. ASSUME NEW o, NEW p, heap' = Link(Link(h, a, o), o, p)
        PROVE  ShapedHeap(heap') /\ SameShapes(h, heap', Addrs)
    <3> PICK g : g = Link(h, a, o)
      OBVIOUS
    <3>1. ShapedHeap(g) /\ SameShapes(h, g, Addrs)
      BY <1>5, LinkShaped
    <3>2. ShapedHeap(Link(g, o, p)) /\ SameShapes(g, Link(g, o, p), Addrs)
      BY <3>1, LinkShaped
    <3> QED BY <2>4, <3>1, <3>2 DEF SameShapes
  <2> QED BY <2>1, <2>2, <2>3, <2>4
<1>7. heap'[a].shape = shape /\ SameShapes(heap, heap', objects)
  BY <1>1, <1>5, <1>6 DEF SameShapes, BytesInv, Allocated
<1>8. Allocated(a, shape)
  BY <1>1
<1> QED BY <1>3, <1>4, <1>6, <1>7, <1>8, BytesOfNew

LEMMA BytesInit == Init => BytesInv
<1> SUFFICES ASSUME Init PROVE BytesInv
  OBVIOUS
<1>1. ShapedHeap(heap)
  BY DEF Init, ShapedHeap, Fresh, Shapes
<1>2. MadeInv
  BY DEF Init, MadeInv
<1>3. Counted(bytes)
  <2> PICK w, S : w = Weights /\ S = {}
    OBVIOUS
  <2>1. IsFiniteSet(S)
    BY FS_EmptySet
  <2>2. PICK f : IsSum(w, f, S)
    BY <2>1, SumsExist
  <2>3. f[{}] = 0
    BY <2>1, <2>2, SumEmpty
  <2> QED BY <2>2, <2>3 DEF Counted, Init
<1> QED BY <1>1, <1>2, <1>3 DEF BytesInv, Init

LEMMA BytesStep == BytesInv /\ [Next]_vars => BytesInv'
<1> SUFFICES ASSUME BytesInv, [Next]_vars PROVE BytesInv'
  OBVIOUS
<1>1. CASE MallocFails
  <2>1. /\ phase = "malloc" /\ phase' \in {"mark", "exited"}
        /\ UNCHANGED <<objects, heap, bytes, op, made>>
    BY <1>1 DEF MallocFails, StartCollection
  <2>2. MadeInv'
    BY <2>1 DEF MadeInv, BytesInv
  <2> QED BY <2>1, <2>2, BytesOfSameHeap
<1>2. CASE UNCHANGED vars
  BY <1>2 DEF vars, BytesInv, MadeInv, Counted, Weights
<1> QED BY <1>1, <1>2, ProgramBytes, CollectorBytes, OneBlockBytes, GrowMapBytes, MakeMapPartBytes
        DEF Next, Allocate

LEMMA BytesCounted == BytesInv => BytesExact
<1> SUFFICES ASSUME BytesInv, phase # "exited"
             PROVE  bytes = MapThenSumSet(LAMBDA a : Size[heap[a].shape], objects)
  BY DEF BytesExact
<1> PICK total : total = MapThenSumSet(LAMBDA a : Size[heap[a].shape], objects)
  OBVIOUS
<1>1. Counted(total)
  BY TotalIsSum
<1>2. PICK f : IsSum(Weights, f, objects) /\ bytes = f[objects]
  BY DEF BytesInv, Counted
<1>3. total = f[objects]
  BY <1>1, <1>2, CountedOnce
<1> QED BY <1>2, <1>3

\* bytes_allocated is the sum of the sizes of what is allocated, whatever the
\* program makes and whether or not it keeps to the discipline: gc_allocate,
\* the sweep and gc_shutdown account for each object once.
THEOREM BytesStayExact == Spec => []BytesExact
<1>1. BytesInv /\ [Next]_vars => BytesInv'
  BY BytesStep
<1> QED BY <1>1, BytesInit, BytesCounted, PTL DEF Spec
=============================================================================
