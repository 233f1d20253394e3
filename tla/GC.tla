--------------------------------- MODULE GC ---------------------------------
(***************************************************************************)
(* The mark-and-sweep collector of the C runtime, MS2Proto3/cpp/core/gc.c, *)
(* under the programs that allocate through it: value_list.c, value_map.c, *)
(* value_string.c and make_funcref in value.h.                             *)
(*                                                                         *)
(* Roots are the local Value variables a program registered on the shadow  *)
(* stack.  gc_allocate may collect before it calls malloc; the collector   *)
(* runs to completion on the program's own thread, here one object per     *)
(* step.  The recursion of gc_mark_value is a list of the values still to  *)
(* be passed to it, the contents of an object being put in front: the      *)
(* order of the visits is the code's.  The list of all objects is a set.   *)
(*                                                                         *)
(* A value is the address of the object it refers to; its tag bits are the *)
(* shape of that object.  Numbers, null and tiny strings are Nil.          *)
(***************************************************************************)
EXTENDS Integers, Sequences, FiniteSets, FiniteSetsExt

CONSTANTS
  Addrs,           \* what malloc can return to gc_allocate
  Interned,        \* strings of the intern table: malloc'ed, no GC header
  Locals,          \* local Value variables of the C code
  Nil,
  Size,            \* bytes of an object with its header, by shape
  FirstThreshold,  \* gc_threshold after gc_init (1 MB in the program)
  SizeRange,       \* 2^w for a size_t of w bits
  MaxScopes,       \* length of scope_stack (64 in the program)
  MaxItems,        \* bound of the model: items in a list or map
  MaxDisable,      \* bound of the model: nested gc_disable calls
  Makes,           \* what the program makes, a subset of Operations
  MapsUnderGC,     \* TRUE: the program also makes maps with the GC enabled
  Reports          \* TRUE: gc_mark_and_report gets called

Shapes == {"string", "list", "map", "entries", "funcref", "vardata", "array"}

\* The operations that allocate, and what each passes to gc_allocate in turn.
Operations == {"string", "list", "map", "grow", "funcref", "varmap"}

Allocates(operation) ==
  CASE operation = "map"    -> <<"map", "entries">>
    [] operation = "varmap" -> <<"map", "entries", "vardata", "array", "array">>
    [] OTHER                -> <<operation>>

ASSUME GCAssumption ==
  /\ IsFiniteSet(Addrs)
  /\ Addrs \cap Interned = {} /\ Nil \notin Addrs \cup Interned \cup Locals
  /\ Size \in [Shapes -> Nat \ {0}]
  /\ SizeRange \in Nat /\ FirstThreshold \in 0 .. SizeRange - 1
  /\ MaxScopes \in Nat /\ MaxItems \in Nat /\ MaxDisable \in Nat
  /\ Makes \subseteq Operations
  /\ MapsUnderGC \in BOOLEAN /\ Reports \in BOOLEAN

VARIABLES
  objects,        \* gc.all_objects
  marked,         \* the mark bit of each object's header
  heap,           \* what is stored at an address
  local,          \* the C locals
  roots, scopes,  \* shadow stack: locals; scope stack: root counts
  bytes, threshold, disableCount,
  phase,          \* where control is, see Phases
  op, dst, made,  \* the allocating operation that runs, the local its result
                  \* is for, the addresses it holds in raw C pointers
  work,           \* values gc_mark_value has yet to visit
  unswept,        \* objects gc_sweep_phase has yet to visit
  before,         \* bytes_allocated when the collection began
  retrying        \* gc_allocate: malloc failed once already

shadow  == <<roots, scopes>>
job     == <<op, dst, made, retrying>>
tracing == <<marked, work, unswept, before>>

vars == <<objects, marked, heap, local, roots, scopes, bytes, threshold, disableCount,
          phase, op, dst, made, work, unswept, before, retrying>>

Values == Addrs \cup Interned \cup {Nil}

\* parts are raw pointers to arrays, items are Values.
Objects == [shape : Shapes, items : Seq(Values), parts : Seq(Addrs)]

\* "run": the program.  "malloc": gc_allocate after its collection, if any.
\* "report": the mark phase of gc_mark_and_report.  "exited": no memory was
\* left, or gc_shutdown.
Phases == {"run", "mark", "report", "sweep", "malloc", "exited"}

Fresh(shape) == [shape |-> shape, items |-> <<>>, parts |-> <<>>]

Protected == {roots[i] : i \in DOMAIN roots}

\* The values in a list or map, which gc_mark_list and gc_mark_map go through.
Contents(a) ==
  CASE heap[a].shape = "list" -> heap[a].items
    [] heap[a].shape = "map" /\ heap[a].parts # <<>> -> heap[heap[a].parts[1]].items
    [] OTHER -> <<>>

\* What the program can get hold of in one step.
Visible ==
  LET held == {local[x] : x \in Protected}
  IN  {Nil} \cup Interned \cup held
        \cup UNION {{Contents(a)[i] : i \in DOMAIN Contents(a)} : a \in held \cap Addrs}
-----------------------------------------------------------------------------
(* The shadow stack.                                                       *)

\* Mutant: the scope starts at the number of scopes.
StartIndex_ScopeCount == Len(scopes)

StartIndex == Len(roots)

PushScope ==
  /\ phase = "run" /\ Len(scopes) < MaxScopes
  /\ scopes' = Append(scopes, StartIndex)
  /\ UNCHANGED <<objects, heap, local, roots, bytes, threshold, disableCount, phase,
                 job, tracing>>

\* gc_protect_value of a local that comes into use.
Protect ==
  /\ phase = "run"
  /\ \E x \in Locals \ Protected, v \in Visible :
       /\ local' = [local EXCEPT ![x] = v]
       /\ roots' = Append(roots, x)
  /\ UNCHANGED <<objects, heap, scopes, bytes, threshold, disableCount, phase, job, tracing>>

ScopeStart == scopes[Len(scopes)]

\* gc_pop_scope; the function returns, so its locals end.
PopScope ==
  /\ phase = "run" /\ scopes # <<>>
  /\ roots' = SubSeq(roots, 1, ScopeStart)
  /\ scopes' = SubSeq(scopes, 1, Len(scopes) - 1)
  /\ local' = [x \in Locals |-> IF \E i \in 1 .. ScopeStart : roots[i] = x
                                THEN local[x] ELSE Nil]
  /\ UNCHANGED <<objects, heap, bytes, threshold, disableCount, phase, job, tracing>>

Disable ==
  /\ phase = "run" /\ disableCount < MaxDisable
  /\ disableCount' = disableCount + 1
  /\ UNCHANGED <<objects, heap, local, shadow, bytes, threshold, phase, job, tracing>>

\* Mutant: gc_enable without its assertion.
Enable_Unchecked ==
  /\ phase = "run"
  /\ disableCount' = disableCount - 1
  /\ UNCHANGED <<objects, heap, local, shadow, bytes, threshold, phase, job, tracing>>

Enable ==
  /\ phase = "run" /\ disableCount > 0
  /\ disableCount' = disableCount - 1
  /\ UNCHANGED <<objects, heap, local, shadow, bytes, threshold, phase, job, tracing>>
-----------------------------------------------------------------------------
(* The program works on its values.                                        *)

\* A protected local takes another value, a container's element included.
Assign ==
  /\ phase = "run"
  /\ \E x \in Protected, v \in Visible : local' = [local EXCEPT ![x] = v]
  /\ UNCHANGED <<objects, heap, shadow, bytes, threshold, disableCount, phase, job, tracing>>

\* Where list_push and map_set put a value: the list, or the map's entries.
Storage(a) == IF heap[a].shape = "map" THEN heap[a].parts[1] ELSE a
Containers == {local[x] : x \in Protected} \cap {a \in Addrs : heap[a].shape \in {"list", "map"}}

Store ==
  /\ phase = "run"
  /\ \E a \in Containers, x \in Protected :
       /\ Len(Contents(a)) < MaxItems
       /\ heap' = [heap EXCEPT ![Storage(a)].items = Append(@, local[x])]
  /\ UNCHANGED <<objects, local, shadow, bytes, threshold, disableCount, phase, job, tracing>>

\* list_pop, list_clear, map_remove, map_clear: the last items go.
Drop ==
  /\ phase = "run"
  /\ \E a \in Containers : \E n \in 0 .. Len(Contents(a)) - 1 :
       heap' = [heap EXCEPT ![Storage(a)].items = SubSeq(@, 1, n)]
  /\ UNCHANGED <<objects, local, shadow, bytes, threshold, disableCount, phase, job, tracing>>
-----------------------------------------------------------------------------
(* gc_allocate.                                                            *)

\* Mutant: locals protected by the innermost scope only.
RootValues_Inner ==
  LET outer == IF scopes = <<>> THEN 0 ELSE scopes[Len(scopes)]
  IN  [i \in 1 .. Len(roots) - outer |-> local[roots[i + outer]]]

RootValues == [i \in DOMAIN roots |-> local[roots[i]]]

\* gc_collect up to the mark phase.
StartCollection ==
  /\ phase' = "mark" /\ work' = RootValues /\ before' = bytes
  /\ UNCHANGED <<marked, unswept>>

\* gc_allocate up to malloc, with b bytes allocated.
EnterAllocate(b) ==
  \/ /\ disableCount = 0 /\ b > threshold
     /\ phase' = "mark" /\ work' = RootValues /\ before' = b
  \/ /\ disableCount > 0 \/ b <= threshold
     /\ phase' = "malloc" /\ UNCHANGED <<work, before>>

\* The program calls an operation that allocates.
Make ==
  /\ phase = "run"
  /\ \E operation \in Makes, x \in Protected :
       /\ operation \in {"map", "varmap"} => MapsUnderGC \/ disableCount > 0
       /\ operation = "grow" => local[x] \in Containers
       /\ op' = operation /\ dst' = x
  /\ EnterAllocate(bytes)
  /\ UNCHANGED <<objects, heap, local, shadow, bytes, threshold, disableCount, made,
                 retrying, marked, unswept>>

\* gc_allocate from malloc on: a block of the given shape at address a.
Allocated(a, shape) ==
  /\ phase = "malloc" /\ a \in Addrs \ objects
  /\ objects' = objects \cup {a}
  /\ marked' = [marked EXCEPT ![a] = FALSE]
  /\ bytes' = bytes + Size[shape]
  /\ retrying' = FALSE
  /\ UNCHANGED <<roots, scopes, threshold, disableCount, unswept>>

\* The operation returns value v.
Result(v) ==
  /\ local' = [local EXCEPT ![dst] = v]
  /\ phase' = "run" /\ op' = "none" /\ dst' = Nil /\ made' = <<>>
  /\ UNCHANGED <<work, before>>

\* make_string of a long string, make_list.
MakeOne ==
  \E a \in Addrs, shape \in {"string", "list"} :
    /\ op = shape
    /\ Allocated(a, shape)
    /\ heap' = [heap EXCEPT ![a] = Fresh(shape)]
    /\ Result(a)

\* make_funcref over the value the local held.
MakeFuncRef ==
  \E a \in Addrs :
    /\ op = "funcref"
    /\ Allocated(a, "funcref")
    /\ heap' = [heap EXCEPT ![a] = [Fresh("funcref") EXCEPT !.items = <<local[dst]>>]]
    /\ Result(a)

\* list_with_expanded_capacity: a copy.
GrowList ==
  \E a \in Addrs :
    /\ op = "grow" /\ heap[local[dst]].shape = "list"
    /\ Allocated(a, "list")
    /\ heap' = [heap EXCEPT ![a] = [Fresh("list") EXCEPT !.items = heap[local[dst]].items]]
    /\ Result(a)

\* map_expand_capacity: a new entries array in the same map.
GrowMap ==
  \E a \in Addrs :
    /\ op = "grow" /\ heap[local[dst]].shape = "map"
    /\ Allocated(a, "entries")
    /\ heap' = [heap EXCEPT
                 ![a] = [Fresh("entries") EXCEPT !.items = Contents(local[dst])],
                 ![local[dst]].parts = <<a>> \o Tail(@)]
    /\ Result(local[dst])

\* The pointer to a new block is stored in the object it belongs to.
Link(h, a, owner) == [h EXCEPT ![owner].parts = Append(@, a)]

\* make_map and make_varmap call gc_allocate several times, with the blocks
\* they have in raw pointers that no root reaches.
HeapWith(a) ==
  LET shape == Allocates(op)[Len(made) + 1]
      h == [heap EXCEPT ![a] = Fresh(shape)]
  IN  CASE shape = "entries" -> Link(h, a, made[1])
        [] shape = "array"   -> IF Len(made) = 3 THEN Link(h, a, made[3])
                                ELSE Link(Link(h, a, made[3]), made[3], made[1])
        [] OTHER             -> h

MakeMapPart ==
  \E a \in Addrs :
    /\ op \in {"map", "varmap"}
    /\ Allocated(a, Allocates(op)[Len(made) + 1])
    /\ heap' = HeapWith(a)
    /\ IF Len(made) + 1 = Len(Allocates(op))
       THEN Result(made[1])
       ELSE /\ made' = Append(made, a)
            /\ EnterAllocate(bytes')
            /\ UNCHANGED <<local, op, dst>>

\* malloc failed: collect and try again, once, or exit.
MallocFails ==
  /\ phase = "malloc" /\ Addrs \subseteq objects
  /\ \/ disableCount = 0 /\ ~retrying /\ retrying' = TRUE /\ StartCollection
     \/ /\ disableCount > 0 \/ retrying
        /\ phase' = "exited" /\ UNCHANGED <<retrying, tracing>>
  /\ UNCHANGED <<objects, heap, local, shadow, bytes, threshold, disableCount, op, dst, made>>
-----------------------------------------------------------------------------
(* gc_collect.                                                             *)

Collect ==
  /\ phase = "run" /\ disableCount = 0
  /\ StartCollection
  /\ UNCHANGED <<objects, heap, local, shadow, bytes, threshold, disableCount, job>>

\* gc_mark_and_report: a mark phase that no sweep follows.
Report ==
  /\ phase = "run" /\ Reports
  /\ phase' = "report" /\ work' = RootValues
  /\ UNCHANGED <<objects, heap, local, shadow, bytes, threshold, disableCount, job,
                 marked, unswept, before>>

\* Mutant: gc_mark_map leaves the entries array.
Headers_MapOnly(a) == {a}

\* The headers a visit marks: of the object, of a map's entries array.
Headers(a) == {a} \cup (IF heap[a].shape = "map" /\ heap[a].parts # <<>>
                        THEN {heap[a].parts[1]} ELSE {})

\* gc_mark_value, gc_mark_string, gc_mark_list and gc_mark_map.  They go by
\* the tag and return at once from what is marked already.  (The bit that
\* gc_mark_string sets in front of an interned string is in no object.)
Traced == {"string", "list", "map"}

\* Mutant: no check for what is marked.
Unvisited_Always(v) == v \in Addrs /\ heap[v].shape \in Traced

Unvisited(v) == v \in Addrs /\ heap[v].shape \in Traced /\ ~marked[v]

Mark ==
  /\ phase \in {"mark", "report"} /\ work # <<>>
  /\ LET v == Head(work)
     IN  /\ marked' = IF Unvisited(v) THEN [a \in Addrs |-> marked[a] \/ a \in Headers(v)]
                      ELSE marked
         /\ work' = IF Unvisited(v) THEN Contents(v) \o Tail(work) ELSE Tail(work)
     /\ UNCHANGED <<objects, heap, local, shadow, bytes, threshold, disableCount, phase,
                 job, unswept, before>>

EndMark ==
  /\ phase = "mark" /\ work = <<>>
  /\ phase' = "sweep" /\ unswept' = objects
  /\ UNCHANGED <<objects, heap, local, shadow, bytes, threshold, disableCount, job,
                 marked, work, before>>

EndReport ==
  /\ phase = "report" /\ work = <<>>
  /\ phase' = "run"
  /\ UNCHANGED <<objects, heap, local, shadow, bytes, threshold, disableCount, job, tracing>>

\* Mutant: the mark bit is not cleared for the next collection.
Unmark_Kept(a) == marked

Unmark(a) == [marked EXCEPT ![a] = FALSE]

SweepLive ==
  /\ phase = "sweep"
  /\ \E a \in unswept :
       /\ marked[a]
       /\ marked' = Unmark(a)
       /\ unswept' = unswept \ {a}
  /\ UNCHANGED <<objects, heap, local, shadow, bytes, threshold, disableCount, phase,
                 job, work, before>>

\* Mutant: the freed bytes are not accounted for.
Freed_Uncounted(a) == 0
Freed(a) == Size[heap[a].shape]

SweepGarbage ==
  /\ phase = "sweep"
  /\ \E a \in unswept :
       /\ ~marked[a]
       /\ objects' = objects \ {a}
       /\ unswept' = unswept \ {a}
       /\ bytes' = bytes - Freed(a)
       /\ heap' = [heap EXCEPT ![a] = Fresh("string")]   \* free: contents are gone
  /\ UNCHANGED <<local, shadow, threshold, disableCount, phase, job, marked, work,
                 before>>

\* gc_collect after the sweep: back to its caller.
EndSweep ==
  /\ phase = "sweep" /\ unswept = {}
  /\ threshold' = IF before - bytes < threshold \div 4
                  THEN (2 * threshold) % SizeRange ELSE threshold
  /\ phase' = IF op = "none" THEN "run" ELSE "malloc"
  /\ before' = 0
  /\ UNCHANGED <<objects, heap, local, shadow, bytes, disableCount, job,
                 marked, work, unswept>>

\* gc_shutdown: everything is freed, the state is zeroed, so that its last
\* collection leaves no trace.
Shutdown ==
  /\ phase = "run"
  /\ objects' = {} /\ roots' = <<>> /\ scopes' = <<>>
  /\ bytes' = 0 /\ threshold' = 0 /\ disableCount' = 0
  /\ phase' = "exited"
  /\ UNCHANGED <<heap, local, job, tracing>>
-----------------------------------------------------------------------------
Init ==
  /\ objects = {} /\ marked = [a \in Addrs |-> FALSE]
  /\ heap = [a \in Addrs |-> Fresh("string")]
  /\ local = [x \in Locals |-> Nil]
  /\ roots = <<>> /\ scopes = <<>>
  /\ bytes = 0 /\ threshold = FirstThreshold /\ disableCount = 0
  /\ phase = "run" /\ op = "none" /\ dst = Nil /\ made = <<>>
  /\ work = <<>> /\ unswept = {} /\ before = 0
  /\ retrying = FALSE

Program == PushScope \/ Protect \/ PopScope \/ Disable \/ Enable \/ Assign \/ Store \/ Drop
             \/ Make \/ Collect \/ Report \/ Shutdown
Allocate == MakeOne \/ MakeFuncRef \/ GrowList \/ GrowMap \/ MakeMapPart \/ MallocFails
Collector == Mark \/ EndMark \/ EndReport \/ SweepLive \/ SweepGarbage \/ EndSweep

Next == Program \/ Allocate \/ Collector

\* A call of gc_collect or gc_allocate runs to its end.
Fairness == WF_vars(Collector) /\ WF_vars(Allocate)

Spec == Init /\ [][Next]_vars /\ Fairness
-----------------------------------------------------------------------------
(* Properties.                                                             *)

\* The objects an object refers to, by value or by raw pointer.
Items(a) == {heap[a].items[i] : i \in DOMAIN heap[a].items} \cap Addrs
Parts(a) == {heap[a].parts[i] : i \in DOMAIN heap[a].parts}
Edges(a) == Items(a) \cup Parts(a)

\* Everything reachable from the protected locals: what is in each set that
\* contains their objects and is closed under Edges.
RootTargets == {local[x] : x \in Protected} \cap Addrs
Closed(S) == /\ RootTargets \subseteq S
             /\ \A a \in S : Edges(a) \subseteq S
Reach == {a \in Addrs : \A S \in SUBSET Addrs : Closed(S) => a \in S}

\* Every variable has a value of its kind.
TypeOK ==
  /\ objects \subseteq Addrs /\ unswept \subseteq Addrs
  /\ marked \in [Addrs -> BOOLEAN]
  /\ heap \in [Addrs -> Objects]
  /\ local \in [Locals -> Values]
  /\ roots \in Seq(Locals) /\ scopes \in Seq(Nat)
  /\ bytes \in Int /\ before \in Int /\ threshold \in Nat /\ disableCount \in Nat
  /\ phase \in Phases
  /\ op \in Operations \cup {"none"} /\ dst \in Locals \cup {Nil} /\ made \in Seq(Addrs)
  /\ work \in Seq(Values) /\ retrying \in BOOLEAN

\* What the program must keep to: MS2Proto3/README.md asks it to protect its
\* locals or to disable the GC; the constructors of maps leave only the latter,
\* and gc_mark_value passes over funcrefs and the arrays of VarMaps.
Disciplined ==
  /\ Makes \subseteq {"string", "list", "map", "grow"}
  /\ ~MapsUnderGC /\ ~Reports

\* The collector never frees what a protected local reaches (GC_USAGE.md,
\* memory management details: "All objects reachable from protected
\* variables are marked", "Unmarked objects are freed").
NoDangling == Reach \subseteq objects

\* No mark survives a collection: what a mark bit says is of use to nobody
\* outside (MEMORY_SYSTEMS.md: "The `marked` flag is only valid during a
\* collection cycle").
MarksCleared == phase \in {"run", "malloc"} => \A a \in objects : ~marked[a]

\* bytes_allocated is the sum of the sizes of what is allocated, through
\* every interleaving of allocations and sweeps.
BytesExact ==
  phase # "exited" => bytes = MapThenSumSet(LAMBDA a : Size[heap[a].shape], objects)

\* A collection is exact: when its sweep ends what remains is what was
\* reachable, cycles of garbage included (MEMORY_SYSTEMS.md: "Objects live
\* until unreachable from root set, then collected during GC sweep").
CollectExact ==
  [][phase = "sweep" /\ phase' # "sweep" => objects = Reach]_vars

\* Scopes nest on the shadow stack: each begins no later than the next one
\* and the innermost within the roots there are, so that popping them in turn
\* never makes the root count grow over abandoned pointers.
ScopesNest ==
  \A i \in DOMAIN scopes : scopes[i] <= (IF i = Len(scopes) THEN Len(roots) ELSE scopes[i + 1])

\* Whatever the program calls returns to it, or the process exits.
ProgramResumes == phase # "run" ~> phase \in {"run", "exited"}
=============================================================================
