# TLA+ models of the MiniScript 2.0 prototypes

This directory holds TLA+ specifications of the prototypes of MiniScript 2.0 in
this repository: above all the third one (`src/MS2Proto3`) with its assembler, its
virtual machine, its two value runtimes and its memory management, and around
it the parser prototypes (`MS2Proto4`, `MS2Proto5`), the two earlier virtual
machines and their ancestor (`MS2Proto1`, `MS2Proto2`, `TinyVM`) and the classic
value system (`DynamicTypes/implementations/cpp-classic`). Paths below are
relative to `src/MS2Proto3` unless they begin with `src/` or with the name of
another prototype.

## 1. Inventory

### Components, state and interaction

| Component | Source | State | Operations | Module |
|---|---|---|---|---|
| VM | `cs/VM.cs`, `cs/FuncDef.cs`, `cs/ValueFuncRef.cs` | registers, names, call stack, base, PC, current function, what `Run` saved | `Reset`, `Run` with one case per opcode | `VMFrames`, `Machine` |
| VarMap | `cs/VarMap.cs` | a map some of whose keys stand for registers | `Get`, `Set`, `Remove`, `HasKey`, `Gather` | `VMFrames` |
| Assembler | `cs/Assembler.cs`, `cs/Bytecode.cs` | functions, labels, constants, `MaxRegs`, errors | `AddLine`, `Assemble` | `Assembler`, `HostStrings` |
| Disassembler | `cs/Disassembler.cs` | none | words to operands | `Bytecode`, `Machine` |
| Collector | `cpp/core/gc.c` | object list, mark bits, shadow stack, scopes, byte count, threshold, disable count | `gc_allocate`, `gc_collect`, protect, scopes, enable/disable, shutdown | `GC` |
| Collector's debug output | `cpp/core/gc_debug_output.c` | the same mark bits | `gc_mark_and_report` | `GC` |
| Maps | `cpp/core/value_map.c` | open-addressing table, VarMap data | get, set, remove, grow, copy, clear | `HashMap` |
| Lists | `cpp/core/value_list.c` | fixed-capacity array | push, pop, insert, remove, get, set, copy to a larger list | `Lists` |
| Strings | `cpp/core/value_string.c` | bytes; an intern table | concatenation, substring, split, replace, comparison | `Strings` |
| Values | `cpp/core/value.c`, `value.h`, `cs/Value.cs` | none | tags, arithmetic, equality, hashing | `Values`, `CSharp` |
| Host strings | `cs/StringUtils.cs`, `cpp/core/StringStorage.c`, `unicodeUtil.c` | none | search, case, trimming, split, join, format | `Texts`, `Strings` |
| .NET collections in C++ | `cpp/core/CS_List.h`, `src/MS2Proto5/cpp/core/CS_Dictionary.h` | blocks or tables shared by copies | List, Dictionary | `Collections` |
| Pools | `cpp/core/MemPool.cpp`, `StringPool.cpp` | pools of blocks, a hash table of strings per pool | alloc, adopt, clear, intern | `StringPool` |
| App | `cs/App.cs`, `cs/UnitTests.cs`, `cs/VMVis.cs` | default pool, the display's pool | tests, loads, assembles, runs, possibly a few cycles at a time with a display between them | `HostStrings`, `Machine` |
| Parsers | `src/MS2Proto5/cs`, `src/MS2Proto4/cs`, `eval.ms` | tokens, variables | lex, parse, simplify or evaluate a line | `Syntax`, `Parser`, `Evaluators` |
| MS2Proto2 | `src/MS2Proto2/src` | functions with code, constants, labels, references; stack and calls | `assemble_file`, `vm_exec` | `Proto2Assembler`, `Proto2VM` |
| MS2Proto1, TinyVM | `src/MS2Proto1`, `src/TinyVM` | registers, call stack | `Run` | `Proto1VM`, `Proto2VM` |
| Classic values | `src/DynamicTypes/implementations/cpp-classic` | storages with owner counts, vectors, hash maps, texts | the `Value`, `List`, `Dictionary`, `String` classes | `Classic` and below |

The VM calls VarMap when code takes its `locals` or makes a closure; a VarMap
keeps a pointer to the VM's register and name arrays, so the two share state. The
assembler fills the functions the VM runs; both see the same instruction words,
which the assembler packs and the VM and the disassembler take apart. The
collector is called by every constructor of the value runtime, through
`gc_allocate`; it reads the C locals the shadow stack points to. The C# sources
are translated to C++ and then work on `CS_String`, `CS_List`, `CS_Dictionary` and
the C core instead of .NET. Everything runs on one thread.

### What is hard here

* **Windows and shared registers.** A call slides the base pointer; caller and
  callee share one array. Four opcodes set up the callee's window in four
  different ways (`CALL`, `ARGBLK`, `CALLF`, `LOADC`).
* **Maps over live registers.** A closure reads and writes its maker's
  registers while the maker runs, and must have its own copy afterwards. The
  map is cached in a call stack slot that the next call uses for itself.
* **Two passes that must count alike.** Both assemblers number instructions once
  for the labels and once when they emit them, and pack operands into bytes
  that another component unpacks, signed or unsigned.
* **A run that is left and entered again.** `Run` keeps its state in locals and
  saves them on some of its exits.
* **A collection inside any allocation.** Whatever a constructor holds in a
  raw pointer, or the program forgot to protect, is fair game.
* **Traversal of a cyclic heap** with a mark bit that must be clear before; walks
  along `__isa`, hashing and equality over values that contain themselves.
* **Pools that are drained as a whole.** A string is a pool number and an index.
  Assembler, host program and display each take an unused pool, make it the
  default, move what must survive to another pool, and drain it; a reference
  held over that moment reads as the empty string, or as another one.
* **One program, two runtimes.** C# strings are UTF-16 and unbounded, C strings are
  bytes; C# lists grow; a copy of a C++ List or Dictionary shares what there is
  to share at that moment.
* **Copies that share.** Handles of one table with a count each; storages with
  owner counts; items that stay in slots out of use.
* **Boundaries**: call stack exactly full, register windows at `MaxRegs`,
  full tables of labels and references, malloc failure with one retry, a byte
  count that must not wrap, 32-bit arithmetic that turns into doubles.

`PROJECT.json` lists the hazards one by one, each at its line, with the
properties that cover it or the reason none does.

## 2. Modules

| Module | Models | Checked with | Proved in |
|---|---|---|---|
| `VMFrames` | the VM's frames, names, call stack and VarMaps | `MCVMFrames`, `vm_*.cfg` | `VMFrames_proof` |
| `Activations` | what calling and returning should look like from outside | as a property of `VMFrames` | `VMFrames_proof` |
| `Machine` | a program assembled, loaded, run in one go or by cycles, and reported on | `MCMachine`, `machine.cfg` | `Machine_proof` |
| `Program`, `Assembler`, `Bytecode` | lines and tokens; both passes of the assembler; instruction words, packed and listed | through `Machine` | `Machine_proof` |
| `Source` | what an assembly program says and does, without words, offsets or indices | as a property of `Machine` | `Source_proof` |
| `GC` | the collector under the programs that allocate through it | `MCGC`, `gc_*.cfg` | `GC_proof` |
| `HashMap` | the open-addressing map of the C runtime | `map_finite.cfg` | `HashMap_proof` |
| `FiniteMap` | what a map promises | as a property of `HashMap` | `HashMap_proof` |
| `StringPool` | pools of blocks and the strings interned in them | through `HostStrings` | `HostStrings_proof` |
| `HostStrings` | who takes, fills, switches and drains pools: App, tests, assembler, display | `MCHostStrings`, `host_strings.cfg` | `HostStrings_proof` |
| `Values`, `Lists`, `Strings`, `Texts` | values, lists and strings of the C core; host Strings on UTF-8 bytes | through `Runtimes` | |
| `CSharp` | the same operations in C# | through `Runtimes` | |
| `Runtimes` | the same calls made in both | `MCRuntimes`, `runtimes.cfg` | |
| `Collections` | CS_Dictionary and CS_List against .NET's | `collections.cfg` | |
| `Syntax`, `Parser` | lexer, parser, tree and folding of MS2Proto5, with grammar and precedences to compare | `MCParser`, `parser.cfg` | |
| `Evaluators` | MS2Proto4, and eval.ms with its own lexer | through `Parser` | |
| `Proto2Assembler`, `Proto2VM` | MS2Proto2's number values and assembler; its VM | through `Predecessors` | |
| `Proto1VM` | MS2Proto1's VM; TinyVM's, which is smaller, is the last section of `Proto2VM` | through `Predecessors` | |
| `Predecessors` | the programs that come with the three, and the assembling and running of any | `MCPredecessors`, `predecessors.cfg` | `Predecessors_proof` |
| `SimpleVector`, `ClassicText`, `ClassicValues` | vectors; strings; values, storages, hash maps and evaluation of cpp-classic | through `Classic` | |
| `Classic` | programs over them | `MCClassic`, `classic.cfg` | |

### VMFrames

State: `stack` and `names` (the two parallel arrays), `callStack` with
`callStackTop`, and the locals of `Run` (`pc`, `baseIndex`, `curFunc`,
`currentFuncIndex`). VarMaps are objects in `varMaps`, named by their index:
`regs` maps a variable to a register or `Unmapped`, `vals` holds what the
ordinary map holds. `status` says how `Run` ended; `crashed` is an index out of
range, which ends a C# program with an exception.

One action per opcode (`Load`, `Assign`, `Name`, `LoadV`, `FuncRef`, `Locals`,
`Outer`, `Globals`, `Index`, `IdxSet`, `Remove`, `Call`, `ArgBlk`, `CallError`,
`CallF`, `LoadC`, `Return`), and `OutOfCode` and `Crash`. `ArgBlk` is the whole
block, its ARGs and its CALL, as in the code. `RETURN` reads the slot at
`callStackTop`, not the one below, as the code does.

The program is a parameter: `Code[f][p]` is a *set* of instructions, one of
which is executed at that position. A set with several elements stands for a
family of programs, explored in one run. `MaxRegs` is computed from the code
the way the assembler does, from the destination operands.

Left out: arithmetic, comparisons, jumps (the choice at each position stands
for them; `Machine` has them), `CALLFN` other than the removal of a key, and the
cycle limit of `Run` (`Machine`).

`Activations` keeps a stack of activations, each with function and base. It is
the abstract specification: a call pushes, a return pops exactly what was
pushed. `CallsNest` states that `VMFrames` implements it; the refinement mapping
reads the caller's identity off the records in `callStack`.

### Machine, with Assembler, Bytecode, Source

`Machine` takes one program from its lines to the report at its end, through the
assembler, the host (`stage` = "host") and `Run` ("run"), in either mode of App; the actions are the loop of `Assemble`
and one action per family of opcodes in `Run`. A token that the code parses
into a number is the set of that number, empty where the code refuses it; a word
is an opcode and 24 bits of operands as one number, so that packing two operands
and reading three is possible, as in the code. `saved` is what the VM has in its
fields, `here` the locals of `Run`: an exit that does not write one back to the
other leaves the difference for the next `Run`.

`Source` is the abstract specification: each instruction line of a function is
a position, labels are positions, operands have the value that is written.
`RunsTheSource` says that the machine implements it for well-formed programs,
errors and the end of the budget included. `AssemblesTheWellFormed` says which programs these
are, from both sides: one that is well formed, and has room for its constants, is assembled, and the VM reads in
every word the operands that are written; one that is not is refused, or some of its words, or its
functions, are not what is written. The programs of the run include ill-formed ones of every kind met in the code:
immediates and registers that wrap, fractions whose halves are not numbers of 16 bits (Assembler.cs:1124, 1129),
CALLF to a function there is not, `.param` among the instructions, a `@main` without a body, two labels in a row. `ShownAsWritten` compares the listing,
and the line an error is reported at, with the source: a register or an immediate is
listed as written if and only if its field can hold it, signed or not as the listing takes it. `RegistersReserved` is
the assembler's promise to the VM, on which windows depend: a function reserves the registers up to the highest that one of its
instructions writes or names, exactly. CALLFN is the exception: it writes its register, and the
assembler reserves nothing for it (Assembler.cs:846-855).

Left out: names, closures and containers, which are `VMFrames`'; `GetTokens`.

### GC

State: `objects` (the object list), `marked`, `heap` (shape, values and raw
pointers of each block), `local` (the C locals), `roots` and `scopes` (shadow
stack), `bytes`, `threshold`, `disableCount`; `phase` and `work` hold where a
collection is. The recursion of `gc_mark_value` is `work`, the list of values
still to be visited, in the code's order; marking and sweeping go one object at a
time. `gc_allocate` is one action from the threshold test to the beginning of the
collection or to malloc (`EnterAllocate`), and one from malloc on (`Allocated`);
constructors that allocate several blocks hold the earlier ones in `made`,
which nothing protects.

The program is the most general client: it opens scopes, protects locals,
stores what it can reach into what it can reach, allocates and disables the
collector in any order. Whether it keeps to the rule of `README.md:9` is a
parameter: `Disciplined` says that maps are made with the collector disabled,
that no funcrefs and VarMaps are made, and that `gc_mark_and_report` is not
called. The first is what the rule demands; the other two exclude what the code
cannot handle. Each is reproduced by setting a constant of `gc_collect.cfg`:
with "funcref" in `Makes`, or "varmap" and five blocks, `NoDangling` fails, because
what a funcref and the data of a VarMap refer to is not marked (against
GC_USAGE.md:155); with
`MapsUnderGC = TRUE`, the second allocation in `make_map` may free the first one's block
(value_map.c:32, against README.md:9), which the caller gets all the same, so that `NoDangling` fails;
with `Reports = TRUE`, `MarksCleared` fails, and without it `CollectExact` and
`NoDangling`, because `gc_mark_and_report` leaves its marks behind and the next
collection does not go below a marked object (gc_debug_output.c:284).

Left out: `gc_unprotect_value`, which no file declares or calls; the root
array's growth by `realloc`; statistics.

### HashMap

State: `slots` is the entries array, a function on `0 .. capacity - 1`; `count`
is the field. `find_entry` is one expression: the first slot from the key's home
on, in circular order, that is free or holds the key. `hashOf` is any function
from keys to `Hashes`, chosen in the initial state, so that one run covers all
of them.

`base_map_set` is a procedure with three callers, and `caller` says which:
the program (`Set`), the loop of `map_remove` (`Displace`) and that of `map_copy`
(`CopyNext`). Each may find that the table has to grow (`Expand`, `Reinsert` per
old entry, `Expanded`) before `Insert`; `Return` goes back to the caller's loop.
Whether growth ever happens below a loop, whose indices would then be into
another table, is left to the steps and is not assumed (`TableSound` contains
that it does not).

`FiniteMap` is a partial function with the answer to the last operation.
`IsFiniteMap` states that `HashMap` implements it. The mapping collects entries
where they are at the moment: in the table, in the part of the old table that
is still to be moved, in the hands of `map_remove`, in the map being copied.

Left out: VarMap data (VMFrames models VarMaps), iteration, which only printing
uses, and keys for which `value_equal` and `value_hash` disagree (an integer and a
double of equal value, lists and maps, which do not equal themselves).

### StringPool and HostStrings

`StringPool` has no variables of its own: it is the operators by which
`MemPool.cpp` and `StringPool.cpp` take pools to pools. A pool is a function from
block indices to what the block holds (nothing, a list, a string's storage, an
entry of the hash table that names a storage and the next entry) with the table
of bins and the two flags "created" and "initialized". `Intern` is
`internString`: search the bin's chain, else store the text, then the entry, in
the lowest free slots, and link the entry at the head. `ClearPool` empties table
and blocks. `FindUnusedPool` answers 0 when there is none, as the code does, and
its callers then work in the pool they have. `Exhausted` stands for a pool
without a free block, where the code writes through a null entry; modelling
stops there (`step = "exhausted"`).

`HostStrings` has the pools, the default pool and the local variables of the
programs that use them. Actions follow `App.Main`: `Start`, `Test` and
`TestsPass` (unit tests, in debug mode), `Read`; `Assemble`, `Collect`,
`Collected`, `SkipBlank`, `BuildFunction`, `Built`, `Finish` (the assembler, one
action per turn of its loops, `BuildFunction` being the whole of
`AssembleFunction`); `Leave`, `Reset` (draining the source's pool, and what
`VM.Reset` looks up); `NewDisplay`, `Frame`, `Run`. A source line is one text, read
again through its string wherever the code reads it, so that a string
drained too early changes what is assembled. Of a function the model keeps its
name's reference, the text it had when added, and whether it was built and has
code. A duplicate function label ends `Assemble` early and leaves `HasError`
false, as in the code; `VM.Reset` then finds an empty `@main` and refuses.

Left out: freeing and reallocating single blocks and `destroyAllPools`, which
these programs do not call; the characters of lines and tokens; constants and
jump labels; strings the VM makes, except that it makes some.

### Runtimes, with Values, Lists, Strings, Texts, CSharp

`c` and `cs` are one value of a MiniScript program, or a String of the host, in
the two runtimes. A step makes the same call in both: arithmetic, comparison,
list and string operations, the host's String class and StringUtils. `Agree` is
that the values show the same. `DifferOnlyThere` is an equivalence: after a call
they differ exactly if `Differs` names it, so that it is a complete list of the
differences (on the values explored) as well as a proof that there are no more.
After a difference the comparison ends. Strings of the C side are bytes, of the
C# side code points; case is a relation from a table, which holds one of each kind
of difficulty instead of the 2 x 700 entries.

### Collections

`storage` of a handle is buckets and entries, shared by all copies made while there
was one; each has its own `count`. `refs` and `blocks` are the same for lists, in a
pool. `contents` and `expected` are what .NET has; `PartsOnlyThere` is again an
equivalence between a difference and the situation that causes it.

### Syntax, Parser, Evaluators

A line is read, cut into tokens, parsed and simplified (`stage`); the parse takes tokens away from
a list, so that what is left after an error, or of a line with several
expressions, is part of the result. Numbers are symbolic (what was computed, in
prefix order), which is what folding and evaluating have to agree on.
`AcceptsTheLanguage` compares complaints with a grammar, `TreeOfTheLine` the tree
with the line and with the precedences, `ComputedAlike` the folded tree, the
value MS2Proto4 computes while it parses, and that of `eval.ms`.

### Predecessors

`machine` is one of "TinyVM", "Proto1", "Proto2". Each runs the programs that come
with it, with every small n in place of the one in the code; for MS2Proto2 also
files generated from its instruction set, through its assembler with its label,
reference and function tables. Registers, words and calls are those of the code
at smaller sizes. `goal` is what a demonstration is written to compute.

`Spec` begins with any source whatever for MS2Proto2, and any program for the other two; it
is what the theorems are about. TLC explores `MCSpec`, which has the same steps and begins
with the programs of `MCPredecessors`. Lines are lists of tokens, of which the code keeps the first
four (`Tokens`).

### Classic

`heap` has counted storages of lists and maps, `vars` what the variables hold,
and `vec` one vector with all its slots, also those out of use, whose values go on
owning what they hold. `raise`, `Error` and `Assert` only print in this
code, so what follows them is executed: `Endless` and `Undefined` stand for walks
without end and for accesses outside of a buffer. Texts are bytes with positions
in characters beside positions in bytes. The pure operations (number words, edit
distance, evaluation of literals) are given a task in the initial state.

A map that contains itself in one of its keys makes `Hash` recurse for ever; the
model does not build one (`KeysEnd`).

## 3. Runs

| Run | Expect | Shows |
|---|---|---|
| `vm_frames` | pass | calls of all four kinds, nested and recursive, up to overflow, with closures over locals and globals: windows do not disturb callers, returns restore them, a map maps only registers of its own running frame and has gathered its values when that frame is gone (if no activation called after it was captured); `Activations` is implemented |
| `vm_captured_dangles` | violation | with a call after the capture the map is never gathered (VARIABLES.md:201) |
| `gc_collect` | pass | under a disciplined program collections free exactly the garbage; nothing reachable dangles; marks are clear outside of collections |
| `gc_accounting` | pass | `bytes_allocated` is exact for every shape of block, and every call of the collector or the allocator ends |
| `map_finite` | pass | under every hash function the hash map is a finite map: growth, removal and copying keep every entry findable, the count exact and the loops ending |
| `host_strings` | pass | whatever the source, one string per text and pool, chains lead to live blocks, nothing is drained while somebody reads it, and temporary pools are empty while the VM runs |
| `machine` | pass | well-formed programs are assembled and others are not taken for such; what is run, at once or cycle by cycle, is what the source says; registers are reserved, but for CALLFN; the listing is what was written; every run of a budget returns |
| `runtimes` | pass | C# and C differ after the calls named by `Differs` and no others; only `string_split` cuts characters |
| `collections` | pass | Dictionary and List of the C++ runtime differ from .NET's where `PartsOnlyThere` says, always there and nowhere else |
| `parser` | pass | language, tree and value of every line explored |
| `predecessors` | pass | demonstrations compute their numbers, jumps land at their labels, loads load what is written if and only if 32 bits hold it, but for the named exceptions |
| `classic` | pass | owner counts are those of references; equal and unshared values hash alike; walks, vectors, texts, number words and literals against reference definitions |

### Bounds, and why they are enough

* `vm_frames`: 10 registers, call depth 3, six functions and a choice of
  instructions per position. Depth 3 gives a caller, a callee and a callee's
  callee, and then overflow; the registers suffice for windows that begin above
  their caller's and for windows that run out. Programs follow the examples
  directory. That they meet the three hypotheses of the proofs (section 4) is an
  assumption TLC evaluates (`FamilyDisciplined` in `MCVMFrames`).
* `gc_collect`: 3 blocks, 2 locals, 2 scopes, at most one item per container,
  one level of `gc_disable`. Three blocks give a map with its entries and one
  more object, or a cycle of two with a third hanging on it; a fourth adds
  nothing new and was checked once. Blocks weigh 1 or 2 with a first threshold of
  2, so that collections start by themselves, and `SizeRange = 8` makes the
  threshold wrap.
* `gc_accounting`: 4 blocks, with which a VarMap is begun and runs out of memory
  in the middle, after a funcref, or beside a list.
* `map_finite`: 3 keys, 2 values, hashes 2, 3 and 7, which collide modulo 2, 3, 4
  and 6 in different ways and make clusters wrap round. Tables of one slot grow
  to 2 and 4, one of three fills up and grows to 6: all sizes at which tables
  are full, where removal goes the whole way round.
* `host_strings`: pools 0 to 3. A drained pool still exists and is not offered
  again, so without tests App, assembler and display get pools 1 to 3, and every
  test before them takes one away: both "found one" and "found none, use the
  default" occur for each of assembler and display. 24 blocks suffice for most runs
  and not for all, so that pool 0 also runs full (the code has 65536,
  MemPool.h:49; the proofs need four, without which the arguments of `main` do not
  fit). Two bins make chains of several
  entries. Sources are all sequences of up to three lines from three function
  labels (`@main` among them), an instruction, a wrong line and a blank one:
  enough for a duplicate, an empty function, a function after an implicit
  `@main`, two labels in a row, and an error after some functions were built.
* `machine`: bytes of 8 values, so that immediates, offsets and register numbers
  reach their limits and wrap; integers up to 2047; 5 registers and 2 calls, so
  that both stacks overflow; 12 cycles, more than any program that ends takes.
  Some 1500 programs: every instruction in every place of a frame of lines, with
  a function called that returns, recurs or fails; and some sixty with lines that the code assembles to something else than
  they say or refuses: beyond the limits of a field, of a sign or of a fraction's halves.
* `runtimes`: integers from -4 to 3, so that sums and products overflow; texts of
  up to 3 characters over `a`, space, a Greek mu, U+180E and the Kelvin sign,
  which between them have one, two and three bytes, several upper-case forms of
  one letter, and disputed white space; room for 2 and 3 parts of a split.
* `collections`: keys 1, 5 and 9, of one bucket at capacity 4 and of two at 8, and 2
  of a bucket of its own; capacities 4 to 16; two handles; lists of up to 5 items,
  one more than the first capacity.
* `parser`: every line of up to 5 characters over 13, of 6 over two selections of
  5 and 6, and lines with four operators in a row: three levels of precedence
  beside each other, prefixes, postfixes, parentheses and assignments.
* `predecessors`: tables of 4 labels and 4 references, which generated bodies
  fill and overfill; a body with one constant more than an index of two bytes
  reaches, which is refused; integers beyond the limits of 32 and of 64 bits (at the model's width); 24 registers and 8 calls for recursion down from n = 6;
  260 cycles, more than the longest demonstration takes.
* `classic`: two storages and two variables, enough for sharing, a circle through
  two and a storage in itself; 3 items besides copies, vectors of blocks of 2
  slots up to 6, with indices of slots out of use and one beyond; texts of up to 4 characters of one and more bytes.
* Symmetry is used for addresses and locals (`gc_collect`) and for variables
  (`classic`); no liveness property is checked under symmetry.

Deadlock is checked for `HashMap` and `HostStrings` (whose `Ended` marks the
intended ends). The other systems really stop: return from `@main`, error,
`gc_shutdown`, out of memory, the end of a line, or the point at which a
comparison has shown its difference.

### Fairness

`GC`: weak fairness of the collector's steps and of the allocator's says that a
call of `gc_collect` or `gc_allocate`, once entered, is executed to its end by the
single thread that made it. Nothing is assumed about what the program does next.
`ProgramResumes` therefore depends on the marking being well-founded on cyclic
heaps, not on a scheduler. `HashMap`: weak fairness of the internal steps says
the same of an operation once called. `Machine`: weak fairness of its steps says
that the one thread goes on; `RunReturns` then rests on the budget of cycles,
since the programs may loop for ever. The other modules claim no liveness.

## 4. Proofs

TLAPS checks every theorem for all values of the constants, from the named
assumptions of the modules (`FramesAssumption`, `CodeAssumption`,
`ParamAssumption`, `GCAssumption`, `MapAssumption`, `PoolAssumption`,
`SourceAssumption`, `ByteSizeAssumption`, `WordAssumption`, `MachineAssumption`,
`Proto2Assumption`, `VMAssumption`), which TLC evaluates on every run, and from the hypotheses that
a theorem states. No theorem bounds a stack, a heap, a table or a program's
length.

| Proof module | Theorem | Property | Hypothesis |
|---|---|---|---|
| `VMFrames_proof` | `TypeCorrect` | `TypeOK` | none |
| | `ChainCorrect` | `FrameChain` | `WindowsAboveFuncRef` |
| | `CallsNestCorrect` | `CallsNest` | `WindowsAboveFuncRef` |
| | `MapsReachOwnFrame` | `VarMapsReachOwnFrame` | that and `CapturesComeLast` |
| | `FreshWindowCorrect` | `FreshWindow` | none |
| | `CallerKeptCorrect` | `CallerKept` | those two and `WindowsAboveRegisters` |
| `GC_proof` | `TypeCorrect`, `NothingDangles`, `NoMarkSurvives`, `ScopesStayNested`, `CollectionsExact` | `TypeOK`, `NoDangling`, `MarksCleared`, `ScopesNest`, `CollectExact` | `Disciplined` |
| | `BytesStayExact` | `BytesExact` | none |
| `HashMap_proof` | `TableStaysSound` | `TableSound` | none |
| | `MapIsFiniteMap` | `IsFiniteMap` | none |
| `HostStrings_proof` | `PoolsStaySound` | `PoolsSound` | none |
| | `PoolsAreHandedOver` | `PoolsHandedOver` | none |
| `Machine_proof` | `RegistersAreReserved` | `RegistersReserved` | none |
| | `ShownIsWritten` | `ShownAsWritten` | none |
| | `ProgramsTyped` | | none |
| | `WordsKeepOperands`, `OperandsReadBack` | | none; they speak of instruction words alone |
| `Source_proof` | `SourceIsRun` | `RunsTheSource` | `WellFormed`, and fewer lines than `Span(2)` |
| | `WellFormedAssembles` | (half of `AssemblesTheWellFormed`) | those two and `FewNames` |
| `Predecessors_proof` | `AssembledJumpsLand` | `JumpsLand` | none |
| | `LoadsAreAsWritten` | `LoadsAsWritten` | none |

### VMFrames

The types come by one lemma per opcode. After that a step is one of a few kinds
(`StepKinds`): it stays in its frame, captures the frame in a map, pushes a record
for the caller and enters a function, or returns; the other proofs argue per
kind.

* *The chain.* Windows never slide down from a caller to its callee, every record
  resumes a real function behind the call it made, and `currentFuncIndex`, which
  each call sets separately, is the running function. That is inductive together with
  `MainRecord`: slot 0, in which GLOBALS looks for the function whose variables it
  captures, names @main or nothing. The chain needs `WindowsAboveFuncRef`: ARGBLK
  reads the funcref a second time after the window was set up (VM.cs:1032), and
  `currentFuncIndex` takes what that read gives.
* *The refinement.* `CallsNestCorrect` maps the records and the running function to
  a stack of activations; a call maps to a push, a return to a pop of exactly what
  was pushed, everything else to a stutter.
* *Maps.* `MapsInv` says for every map ever made which activation it is for
  (`home`), and that it is in that activation's slot and reaches only its
  window, or has gathered its values and reaches no register. That holds only if nobody uses
  the slot in between: a call made after the capture puts its own record there, and
  its return clears it. Therefore `CapturesComeLast`; that it cannot be dropped
  is the run `vm_captured_dangles`.
* *Windows.* `FreshWindow` (of a callee's registers only the parameters hold
  anything, whatever was there before, or it was entered by CALLF, which changes no register and
  no name) holds for every program. `CallerKept` says
  what a step leaves alone below the running window, what a call leaves of its
  caller's registers, and that no variable of a map is lost when it is gathered. The
  second needs the window to begin above the registers in use
  (`WindowsAboveRegisters`), the others the invariant on maps.

The discipline is a property of compiled code and not of the VM: nothing in `VM.cs`
checks it. The programs of `vm_frames` have it (`FamilyDisciplined`).

### GC

All but one under `Disciplined`, from one inductive invariant `Inv`:

* `Reach`, the intersection of all sets closed under references that contain the
  roots' targets, is itself closed and the least such set (`ReachClosed`,
  `ReachLeast`), and does not depend on what lies outside of it (`ReachKept`).
* `Tidy`: no reachable value is an entries array, and each reachable map has
  one. `Shaped`: what a block of each shape holds, garbage included. Both are needed
  to see that visiting by tag visits every reference.
* `MarkOK`: while marking, what a marked object refers to is marked or pending,
  and only reachable objects are either. When nothing is pending the marked
  objects are closed, hence they contain `Reach`.
* `SweepOK`: while sweeping, `Reach` is what was swept and kept together with
  what is still marked. When the sweep ends that is the object list: `CollectExact`.
* `Clear`: no marks outside of a collection, without which `MarkOK` would not
  hold when marking begins. `JobOK`: a half built map is allocated, unreachable
  and cannot meet a collection.

`BytesExact` is proved for every program, disciplined or not, since the accounting
does not depend on what is reachable. The sum over the object list is a recursive function
of a set: that it exists, does not depend on the order in which it takes the
elements, and changes by one term when an object comes or goes is proved from a
counterexample with the fewest elements, because an induction theorem cannot be
instantiated here.

### HashMap

`TableSound` says that no gap lies between an entry's home and the entry. It
is not inductive as it stands, for two reasons.

* A table of up to four slots may be full, and then "between" goes round the ring
  and says nothing. The invariant has a *cut*, a slot that find_entry passes
  on its way to no entry: the table is then a line that begins after the cut
  (`Place`), in which every entry lies at or after its home. In a table
  with a gap the gap is a cut; in a full one it is the slot that was filled last.
* `map_remove` puts the entries behind the hole in again one by one, and in the
  meantime entries do have gaps before them. `Mending` says which: only entries the loop
  has still to reach, and the gaps lie where it has been. The loop comes past the
  cut only when it ends.

`MapIsFiniteMap` then follows step by step: the mapping reads the contents from wherever
entries are at the moment, and of all steps of an operation exactly one
changes them.

### HostStrings

* *One pool.* The chain of a bin is a recursive function; `ChainLeast` and
  `ChainFollows` make it the least set that holds the bin's first entry and, with an
  entry, the one it leads to, and only this is used. An entry leads to an earlier
  block, so that a new one, put at the head, adds itself and changes no other chain.
* *Operations.* Each leaves sound pools that hold what they held (`Extended`), or is
  `ClearPool`. Making several strings is a recursive function again, argued
  from a first string that goes wrong.
* *Programs.* The invariant `IInv` has four parts: the pools and the types (`Base`),
  and at every step which references are live (`LinesInv`, `NamesInv`) and which pools hold
  anything (`OwnersInv`). That a pool may be drained is a fact about the last two
  together: the pool is not that of a name somebody still holds. An assembly
  that ends early at a duplicate label leaves its temporary pool undrained and switched
  to; the program then refuses to run, and this is why
  `PoolsHandedOver` speaks of the steps at which the VM runs.

### Machine

The VM sizes the windows of frames and the maps of locals by the number of registers
a function reserves; `RegistersReserved` says that no instruction but CALLFN writes a register beyond it, and that
it is no larger than that takes,
whatever the source. The proof goes up from the bytes.

* *Words.* A word is a sum of operands, each times the weight of its field, and the sum
  is a fold over a set: `WordSum` gives its value in whatever order it is taken. The
  opcodes have six layouts (`Layouts`); for each, every operand is got back by a division
  and a remainder, cut to its field's bytes (`WordsKeepOperands`). Hence an operand that
  fits, signed or not, is read as it was packed (`OperandsReadBack`). An operand that
  does not fit is refused by most instructions and wraps in some (section 5), and the theorem
  says nothing of what it means then.
* *Operands.* Whatever the tokens of a line, what is accepted as an operand is a number
  (`OperandsAreNumbers`), and as a register a number of one byte (`BytesParsed`), so that the
  number reserved and the number in the word are the same: a register number that wraps
  does so before both.
* *Functions.* The inductive invariant `AssemblerInv` is the types (`TypeInv`) and
  `AllReserved`: every opcode that reserves has its register below the count, and the count is reached by one of them. A
  body is built up by a recursive function over its lines; that it exists
  (`BuiltExists`) and that all it gives is sound (`BodySound`) is argued from a least line at which that fails.
  Reservations only grow, so that the instructions above a line stay within them.

`ShownIsWritten` goes the same way again with the meaning of what is built, and then on to the report.

* *Operands.* `Means` says what the number parsed from an operand is: the register or the immediate, cut to its field;
  the distance from behind the instruction to a label; the index of a constant or of a function that is the one
  named. `InstructionSays` carries it into the word, `SaysStays` through the lines below, which add constants and never move one.
* *Functions.* `Written` is the inductive invariant of the assembler's loop. Between two bodies, the lines above `lineNum` are whole
  functions (`Between`), names are distinct and those of the labels (`NamesDistinct`, `NamesCollected`), and the code of each
  function says what its lines above say, in their order (`AllWritten`). A body may be written at one time only, which
  is why the theorem asks that no function has two (`BodiesApart`); with it, the lines of a function in the abstract source are those of its body.
* *The error.* `Executing` says of the running machine that every place it holds, in `saved`, in `here` or on the call
  stack, is one of a function there is; and that between the failed instruction and the report
  that instruction is the one before `here`, and after the loop before `saved`. The report names the function, and
  names find the function again because they are distinct (`FoundAgain`).

### Source

`SourceIsRun` is the refinement: each step of `Machine`, from the source's first line to the report, is under the
mapping a step of `Source` or a stutter. `RunsTheSource` supposes `WellFormed`, because `Source` says nothing of programs that are not: the
assembler accepts some of these, with a register number that wraps or two bodies for one name. It supposes for the
theorem also fewer lines than `Span(2)`, which is 65536 in the code, since constants and functions are numbered in two bytes.

* *The invariant.* `Following` joins what `ShownIsWritten` rests on (`AssemblerInv`, `Written`, `Executing`) with how
  far the assembly is (`Prepared`) and how far the run is (`Hosted`). `Prepared` says that nothing of the VM is touched before the program
  is loaded, and that the names collected are those of `Source`; without it `Reset` and the first call would have nothing to map to.
  `Hosted` says that a run left at the end of its budget has stored where it is before anyone can look: `Run` alternates between
  `saved` and `here`, and only because they agree at that moment is leaving and entering again a stutter.
* *Operands.* `RegisterRead`, `ImmediateRead`, `ConstantRead`, `JumpRead` and `CalleeRead` say that the VM reads of a word what the
  line says: `Means` of section `Machine`, with the operand in the range that `WellFormed` gives it, so that nothing was cut. A
  jump is to the label's position because addresses count the same lines as positions do (`LabelPosition`).
* *Results.* Arithmetic, comparisons and intrinsics are the same functions of the same values in both (`ArithmeticSame`, `ComparisonsSame`,
  `IntrinsicsSame`). The two fault alike (`ThrowsHere`): an instruction that touches a slot beyond the
  stack, written or read, does so in both, and so does any instruction of a function whose window begins beyond it (VM.cs:347).
* *Steps.* One lemma per action of `Machine`: `LoadDoes`, `CalculationDoes`, `BranchDoes`, `CallFunctionDoes`, `ReturnToCallerDoes` and so
  on name the one step of `Source` each is; assembling, entering, leaving and reporting are stutters. `NextFollows` collects them.

`SourceIsRun` would also hold of an assembler that refused everything. `WellFormedAssembles` says that it does not: a well-formed
program is assembled to its last line, without an error. Besides fewer lines than `Span(2)` it supposes `FewNames`: LOADV, LOADC and ASSIGN
number a name in one byte, and are refused beyond it, so that they may stand only in the first 256 lines.

* *Instructions.* For each family of verbs a lemma (`LoadAccepted`, `ComparingAccepted`, ..., together `GoodAccepted`) says that
  operands that are good by `Source` choose an opcode whose fields they fit. Here the conditions on registers of `GoodOperands` are
  needed (`RegistersFirst`): EQ and NE have no opcode with a number in the second place.
* *Bodies.* By induction over the lines of a body the assembler has something after each (`BodyParses`): the function assembled so far
  has as many words as the lines above hold instructions, and no more constants, so that the next line is the instruction `Source`
  takes it for and its constant has room. Labels are found because the lines between two headings are all the function has (`BodyWhole`).

### Predecessors

Both theorems are about every assembly file of MS2Proto2. The first is about the words that
are assembled, the second about what the VM then puts into its registers.

* *Places.* The assembler counts instructions; the source has lines. `AddressOf(file, k, n)` is the number of
  lines of function k above line n that hold an instruction, and the proofs relate everything the assembler
  keeps to lines through it: a word is at the address of its line, a label at that of the line below it.
  Of two labels with one name the address is that of the later.
* *While it assembles.* The inductive invariant `Assembled` says for the lines above the current one which words
  there are (`CodeWritten`), which labels (`LabelsNoted`), and which references (`ReferencesNoted`: if
  the table was large enough all of them, otherwise some). `LoadsWritten` says that the word of a LOAD or LOADN holds its
  number as far as 32 bits keep it (`NumberRead`), or the index of an equal constant of its function; a constant, once in its place, stays there
  (`ConstantsStay`), so that later lines do not disturb it.
* *Patching.* Each reference is patched with the distance to its label; patches of other references leave a word alone
  because no two lines have one address, and a distance that fits is read back as it was packed
  (`BranchReads`, `IndexReads`). The loads are left alone because a reference is never that of a load (`RefThere`).
* *While it runs.* `MachineInv`: the running program is the file's, its entry is the first `@main`, every frame is in
  a function of the file, and the registers are where they were. A word the VM executes is therefore one that a line of the file
  assembled to, and `LoadsFromLine` compares what it does with that line. LOADN reads the constants of the entry
  and not those of the running function; the property says so, and the theorem holds because the
  property does.

### What the proofs corrected

Four formulas that TLC had accepted were wrong or too weak, and were
changed in the model: the room a table keeps while it grows counts the entries of
the old table that are still to be moved (`HashMap`); "writes only its own window" bounded the
registers above and not below (`VMFrames`); the types did not say that a funcref comes from a
FUNCREF instruction (`VMFrames`); and with fewer than four blocks per pool the
program's first strings do not fit, which `SourceAssumption` now excludes.
In `Assembler` the cases of `ParseOperand` overlapped, so that for an opcode that
falls under two of them the definition left open which was meant; they are disjoint now.

The listing was said to show every number that fits its field; it does not for the operands of a FUNCREF that is written as a
number, nor for anything in a function that has two bodies. `ListingAsWritten` names the operands it speaks of
(`Numeric`) and the programs (`BodiesApart`), and is an equivalence now. What stands behind a function's label on its own
line was counted as an instruction by `Source`, where the assembler reads past it. `Source` also let an operand written behind a NOOP count as
a slot that is touched, so that a NOOP could fault. The cases of its branch overlapped, as did those of `Status`
in `Machine`; they are disjoint now. A jump to an empty word was well formed for `Source`, since every line without a label
bears that one; `IsWord` excludes it.

In MS2Proto2 the assembler's refusal of a constant whose index needs more than two bytes was missing from
the model (assembler.c:207); the proof that a LOADN reads its own constant stopped there. `JumpsLand` and
`LoadsAsWritten` read all tokens of a line, of which the code keeps four; `ByteSize` has to be even, so that
the positive and negative offsets of a jump share a byte evenly.

### Only model-checked

* Liveness (`ProgramResumes`, `OperationsEnd`, `RunReturns`), which needs ENABLED.
* Modules with RECURSIVE operators, in which the provers lose SMT: `Syntax`, `Parser`,
  `Evaluators` (parsers are recursive), `SimpleVector`, `ClassicText`,
  `ClassicValues`, `Classic` (walks over values).
* `AssemblesTheWellFormed` of `Machine`, but for its half that is `WellFormedAssembles`: that well-formed programs are assembled. That the VM reads
  them as written is not stated as a theorem of its own; `SourceIsRun` rests on the same facts. That it reads no
  ill-formed program as written is shown for the programs of the run.
* Most of `Runtimes`, and `DemosCompute` of `Predecessors`: they compare two computations over the same
  data, which is an induction over data.
* `Collections`: nothing is proved of it yet. Its lists are sorted and reversed by folds, its
  chains are walked; both would be inductions over data.

## 5. Where the code parts from what it is meant for

One disagreement is a run of its own (`vm_captured_dangles`). The others are in
the models, as exceptions that a property names (mostly as an equivalence, so
that they are known to be complete), or as behaviour the models reproduce. Those
a reader should know of:

**MS2Proto3, VM and assembler.** LOADC's window lies over a parameter of its
caller, and CALLFN's register is not reserved (Assembler.cs:846-855; VARIABLES.md:118 speaks of registers "referenced in any
way"). RETURN with the call stack exactly full is out of
range (VM.cs:1173, against VM.cs:86). A function label directly below another
is taken for part of it (Assembler.cs:1237). A duplicate function ends the
assembly without `HasError` (Assembler.cs:1167). Errors name line 0, because
`AddLine(line)` resets the number that was just set (Assembler.cs:148, 1265). A CALLF that overflows is reported as complete; an error in ARG leaves the
PC of the last exit of `Run`. A fraction is refused when the digits before or behind its point are
no number of 16 bits (`LOAD r0, 40000.5`; Assembler.cs:1124, 1129). Immediates of three-operand instructions are listed
unsigned; those of comparisons are parsed as 0 to 255; register numbers wrap;
lines of `.param` are counted in label addresses.

**C runtime.** `value_equal` and `value_hash` disagree on 1 and 1.0; a list does not
equal itself; lists that are full drop what is pushed; `list_remove` accepts the
count as index; `string_split` takes a delimiter for a set of bytes; results from
2^31 to 2^32-1 are integers to C# and doubles to C. `make_map` keeps its first block in a raw pointer while it allocates
the second (value_map.c:25, 32): with the GC enabled that may free the first, against GC_USAGE.md:7 ("ensuring that all
registered values remain valid").

**Host strings.** ToUpper of a Greek mu gives the micro sign (unicodeUtil.c takes the
first of several sources); U+180E is trimmed in C++ alone; FormatList mixes
positions in bytes and in characters; `ss_replaceByte` never
advances, so that it does not end (StringStorage.c:553, against
test_cs_string_comprehensive.cpp:206); assigning "" to a String keeps the old value (CS_String.h:61);
Insert, Remove and Split at a String are stubs.

**Collections.** After a removal below the last entry, the next Add of a Dictionary
overwrites a live entry, and a search may go round for ever; copies share entries
and not counts; keys above a gap are not listed. A List of MS2Proto3 that is copied
before its first Add shares nothing.

**Parsers.** MS2Proto5 cuts `%` into a token and has no parselet for it; tokens left
over are ignored; a missing last operand is read as 0; a call takes one argument
at most; `-a^2` is `(-a)^2`; "1.1.1" and "." end the C# program; at the end of the
input its loop goes on for ever, since Input then returns "". The factorial of 0
and below is 1 in MS2Proto5 and the number itself in MS2Proto4 and eval.ms. To
eval.ms's lexer `!` is a letter; its assignments have no value, so that `x=y=3` sets
x to null; an unknown function stops it.

**Earlier prototypes.** In MS2Proto2, LOADN reads the constants of the function the VM
was entered with (vm.c:130); integers are cut to 32 bits, so that `LOAD r0, 3000000000` loads -1294967296 and
`LOADK r0, 4294967301` loads 5 (assembler.c:95-98); 1 and 1.0 share a constant; IFLE never jumps
(vm.c:172); of two labels of one name the later wins; jumps beyond the table of
references keep offset 0; `#`, `;` and `:` are looked for inside string literals (main.c:23);
instructions outside of a function are reported and left out. In MS2Proto1, RETURN in the
base frame leaves R0 as it was, so that the recursive test prints its argument
(VM.cs:195).

**Classic values.** `raise`, `Error` and `Assert` print and go on. Items that are
popped stay owned in their slots; Resize brings them back. Reference cycles are
never released. Lookup, Val and IsA go round a circle of `__isa` for ever. Equal
values that share, contain themselves or were filled in another order hash
differently (Dictionary.h:184); a key that is changed is lost. FullEval copies the
wrong items before a change in a list and forgets unchanged entries after a change in a
map (MiniscriptTypes.cpp:304, 343). Split advances by characters where it cuts by bytes
(SplitJoin.cpp:32); a default LastIndexOf on text that is not ASCII finds position 0
only, and no empty text in text that is ASCII; Substring from 0 of a string whose characters were not counted yet reads a flag that was never
set (SimpleString.cpp:71-74, as called at MiniscriptTypes.cpp:938); EndsWith with one byte more than the text has reads the byte in front
of it (SimpleString.cpp:96-97); Replace of an empty text and Split at one without a limit never end
(SimpleString.h:459, SplitJoin.cpp:22); reposition with an index of a slot out of use moves an item out of the list and a stale
one in (SimpleVector.h:326-358); numberToText loses the billions (numberWords/numberWords.cpp:36).

## 6. Not modelled, and why

* Transpilers (`src/TranspilerCS`, `src/TranspilerMS`, `transpile.ms`): text to
  text at build time. Their correctness is that of C# semantics, which no
  specification here states.
* `src/CodeBase`: older copies of the containers and pools; the current ones are
  modelled.
* Tables of data (case mapping, 700 entries per copy): one entry of each kind.
* Printing, formatting of doubles, `to_string`, the visualizer's drawing, timing of
  benchmarks; `GetTokens`, which cuts lines of assembly.
* Doubles are fractions: no rounding, infinities or NaN.
* The C intern table: equality of interned strings by pointer, and their lives,
  which last to the end.
* VarMap data in the C map, and iteration, which only printing uses. MS2Proto2's
  strings, lists and collector, which MS2Proto3's replace. The nan-boxed variants
  of DynamicTypes, which hold no more state than a word.
* What is undefined: after a pool is full, an access outside a buffer or beyond the
  code, the models stop or say `Undefined`.

## 7. What remains

1. Closures in `Machine`, so that names and arithmetic meet in one run.
2. The discipline of section 4 as an invariant of a compiler: none of the
   prototypes has one yet that emits calls.
3. `OwnersCounted` as a proof; its sum is of the kind proved for `BytesExact`, but its
   module has to lose its RECURSIVE operators first.
