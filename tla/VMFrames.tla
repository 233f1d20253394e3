------------------------------ MODULE VMFrames ------------------------------
(***************************************************************************)
(* Call frames, register windows, variable names, VarMaps and closures of  *)
(* the MiniScript 2 virtual machine, MS2Proto3/cs/VM.cs and VarMap.cs.     *)
(*                                                                         *)
(* The VM keeps one value stack shared by all activations.  A call slides  *)
(* `baseIndex` up to the callee's window and pushes a CallInfo; RETURN     *)
(* pops it.  `names` runs parallel to the stack and says which variable,   *)
(* if any, each slot holds.  A VarMap is a map object some of whose keys   *)
(* are bound to stack slots until it is gathered.  The record pushed by a  *)
(* call holds the CALLEE's closure context, but the locals map of the      *)
(* running function lives in the free slot above it, callStack[            *)
(* callStackTop].                                                          *)
(*                                                                         *)
(* One action stands for one case of the opcode switch in VM.Run.  The     *)
(* bytecode is a constant: Code[f][p+1] is the set of instructions that    *)
(* may stand at address p of function f, so a set with several members     *)
(* describes a family of programs at once and a singleton one program.     *)
(***************************************************************************)
EXTENDS Integers, Sequences, FiniteSets, FiniteSetsExt

CONSTANTS
  Funcs,          \* indexes of VM.functions
  Main,           \* the index of @main
  Code,           \* [Funcs -> Seq(SUBSET Instr)], see above
  ParamNames,     \* [Funcs -> Seq(Names)]
  ParamDefaults,  \* [Funcs -> Seq(Value)], as long as ParamNames[f]
  Names,          \* the variable names the programs use
  NoName,         \* the null entry of the names list
  StackSlots,     \* InitVM's stackSlots (1024 in the program)
  CallSlots       \* InitVM's callSlots (256 in the program)

ASSUME FramesAssumption ==
  /\ Main \in Funcs
  /\ Funcs \subseteq Nat
  /\ NoName \notin Names
  /\ StackSlots \in Nat \ {0}
  /\ CallSlots \in Nat \ {0}

\* Opcodes whose operand A the assembler reserves.
Reserving == {"LOADK", "LOAD", "LOADV", "LOADC", "FUNCREF", "ASSIGN", "NAME",
              "INDEX", "LOCALS", "OUTER", "GLOBALS", "CALL"}

\* Opcodes whose operand C is a variable name or a map key.
Naming == {"LOADV", "LOADC", "ASSIGN", "NAME", "INDEX", "IDXSET", "REMOVE"}

\* What the assembler guarantees of the code: registers are bytes, a CALLF
\* names a function that exists, and C is what the opcode takes it for.
ASSUME CodeAssumption ==
  \A f \in Funcs :
    /\ Len(Code[f]) \in Nat /\ DOMAIN Code[f] = 1 .. Len(Code[f])
    /\ \A p \in DOMAIN Code[f] : \A i \in Code[f][p] :
         /\ i.a \in Nat /\ i.b \in Nat
         /\ i.op \in Reserving => i.a \in 0 .. 255
         /\ i.op \in {"LOADK", "FUNCREF", "ARG", "ARGK"} => i.c \in Int
         /\ i.op \in Naming => i.c \in Names
         /\ i.op = "CALL" => i.c \in Nat
         /\ i.op = "CALLF" => i.b \in Funcs

VARIABLES
  stack,            \* slot -> value
  names,            \* slot -> variable name or NoName
  callStack,        \* slot -> CallInfo
  callStackTop,     \* next free call stack slot
  pc, baseIndex, curFunc, currentFuncIndex,   \* Run's locals
  varMaps,          \* every map object made so far, by handle
  status,           \* how Run stands, see Status
  home              \* history: the depth of the activation a map was made
                    \* for, by handle; Gone once that activation returned

vars == <<stack, names, callStack, callStackTop, pc, baseIndex, curFunc,
          currentFuncIndex, varMaps, status, home>>

calls == <<callStack, callStackTop, baseIndex, curFunc, currentFuncIndex>>
maps  == <<varMaps, home>>

-----------------------------------------------------------------------------
(* Values.  Data the properties do not tell apart are atoms.               *)

Null        == [kind |-> "null",    n |-> 0, outer |-> 0]
Absent      == [kind |-> "absent",  n |-> 0, outer |-> 0]
Atom(k)     == [kind |-> "atom",    n |-> k, outer |-> 0]
MapV(m)     == [kind |-> "map",     n |-> m, outer |-> 0]
FuncV(f, o) == [kind |-> "funcref", n |-> f, outer |-> o]

\* The defaults of .param are constants: null, numbers, strings.
ASSUME ParamAssumption ==
  /\ ParamNames \in [Funcs -> Seq(Names)]
  /\ \A f \in Funcs :
       /\ DOMAIN ParamDefaults[f] = DOMAIN ParamNames[f]
       /\ \A j \in DOMAIN ParamNames[f] :
            ParamDefaults[f][j] \in {Null} \cup [kind : {"atom"}, n : Int, outer : {0}]

funcref_index(v)      == IF v.kind = "funcref" THEN v.n ELSE -1
funcref_outer_vars(v) == v.outer

Slots == 0 .. StackSlots - 1

\* "running": inside Run's loop.  "returned": RETURN of @main.  "error":
\* RaiseRuntimeError.  "outOfCode": pc ran past the code.  "abandoned": an
\* error path that prints and leaves Run.  "crashed": an index out of range.
Status == {"running", "returned", "error", "outOfCode", "abandoned", "crashed"}

\* Mutant: the record does not remember the caller's base.
CallInfo_NoBase(rpc, rbase, rfunc, reg, outer) ==
  [ReturnPC |-> rpc, ReturnBase |-> 0, ReturnFuncIndex |-> rfunc,
   CopyResultToReg |-> reg, LocalVarMap |-> 0, OuterVarMap |-> outer]

CallInfo(rpc, rbase, rfunc, reg, outer) ==
  [ReturnPC |-> rpc, ReturnBase |-> rbase, ReturnFuncIndex |-> rfunc,
   CopyResultToReg |-> reg, LocalVarMap |-> 0, OuterVarMap |-> outer]

-----------------------------------------------------------------------------
(* Instructions [op, a, b, c].  a and b are registers, c is the constant:  *)
(* the name, the immediate, the function of a FUNCREF; the third register  *)
(* of a CALL.  IDXSET is R[a][c] := R[b] and INDEX R[a] := R[b][c]: the    *)
(* register that holds the key is left out, the key is in the instruction. *)

\* FuncDef.MaxRegs: one more than the highest destination register.
MaxRegs ==
  [f \in Funcs |->
     LET dests == {i.a : i \in {j \in UNION Range(Code[f]) : j.op \in Reserving}}
     IN  IF dests = {} THEN 0 ELSE Max(dests) + 1]

CodeAt(f, p) == IF p + 1 \in DOMAIN Code[f] THEN Code[f][p + 1] ELSE {}

Reg(r) == stack[baseIndex + r]

-----------------------------------------------------------------------------
(* VarMaps: regs binds keys to stack slots, items is the ordinary map.     *)

Unmapped == -1
Gone     == -1

\* The VarMap constructor: of two registers with one name the last wins.
\* With no registers at all an ordinary map is made instead.
NewVarMap(base, count) ==
  [regs  |-> [k \in Names |->
                LET named == {s \in base .. base + count - 1 : names[s] = k}
                IN  IF named = {} THEN Unmapped ELSE Max(named)],
   items |-> [k \in Names |-> Absent]]

Mapped(m, k)  == varMaps[m].regs[k] # Unmapped
HasKey(m, k)  == IF Mapped(m, k) THEN names[varMaps[m].regs[k]] # NoName
                 ELSE varMaps[m].items[k] # Absent
\* What Get returns for a key that HasKey.
Lookup(m, k)  == IF Mapped(m, k) /\ names[varMaps[m].regs[k]] # NoName
                 THEN stack[varMaps[m].regs[k]] ELSE varMaps[m].items[k]

\* Mutant: the register mappings are not cleared.
Gather_KeepsMappings(m) ==
  [varMaps[m] EXCEPT !.items = [k \in Names |-> IF Mapped(m, k) /\ HasKey(m, k)
                                  THEN Lookup(m, k) ELSE varMaps[m].items[k]]]
\* Mutant: a register is copied although its variable was removed.
Gather_Unassigned(m) ==
  [regs  |-> [k \in Names |-> Unmapped],
   items |-> [k \in Names |-> IF Mapped(m, k) THEN stack[varMaps[m].regs[k]]
                              ELSE varMaps[m].items[k]]]

Gather(m) ==
  [regs  |-> [k \in Names |-> Unmapped],
   items |-> [k \in Names |-> IF Mapped(m, k) /\ HasKey(m, k)
                              THEN Lookup(m, k) ELSE varMaps[m].items[k]]]

\* CallInfo.GetLocalVarMap on call stack slot d: the map's handle, and what
\* making it does to the heap and to the slot.
LocalMapOf(d) == IF callStack[d].LocalVarMap # 0 THEN callStack[d].LocalVarMap
                 ELSE Len(varMaps) + 1

GetLocalVarMap(d, base, count) ==
  IF callStack[d].LocalVarMap # 0
  THEN UNCHANGED <<callStack, varMaps, home>>
  ELSE /\ varMaps' = Append(varMaps, NewVarMap(base, count))
       /\ home' = Append(home, d)
       /\ callStack' = [callStack EXCEPT ![d].LocalVarMap = Len(varMaps) + 1]

-----------------------------------------------------------------------------
(* What an instruction needs in order not to index a list out of range.    *)

\* VM.LookupVariable: the closure context only, never the globals.
OuterContext   == IF callStackTop = 0 THEN 0
                  ELSE callStack[callStackTop - 1].OuterVarMap
InOuter(k)     == OuterContext # 0 /\ HasKey(OuterContext, k)
LookupVariable(k) == IF InOuter(k) THEN Lookup(OuterContext, k) ELSE Null

\* The value LOADV and LOADC find: register b if it bears the name.
VarValue(i) == IF names[baseIndex + i.b] = i.c THEN Reg(i.b)
               ELSE LookupVariable(i.c)
VarKnown(i) == names[baseIndex + i.b] = i.c \/ InOuter(i.c)

WindowSize(f) == Max({1, Len(ParamNames[f]) + 1, MaxRegs[f]})
Fits(base, n) == base + n <= StackSlots
Callable(v)   == v.kind = "funcref" /\ v.n \in Funcs

\* The registers an instruction names itself.
Operands(i) ==
  CASE i.op \in {"LOAD", "LOADV", "LOADC", "ASSIGN", "INDEX"} -> {i.a, i.b}
    [] i.op = "IDXSET" -> {i.a, i.b}
    [] i.op \in {"CALL", "ARGBLK", "CALLF", "ARG", "ARGK"} -> {}
    [] i.op = "RETURN" -> {0}
    [] OTHER -> {i.a}

\* LOCALS and FUNCREF use the free call stack slot, and scan MaxRegs names.
CanCapture == /\ callStackTop < CallSlots
              /\ callStack[callStackTop].LocalVarMap = 0
                   => Fits(baseIndex, MaxRegs[curFunc])

CanReturn ==
  callStackTop > 0 =>
    LET info == callStack[callStackTop - 1]
    IN  /\ callStackTop < CallSlots
        /\ info.ReturnFuncIndex \in Funcs
        /\ info.CopyResultToReg >= 0
             => info.ReturnBase + info.CopyResultToReg \in Slots

CanImplicitCall(i) ==
  VarKnown(i) /\ Callable(VarValue(i)) /\ callStackTop < CallSlots =>
    Fits(baseIndex + MaxRegs[curFunc], MaxRegs[VarValue(i).n])

\* call is a CALL instruction, behind an ARGBLK of n or alone with n = 0; args
\* are the ARGs that get processed, fewer than n when another opcode follows.
CanCall(call, n, args) ==
  /\ baseIndex + call.c \in Slots
  /\ LET v == Reg(call.c)
     IN  /\ Callable(v) /\ n <= Len(ParamNames[v.n]) =>
              /\ Fits(baseIndex + call.b,
                      IF Len(args) = n THEN WindowSize(v.n) ELSE Len(args) + 1)
              /\ \A k \in DOMAIN args :
                   args[k].op = "ARG" => baseIndex + args[k].a \in Slots
         /\ v.kind # "funcref" => baseIndex + call.a \in Slots

InRange(i) ==
  /\ \A r \in Operands(i) : baseIndex + r \in Slots
  /\ i.op \in {"LOCALS", "FUNCREF"} => CanCapture
  /\ i.op = "OUTER"   => callStackTop > 0
  /\ i.op = "GLOBALS" =>
       /\ callStack[0].ReturnFuncIndex \in Funcs
       /\ callStack[0].LocalVarMap = 0
            => Fits(0, MaxRegs[callStack[0].ReturnFuncIndex])
  /\ i.op = "RETURN"  => CanReturn
  /\ i.op = "LOADC"   => CanImplicitCall(i)
  /\ i.op = "CALL"    => CanCall(i, 0, <<>>)

\* The instructions with opcode op that may be fetched and do not crash.
At(op) == {i \in CodeAt(curFunc, pc) :
             status = "running" /\ i.op = op /\ InRange(i)}

Stop(s) == status' = s

-----------------------------------------------------------------------------
(* Opcodes that stay in the frame.                                         *)

\* R[A] := v and on to the next instruction.
SetReg(r, v) ==
  /\ stack' = [stack EXCEPT ![baseIndex + r] = v]
  /\ pc' = pc + 1

NameReg(r, k) == names' = [names EXCEPT ![baseIndex + r] = k]

Load ==
  \E i \in At("LOAD") \cup At("LOADK") :
    /\ SetReg(i.a, IF i.op = "LOAD" THEN Reg(i.b) ELSE Atom(i.c))
    /\ UNCHANGED <<names, status, calls, maps>>

Assign ==
  \E i \in At("ASSIGN") :
    /\ SetReg(i.a, Reg(i.b))
    /\ NameReg(i.a, i.c)
    /\ UNCHANGED <<status, calls, maps>>

Name ==
  \E i \in At("NAME") :
    /\ NameReg(i.a, i.c)
    /\ pc' = pc + 1
    /\ UNCHANGED <<stack, status, calls, maps>>

LoadV ==
  \E i \in At("LOADV") :
    /\ SetReg(i.a, VarValue(i))
    /\ IF VarKnown(i) THEN UNCHANGED status ELSE Stop("error")
    /\ UNCHANGED <<names, calls, maps>>

\* The closure context of a new funcref is the map of the current locals.
FuncRef ==
  \E i \in At("FUNCREF") :
    /\ GetLocalVarMap(callStackTop, baseIndex, MaxRegs[curFunc])
    /\ SetReg(i.a, FuncV(i.c, LocalMapOf(callStackTop)))
    /\ UNCHANGED <<names, callStackTop, baseIndex, curFunc, currentFuncIndex,
                   status>>

Locals ==
  \E i \in At("LOCALS") :
    /\ GetLocalVarMap(callStackTop, baseIndex, MaxRegs[curFunc])
    /\ SetReg(i.a, MapV(LocalMapOf(callStackTop)))
    /\ NameReg(i.a, NoName)
    /\ UNCHANGED <<callStackTop, baseIndex, curFunc, currentFuncIndex, status>>

Outer ==
  \E i \in At("OUTER") :
    /\ SetReg(i.a, IF OuterContext = 0 THEN Null ELSE MapV(OuterContext))
    /\ NameReg(i.a, NoName)
    /\ UNCHANGED <<status, calls, maps>>

Globals ==
  \E i \in At("GLOBALS") :
    /\ GetLocalVarMap(0, 0, MaxRegs[callStack[0].ReturnFuncIndex])
    /\ SetReg(i.a, MapV(LocalMapOf(0)))
    /\ NameReg(i.a, NoName)
    /\ UNCHANGED <<callStackTop, baseIndex, curFunc, currentFuncIndex, status>>

\* INDEX of a map by the name in register C; a miss is an error and gives null.
Index ==
  \E i \in At("INDEX") :
    LET container == Reg(i.b)
        found     == container.kind = "map" /\ HasKey(container.n, i.c)
    IN  /\ SetReg(i.a, IF found THEN Lookup(container.n, i.c) ELSE Null)
        /\ IF found THEN UNCHANGED status ELSE Stop("error")
        /\ UNCHANGED <<names, calls, maps>>

\* VarMap.Set: a mapped key stores into its register, and names it.
MapSet(m, k, v) ==
  IF Mapped(m, k)
  THEN /\ stack' = [stack EXCEPT ![varMaps[m].regs[k]] = v]
       /\ names' = [names EXCEPT ![varMaps[m].regs[k]] = k]
       /\ UNCHANGED varMaps
  ELSE /\ varMaps' = [varMaps EXCEPT ![m].items[k] = v]
       /\ UNCHANGED <<stack, names>>

IdxSet ==
  \E i \in At("IDXSET") :
    /\ IF Reg(i.a).kind = "map"
       THEN MapSet(Reg(i.a).n, i.c, Reg(i.b)) /\ UNCHANGED status
       ELSE Stop("error") /\ UNCHANGED <<stack, names, varMaps>>
    /\ pc' = pc + 1
    /\ UNCHANGED <<calls, home>>

\* The intrinsic `remove` called with a map in register A and a name in the
\* next one.  VarMap.Remove unnames the register and keeps its value.
Remove ==
  \E i \in At("REMOVE") :
    LET m      == Reg(i.a).n
        mapped == Reg(i.a).kind = "map" /\ Mapped(m, i.c)
        stored == Reg(i.a).kind = "map" /\ ~mapped /\ varMaps[m].items[i.c] # Absent
    IN  /\ names' = IF mapped THEN [names EXCEPT ![varMaps[m].regs[i.c]] = NoName]
                    ELSE names
        /\ varMaps' = IF stored THEN [varMaps EXCEPT ![m].items[i.c] = Absent]
                      ELSE varMaps
        /\ SetReg(i.a, Atom(IF mapped \/ stored THEN 1 ELSE 0))
        /\ UNCHANGED <<status, calls, home>>

-----------------------------------------------------------------------------
(* Calls and returns.                                                      *)

\* Mutant: the function index is left at the caller's.
PushFrame_StaleIndex(callee, funcIndex, base, returnPC, reg, outer) ==
  /\ callStack' = [callStack EXCEPT ![callStackTop] =
                     CallInfo(returnPC, baseIndex, currentFuncIndex, reg, outer)]
  /\ callStackTop' = callStackTop + 1
  /\ baseIndex' = base /\ curFunc' = callee /\ pc' = 0
  /\ UNCHANGED <<currentFuncIndex, status, maps>>

PushFrame(callee, funcIndex, base, returnPC, reg, outer) ==
  /\ callStack' = [callStack EXCEPT ![callStackTop] =
                     CallInfo(returnPC, baseIndex, currentFuncIndex, reg, outer)]
  /\ callStackTop' = callStackTop + 1
  /\ baseIndex' = base
  /\ curFunc' = callee
  /\ currentFuncIndex' = funcIndex
  /\ pc' = 0
  /\ UNCHANGED <<status, maps>>

\* An error exit after the fetch, in the same frame.
Leave(s) == Stop(s) /\ pc' = pc + 1 /\ UNCHANGED <<calls, maps>>

\* Mutant: one call too many passes the overflow check.
Full_OffByOne == callStackTop > CallSlots

Full == callStackTop >= CallSlots

\* VM.SetupCallFrame over the stack st and the names nm: defaults for the
\* parameters beyond argCount, null for r0 and for the rest of MaxRegs.
DefaultFrom(f, base, argCount, s) == s - base \in argCount + 1 .. Len(ParamNames[f])
\* Mutants: registers are cleared in the caller's window; the last one is not.
Cleared_CallerBase(f, base, s) ==
  s = baseIndex \/ s - baseIndex \in Len(ParamNames[f]) + 1 .. MaxRegs[f] - 1
Cleared_SkipsLast(f, base, s) ==
  s = base \/ s - base \in Len(ParamNames[f]) + 1 .. MaxRegs[f] - 2

Cleared(f, base, s) ==
  s = base \/ s - base \in Len(ParamNames[f]) + 1 .. MaxRegs[f] - 1

SetupStack(st, f, base, argCount) ==
  [s \in Slots |-> CASE Cleared(f, base, s) -> Null
                     [] DefaultFrom(f, base, argCount, s) -> ParamDefaults[f][s - base]
                     [] OTHER -> st[s]]
SetupNames(nm, f, base, argCount) ==
  [s \in Slots |-> CASE Cleared(f, base, s) -> NoName
                     [] DefaultFrom(f, base, argCount, s) -> ParamNames[f][s - base]
                     [] OTHER -> nm[s]]

\* CALL without an ARGBLK; of a value that is no funcref it is a copy.
Call ==
  \E i \in At("CALL") :
    LET v == Reg(i.c)
        base == baseIndex + i.b
    IN  \/ /\ v.kind # "funcref"
           /\ SetReg(i.a, v)
           /\ UNCHANGED <<names, status, calls, maps>>
        \/ /\ v.kind = "funcref" /\ ~Callable(v)
           /\ Leave("abandoned") /\ UNCHANGED <<stack, names>>
        \/ /\ Callable(v)
           /\ stack' = SetupStack(stack, v.n, base, 0)
           /\ names' = SetupNames(names, v.n, base, 0)
           /\ IF Full THEN Leave("abandoned")
              ELSE PushFrame(v.n, v.n, base, pc + 1, i.a, v.outer)

\* VM.ProcessArguments.  args are the ARG instructions behind the ARGBLK at pc,
\* up to the first other opcode or to its count.
ArgOps == {"ARG", "ARGK"}
ArgsOf(block) ==
  {args \in UNION {[1 .. n -> UNION Range(Code[curFunc])] : n \in 0 .. block.a} :
     /\ \A k \in DOMAIN args : args[k] \in CodeAt(curFunc, pc + k) /\ args[k].op \in ArgOps
     /\ Len(args) < block.a
          => \E i \in CodeAt(curFunc, pc + Len(args) + 1) : i.op \notin ArgOps}

\* They copy one by one from the caller's registers to the callee's r1, r2, ...,
\* so when the windows overlap one may read what an earlier one wrote.
Copies(args, base) ==
  {vals \in [DOMAIN args -> {stack[s] : s \in Slots} \cup {Atom(args[k].c) : k \in DOMAIN args}] :
     \A k \in DOMAIN args :
       LET src == baseIndex + args[k].a
       IN  vals[k] = CASE args[k].op = "ARGK"     -> Atom(args[k].c)
                       [] args[k].op = "ARG" /\ src - base \in 1 .. k - 1 -> vals[src - base]
                       [] OTHER                   -> stack[src]}

ArgStack(vals, base) ==
  [s \in Slots |-> IF s - base \in DOMAIN vals THEN vals[s - base] ELSE stack[s]]
ArgNames(vals, f, base) ==
  [s \in Slots |-> IF s - base \in DOMAIN vals THEN ParamNames[f][s - base] ELSE names[s]]

\* ARGBLK executes its ARGs and the CALL behind them.  Once the callee's
\* window is set up it reads the funcref's register a second time.
ArgBlk ==
  \E i \in At("ARGBLK") : \E args \in ArgsOf(i) : \E call \in CodeAt(curFunc, pc + 1 + i.a) :
    LET v     == Reg(call.c)
        base  == baseIndex + call.b
        legal == call.op = "CALL" /\ Callable(v) /\ i.a <= Len(ParamNames[v.n])
    IN  /\ call.op = "CALL" => CanCall(call, i.a, args)
        /\ \/ ~legal /\ Leave("error") /\ UNCHANGED <<stack, names>>
           \/ /\ legal
              /\ \E vals \in Copies(args, base) :
                   LET copied == ArgStack(vals, base)
                       named  == ArgNames(vals, v.n, base)
                       again  == SetupStack(copied, v.n, base, i.a)[baseIndex + call.c]
                   IN  \/ /\ Len(args) < i.a
                          /\ stack' = copied /\ names' = named
                          /\ Leave("error")
                       \/ /\ Len(args) = i.a
                          /\ stack' = SetupStack(copied, v.n, base, i.a)
                          /\ names' = SetupNames(named, v.n, base, i.a)
                          /\ IF Full THEN Leave("error")
                             ELSE PushFrame(v.n, funcref_index(again), base,
                                            pc + i.a + 2, call.a, funcref_outer_vars(again))

\* No CALL within the code, or an ARG that no ARGBLK consumed.
CallError ==
  /\ \/ At("ARG") \cup At("ARGK") # {}
     \/ \E i \in At("ARGBLK") : CodeAt(curFunc, pc + 1 + i.a) = {}
  /\ Leave("error") /\ UNCHANGED <<stack, names>>

\* CALLF: the callee's window starts at register A, arguments in place.
CallF ==
  \E i \in At("CALLF") :
    /\ IF Full THEN Leave("abandoned")
       ELSE PushFrame(i.b, i.b, baseIndex + i.a, pc + 1, -1, 0)
    /\ UNCHANGED <<stack, names>>

ImplicitBase == baseIndex + MaxRegs[curFunc]

\* LOADC of a variable that holds a funcref: an implicit call, its window
\* right behind the caller's reserved registers, no parameters set up.
LoadC ==
  \E i \in At("LOADC") :
    LET v == VarValue(i)
        base == ImplicitBase
        InWindow(s) == s - base \in 0 .. MaxRegs[v.n] - 1
    IN  \/ /\ v.kind # "funcref"
           /\ SetReg(i.a, v)
           /\ IF VarKnown(i) THEN UNCHANGED status ELSE Stop("error")
           /\ UNCHANGED <<names, calls, maps>>
        \/ /\ v.kind = "funcref" /\ (~Callable(v) \/ Full)
           /\ Leave("abandoned") /\ UNCHANGED <<stack, names>>
        \/ /\ Callable(v) /\ ~Full
           /\ stack' = [s \in Slots |-> IF InWindow(s) THEN Null ELSE stack[s]]
           /\ names' = [s \in Slots |-> IF InWindow(s) THEN NoName ELSE names[s]]
           /\ PushFrame(v.n, v.n, base, pc + 1, i.a, v.outer)

ReturnFromMain ==
  /\ At("RETURN") # {} /\ callStackTop = 0
  /\ Stop("returned") /\ pc' = pc + 1
  /\ UNCHANGED <<stack, names, calls, maps>>

\* Mutant: the gathered map stays in the call stack slot.
ForgetLocals_Kept(d) == callStack

ForgetLocals(d) == [callStack EXCEPT ![d].LocalVarMap = 0]

\* RETURN: gather the locals map of the slot above the record, then pop it.
Return ==
  /\ At("RETURN") # {} /\ callStackTop > 0
  /\ LET m    == callStack[callStackTop].LocalVarMap
         info == callStack[callStackTop - 1]
     IN  /\ varMaps' = IF m = 0 THEN varMaps ELSE [varMaps EXCEPT ![m] = Gather(m)]
         /\ callStack' = ForgetLocals(callStackTop)
         /\ pc' = info.ReturnPC
         /\ baseIndex' = info.ReturnBase
         /\ currentFuncIndex' = info.ReturnFuncIndex
         /\ curFunc' = info.ReturnFuncIndex
         /\ stack' = IF info.CopyResultToReg >= 0
                     THEN [stack EXCEPT ![info.ReturnBase + info.CopyResultToReg] = Reg(0)]
                     ELSE stack
  /\ home' = [m \in DOMAIN home |-> IF home[m] = callStackTop THEN Gone ELSE home[m]]
  /\ callStackTop' = callStackTop - 1
  /\ UNCHANGED <<names, status>>

-----------------------------------------------------------------------------
OutOfCode ==
  /\ status = "running" /\ pc >= Len(Code[curFunc])
  /\ Stop("outOfCode")
  /\ UNCHANGED <<stack, names, pc, calls, maps>>

\* An index out of range: an exception in C#, undefined in C++.
Crash ==
  /\ status = "running"
  /\ \/ \E i \in CodeAt(curFunc, pc) : ~InRange(i)
     \/ \E i \in At("ARGBLK") : \E args \in ArgsOf(i) :
          \E call \in CodeAt(curFunc, pc + 1 + i.a) :
            call.op = "CALL" /\ ~CanCall(call, i.a, args)
  /\ Stop("crashed")
  /\ UNCHANGED <<stack, names, pc, calls, maps>>

\* InitVM and Reset.
Init ==
  /\ stack = [s \in Slots |-> Null]
  /\ names = [s \in Slots |-> NoName]
  /\ callStack = [d \in 0 .. CallSlots - 1 |-> CallInfo(0, 0, -1, -1, 0)]
  /\ callStackTop = 0
  /\ pc = 0 /\ baseIndex = 0
  /\ curFunc = Main /\ currentFuncIndex = Main
  /\ varMaps = <<>> /\ home = <<>>
  /\ status = "running"

Next ==
  \/ Load \/ Assign \/ Name \/ LoadV \/ FuncRef \/ Locals \/ Outer \/ Globals
  \/ Index \/ IdxSet \/ Remove
  \/ Call \/ ArgBlk \/ CallError \/ CallF \/ LoadC \/ ReturnFromMain \/ Return
  \/ OutOfCode \/ Crash

Spec == Init /\ [][Next]_vars
-----------------------------------------------------------------------------
(* Properties.                                                             *)

\* Frames of the live activations, 0 for @main's, callStackTop for the one
\* that runs.
Depths        == 0 .. callStackTop
FrameBase(d)  == IF d = callStackTop THEN baseIndex ELSE callStack[d].ReturnBase
FrameFunc(d)  == IF d = callStackTop THEN curFunc ELSE callStack[d].ReturnFuncIndex
FramePC(d)    == IF d = callStackTop THEN pc ELSE callStack[d].ReturnPC
Window(d)     == FrameBase(d) .. FrameBase(d) + MaxRegs[FrameFunc(d)] - 1

Handles == 0 .. Len(varMaps)

\* The functions that FUNCREFs name, and all that can be called: those the
\* CALLFs name too.
AllCode  == UNION {UNION Range(Code[f]) : f \in Funcs}
FuncRefs == {i.c : i \in {j \in AllCode : j.op = "FUNCREF"}}
Callees  == FuncRefs \cup {i.b : i \in {j \in AllCode : j.op = "CALLF"}}

Values == {Null} \cup [kind : {"atom"}, n : Int, outer : {0}]
                 \cup [kind : {"map"}, n : Handles \ {0}, outer : {0}]
                 \cup [kind : {"funcref"}, n : FuncRefs, outer : Handles]

Infos == [ReturnPC : Nat, ReturnBase : Nat, ReturnFuncIndex : Int,
          CopyResultToReg : Int, LocalVarMap : Handles, OuterVarMap : Handles]

MapObjects == [regs  : [Names -> Slots \cup {Unmapped}],
               items : [Names -> Values \cup {Absent}]]

\* Every variable holds a value of its kind; every map handle in a register
\* or a call stack record was allocated; a map binds keys to stack slots only.
TypeOK ==
  /\ stack \in [Slots -> Values]
  /\ names \in [Slots -> Names \cup {NoName}]
  /\ callStackTop \in 0 .. CallSlots
  /\ callStack \in [0 .. CallSlots - 1 -> Infos]
  /\ pc \in Nat /\ baseIndex \in Nat
  /\ curFunc \in Funcs /\ currentFuncIndex \in Int
  /\ varMaps \in Seq(MapObjects)
  /\ home \in [DOMAIN varMaps -> 0 .. CallSlots \cup {Gone}]
  /\ status \in Status

\* Three disciplines of the code that the assembler does not check; the theorems
\* say which of them they need.  Every program of MS2Proto3/examples keeps the
\* first two.  A callee's window starts above the register of its funcref.
WindowsAboveFuncRef ==
  \A f \in Funcs : \A p \in DOMAIN Code[f] : \A i \in Code[f][p] :
    i.op = "CALL" => i.c < i.b

\* It starts above every register the caller sets and above its parameters.
WindowsAboveRegisters ==
  \A f \in Funcs : \A p \in DOMAIN Code[f] : \A i \in Code[f][p] :
    /\ i.op = "CALL"  => MaxRegs[f] <= i.b /\ Len(ParamNames[f]) < i.b
    /\ i.op = "LOADC" => Len(ParamNames[f]) < MaxRegs[f]

Capturing == {"FUNCREF", "LOCALS"}
Calling   == {"CALL", "ARGBLK", "CALLF", "LOADC"}

\* A function that may be called, as @main is not, makes no call behind the
\* instruction that captures its locals (closures.msa; variables.msa does call,
\* from @testFoo and @testImplicit, and their maps are never gathered).
CapturesComeLast ==
  \A f \in Funcs \cap Callees : \A p, q \in DOMAIN Code[f] :
    p < q => \A i \in Code[f][p], j \in Code[f][q] : ~(i.op \in Capturing /\ j.op \in Calling)

\* The records below callStackTop and Run's own copies make one chain: it
\* starts with @main at slot 0, windows never slide down from caller to
\* callee, each record resumes a real function behind the call it made, and
\* the function index kept for the next call is that of the running code
\* (VM.cs: every call sets curFunc and currentFuncIndex separately).
FrameChain ==
  /\ currentFuncIndex = curFunc
  /\ FrameBase(0) = 0 /\ FrameFunc(0) = Main
  /\ \A d \in 0 .. callStackTop - 1 :
       /\ FrameFunc(d) \in Funcs
       /\ FramePC(d) \in 1 .. Len(Code[FrameFunc(d)])
       /\ FrameBase(d) <= FrameBase(d + 1)

\* The locals map found in a call stack slot is the one made for the
\* activation at that depth and reaches only into that activation's window,
\* however often the slot was used and reused before (CallInfo.LocalVarMap,
\* and the GLOBALS opcode that fills slot 0 from any depth).
LocalsInOwnFrame ==
  \A d \in Depths \cap (0 .. CallSlots - 1) :
    LET m == callStack[d].LocalVarMap
    IN  m # 0 => /\ home[m] = d
                 /\ \A k \in Names : Mapped(m, k) => varMaps[m].regs[k] \in Window(d)

\* A map whose activation has returned is an ordinary map: none of its keys
\* still reads or writes a stack slot, which by now belongs to someone else
\* (VARIABLES.md, assignment of outer variable: "the VarMap will have
\* gathered its values").
NoDanglingVarMap ==
  \A m \in DOMAIN varMaps : home[m] = Gone => \A k \in Names : ~Mapped(m, k)

\* A map reaches the stack for as long as its activation runs, and nowhere but
\* in that activation's own window.
VarMapsReachOwnFrame == LocalsInOwnFrame /\ NoDanglingVarMap

IsCall   == callStackTop' > callStackTop
IsReturn == callStackTop' < callStackTop

\* Slots some map binds a key to.
Bound == {varMaps[m].regs[k] : m \in DOMAIN varMaps, k \in Names}

\* No slot below the running window changes, in value or name, but the register
\* a result is for and the variables that a map reaches.
OnlyOwnWindowWritten ==
  LET base == IF IsCall THEN baseIndex' ELSE baseIndex
      result == IF IsReturn THEN {baseIndex' + callStack[callStackTop'].CopyResultToReg} ELSE {}
  IN  \A s \in Slots :
        s < base /\ (stack'[s] # stack[s] \/ names'[s] # names[s]) => s \in Bound \cup result

\* A named register the caller owns keeps its value and its name.
OwnRegistersKept ==
  \A s \in baseIndex .. StackSlots - 1 :
    /\ names[s] # NoName
    /\ s - baseIndex \in 1 .. Len(ParamNames[curFunc]) \/ s < baseIndex + MaxRegs[curFunc]
    => stack'[s] = stack[s] /\ names'[s] = names[s]

\* A RETURN changes nothing a closure can see: each key of the returning
\* activation's map is there after the gather iff it was before, with the
\* value it had, although the result is copied and registers are abandoned
\* in the same step.
GatherKeepsVariables ==
  \A m \in DOMAIN varMaps : home[m] = callStackTop =>
    \A k \in Names : /\ HasKey(m, k)' = HasKey(m, k)
                     /\ HasKey(m, k) => Lookup(m, k)' = Lookup(m, k)

\* A caller finds its registers as it left them, while a callee is entered,
\* runs and returns, but for the result and for what closures write; and
\* setting up the callee's window loses no variable of the caller, nor its
\* return one of the callee's that a closure still has
\* (VARIABLES.md, ordinary variable read: implicit calls start behind "the
\* highest register referenced in any way by the code").
CallerKept ==
  [][OnlyOwnWindowWritten /\ (IsCall => OwnRegistersKept) /\ (IsReturn => GatherKeepsVariables)]_vars

\* The callee meets no stale data: of its reserved registers only the
\* parameters hold a value or a name when it starts (FUNCTION_CALLS.md,
\* considerations).
FreshFor(f) ==
  \A r \in 0 .. MaxRegs[f] - 1 :
    r \notin 1 .. Len(ParamNames[f])
      => stack'[baseIndex' + r] = Null /\ names'[baseIndex' + r] = NoName

\* FreshFor at every CALL, ARGBLK and LOADC. CALLF, alone of the calls, clears and
\* names nothing: its callee starts on the values and names that were there before.
FreshWindow ==
  [][IsCall => (CallF /\ UNCHANGED <<stack, names>>) \/ FreshFor(curFunc')]_vars

\* The specification implements Activations: frames are read off the call
\* stack and Run's locals.
Abstract == INSTANCE Activations WITH
  frames <- [d \in 1 .. callStackTop + 1 |->
               [func |-> FrameFunc(d - 1), base |-> FrameBase(d - 1),
                pc |-> FramePC(d - 1)]]

\* Every suspended caller is resumed exactly where its call left it.
CallsNest == Abstract!Spec
=============================================================================
