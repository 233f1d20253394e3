---- MODULE Machine ----
(***************************************************************************)
(* A program through MS2Proto3: assembled (Assembler), loaded and run by   *)
(* the VM (cs/VM.cs), and reported on by the host (cs/App.cs), either in   *)
(* one run to the end or one instruction at a time (-vis).                 *)
(*                                                                         *)
(* Run works on copies of the VM's program counter, base and function and  *)
(* writes them back on some of the ways out only: saved and here.          *)
(* Variable names, closures and containers are in VMFrames, not here.      *)
(***************************************************************************)
EXTENDS Assembler

CONSTANTS Sources,       \* the programs
          StackSize,     \* stack.Count
          MaxCalls,      \* callStack.Count
          MaxCycles      \* UInt32.MaxValue, Run's budget when asked for none
ASSUME MachineAssumption ==
  {StackSize, MaxCalls, MaxCycles} \subseteq Nat \ {0} /\ Sources \subseteq Seq(ProgramLines)

VARIABLES
  mode,          \* "batch" or "vis"
  saved,         \* PC, BaseIndex, _currentFuncIndex
  here,          \* Run's pc, baseIndex, currentFuncIndex
  cyclesLeft,
  isRunning,     \* IsRunning
  runtimeError,  \* RuntimeError, "" for none
  stack,
  callStack,     \* the entries below callStackTop
  result,        \* what Run returned last
  report         \* what the host printed in the end

hostVars == <<mode, report>>
vars == <<assemblerVars, hostVars, saved, here, cyclesLeft, isRunning, runtimeError,
          stack, callStack, result>>

Place0 == [pc |-> 0, base |-> 0, func |-> 0]
NoReport == [what |-> "", func |-> "", line |-> 0]

Init ==
  /\ AssemblerInit(Sources)
  /\ mode \in {"batch", "vis"}
  /\ saved = Place0 /\ here = Place0 /\ cyclesLeft = 0
  /\ isRunning = FALSE /\ runtimeError = ""
  /\ stack = [i \in 0 .. StackSize - 1 |-> Null]
  /\ callStack = <<>> /\ result = Null /\ report = NoReport

AssembleStep ==
  /\ Assemble
  /\ UNCHANGED <<hostVars, saved, here, cyclesLeft, isRunning, runtimeError,
                 stack, callStack, result>>

(***************************************************************************)
(* The host: Main, from the assembler's answer to its last report.         *)
(***************************************************************************)
HostStep == UNCHANGED <<source, functions, lineNum, hasError, stack, callStack>>

AssemblyFailed ==
  /\ stage = "assembled" /\ hasError
  /\ stage' = "done" /\ report' = [NoReport EXCEPT !.what = "assembly failed"]
  /\ HostStep
  /\ UNCHANGED <<mode, saved, here, cyclesLeft, isRunning, runtimeError, result>>

\* Reset: start at @main, unless it is missing or has no code.
Reset ==
  /\ stage = "assembled" /\ ~hasError
  /\ stage' = "host"
  /\ LET main == FindFunctionIndex("@main")
     IN  IF main >= 0 /\ functions[main + 1].code # <<>>
         THEN saved' = [Place0 EXCEPT !.func = main] /\ isRunning' = TRUE
         ELSE UNCHANGED <<saved, isRunning>>
  /\ HostStep
  /\ UNCHANGED <<hostVars, here, cyclesLeft, runtimeError, result>>

\* Main calls Run: to the end, or (-vis) while IsRunning for one cycle.
EnterRun ==
  /\ stage = "host" /\ isRunning
  /\ stage' = "run"
  /\ here' = saved
  /\ cyclesLeft' = IF mode = "batch" THEN MaxCycles ELSE 1
  /\ HostStep
  /\ UNCHANGED <<hostVars, saved, isRunning, runtimeError, result>>

\* ReportRuntimeError, or the news that the program is complete.
Report ==
  /\ stage = "finish" \/ (stage = "host" /\ ~isRunning)
  /\ stage' = "done"
  /\ report' = IF runtimeError = ""
               THEN [NoReport EXCEPT !.what = "complete"]
               ELSE [what |-> runtimeError, func |-> functions[saved.func + 1].name,
                     line |-> saved.pc - 1]
  /\ HostStep
  /\ UNCHANGED <<mode, saved, here, cyclesLeft, isRunning, runtimeError, result>>

Quit ==
  /\ stage = "host" /\ mode = "vis" /\ isRunning
  /\ stage' = "done"
  /\ HostStep
  /\ UNCHANGED <<hostVars, saved, here, cyclesLeft, isRunning, runtimeError, result>>

(***************************************************************************)
(* Run.  Each step takes one cycle and one instruction word.               *)
(***************************************************************************)
Func == functions[here.func + 1]
InCode == here.pc \in 0 .. Len(Func.code) - 1
Word == Func.code[here.pc + 1]
Op == Word.op
VerbHere == Verb(Op)

AfterRun == IF mode = "batch" THEN "finish" ELSE "host"

\* Run returns v, with the copies written back or not.
Leave(v) == stage' = AfterRun /\ result' = v
LeaveSaving(v) == Leave(v) /\ saved' = here

RunVars == <<source, functions, lineNum, hasError, hostVars>>

OutOfCycles ==
  /\ stage = "run" /\ isRunning /\ cyclesLeft = 0
  /\ LeaveSaving(Null)
  /\ UNCHANGED <<RunVars, here, cyclesLeft, isRunning, runtimeError, stack, callStack>>

\* Mutant: the loop's copies are not written back.
LoopEnds_Unsaved ==
  /\ stage = "run" /\ ~isRunning
  /\ Leave(Null) /\ UNCHANGED saved
  /\ UNCHANGED <<RunVars, here, cyclesLeft, isRunning, runtimeError, stack, callStack>>

\* The loop ends because an instruction stopped the machine.
LoopEnds ==
  /\ stage = "run" /\ ~isRunning
  /\ LeaveSaving(Null)
  /\ UNCHANGED <<RunVars, here, cyclesLeft, isRunning, runtimeError, stack, callStack>>

\* Mutant: a cycle costs nothing.
Cycle_Free == stage = "run" /\ isRunning /\ cyclesLeft > 0 /\ UNCHANGED cyclesLeft

Cycle == stage = "run" /\ isRunning /\ cyclesLeft > 0 /\ cyclesLeft' = cyclesLeft - 1

OutOfCode ==
  /\ Cycle /\ here.pc >= Len(Func.code)
  /\ isRunning' = FALSE
  /\ LeaveSaving(Null)
  /\ UNCHANGED <<RunVars, here, runtimeError, stack, callStack>>

\* Operands of the instruction at hand, as the VM reads them.
Field(i) == VMReads(Word, i)
FieldAt(i) == Fields(Op)[i]
IsRegister(i) == FieldAt(i) \in {"rA", "rB", "rC"}
OperandValue(i) ==
  IF IsRegister(i) THEN stack[here.base + Field(i)]
  ELSE IF FieldAt(i) = "kBC" THEN Func.constants[Field(i) + 1] ELSE make_int(Field(i))
SetRegister(n, v) == stack' = [stack EXCEPT ![here.base + n] = v]

CallsFull == Len(callStack) >= MaxCalls

\* What ends the program with an exception: a word before the first, a base or a
\* register beyond the stack, a constant there is not, an integer division by zero, and
\* a return that looks into callStack[callStackTop] when there is no such entry.
Slots ==
  CASE VerbHere = "RETURN" -> {0}
    [] VerbHere = "CALLFN" -> {Field(1)}
    [] VerbHere = "ARG" -> {}
    [] OTHER -> {Field(i) : i \in {j \in DOMAIN Fields(Op) : IsRegister(j)}}
Throws ==
  \/ here.pc < 0
  \/ /\ InCode
     /\ \/ here.base > StackSize
        \/ \E n \in Slots : here.base + n >= StackSize
        \/ /\ "kBC" \in {Last(Op)}
           /\ Field(2) >= Len(Func.constants)
        \/ VerbHere = "RETURN" /\ CallsFull
        \/ /\ VerbHere \in {"DIV", "MOD"}
           /\ is_int(OperandValue(2)) /\ OperandValue(3) = make_int(0)
Throw ==
  /\ Cycle /\ Throws
  /\ stage' = "crashed"
  /\ UNCHANGED <<RunVars, saved, here, isRunning, runtimeError, stack, callStack, result>>

\* An instruction of some verbs, and where it goes: pc has moved on already.
Execute(verbs) == Cycle /\ ~Throws /\ InCode /\ VerbHere \in verbs

\* Mutant: a jump is relative to itself.
Advance_FromJump(offset) == here' = [here EXCEPT !.pc = @ + (IF offset = 0 THEN 1 ELSE offset)]

Advance(offset) == here' = [here EXCEPT !.pc = @ + 1 + offset]
Stay == UNCHANGED <<RunVars, stage, saved, isRunning, runtimeError, result>>

NoOp == Execute({"NOOP"}) /\ Advance(0) /\ Stay /\ UNCHANGED <<stack, callStack>>

Load ==
  /\ Execute({"LOAD"})
  /\ SetRegister(Field(1), OperandValue(2))
  /\ Advance(0) /\ Stay /\ UNCHANGED callStack

Calculation ==
  /\ Execute(Arithmetic)
  /\ SetRegister(Field(1), Calculate(VerbHere, OperandValue(2), OperandValue(3)))
  /\ Advance(0) /\ Stay /\ UNCHANGED callStack

Compare ==
  /\ Execute(Comparing)
  /\ SetRegister(Field(1),
       make_int(IF Holds(VerbHere, OperandValue(2), OperandValue(3)) THEN 1 ELSE 0))
  /\ Advance(0) /\ Stay /\ UNCHANGED callStack

Jump ==
  /\ Execute({"JUMP"})
  /\ Advance(Field(1)) /\ Stay /\ UNCHANGED <<stack, callStack>>

BranchIf ==
  /\ Execute({"BRTRUE", "BRFALSE"})
  /\ Advance(IF is_truthy(OperandValue(1)) = (VerbHere = "BRTRUE") THEN Field(2) ELSE 0)
  /\ Stay /\ UNCHANGED <<stack, callStack>>

Branch ==
  /\ Execute(Branching)
  /\ Advance(IF Holds(VerbHere, OperandValue(1), OperandValue(2)) THEN Field(3) ELSE 0)
  /\ Stay /\ UNCHANGED <<stack, callStack>>

Skip ==
  /\ Execute(Skipping)
  /\ Advance(IF Holds(VerbHere, OperandValue(1), OperandValue(2)) THEN 0 ELSE 1)
  /\ Stay /\ UNCHANGED <<stack, callStack>>

\* INDEX and IDXSET of what is no container: the loop ends, see LoopEnds.
CannotIndex ==
  /\ Execute({"INDEX", "IDXSET"})
  /\ runtimeError' = "Can't index" /\ isRunning' = FALSE
  /\ IF VerbHere = "INDEX" THEN SetRegister(Field(1), Null) ELSE UNCHANGED stack
  /\ Advance(0)
  /\ UNCHANGED <<RunVars, stage, saved, callStack, result>>

\* ARG on its own is an error that returns at once, nothing written back.
StrayArgument ==
  /\ Execute({"ARG"})
  /\ runtimeError' = "ARG without ARGBLK" /\ isRunning' = FALSE
  /\ Leave(Null)
  /\ UNCHANGED <<RunVars, saved, here, stack, callStack>>

\* CALLF of a function there is not, or on a full call stack, leaves Run with
\* nothing written back and the machine running.
CallRefused ==
  /\ Execute({"CALLF"})
  /\ Field(2) >= Len(functions) \/ CallsFull
  /\ Leave(Null)
  /\ UNCHANGED <<RunVars, saved, here, isRunning, runtimeError, stack, callStack>>

CallFunction ==
  /\ Execute({"CALLF"})
  /\ Field(2) < Len(functions) /\ ~CallsFull
  /\ callStack' = Append(callStack, [here EXCEPT !.pc = @ + 1])
  /\ here' = [pc |-> 0, base |-> here.base + Field(1), func |-> Field(2)]
  /\ Stay /\ UNCHANGED stack

CallNamed ==
  /\ Execute({"CALLFN"})
  /\ LET name == Func.constants[Field(2) + 1].s
     IN  SetRegister(Field(1), Intrinsic(IF name = <<>> THEN "" ELSE name[1],
                                         stack[here.base + Field(1)]))
  /\ Advance(0) /\ Stay /\ UNCHANGED callStack

ReturnToCaller ==
  /\ Execute({"RETURN"}) /\ callStack # <<>>
  /\ here' = Last(callStack) /\ callStack' = Front(callStack)
  /\ Stay /\ UNCHANGED stack

ReturnFromMain ==
  /\ Execute({"RETURN"}) /\ callStack = <<>>
  /\ here' = [here EXCEPT !.pc = @ + 1]
  /\ saved' = here' /\ isRunning' = FALSE
  /\ Leave(stack[here.base])
  /\ UNCHANGED <<RunVars, runtimeError, stack, callStack>>

Run == \/ OutOfCycles \/ LoopEnds \/ OutOfCode \/ Throw \/ NoOp \/ Load \/ Calculation
       \/ Compare \/ Jump \/ BranchIf \/ Branch \/ Skip \/ CannotIndex \/ StrayArgument
       \/ CallRefused \/ CallFunction \/ CallNamed \/ ReturnToCaller \/ ReturnFromMain

Host == AssemblyFailed \/ Reset \/ EnterRun \/ Report \/ Quit

Next == AssembleStep \/ Host \/ Run

Spec == Init /\ [][Next]_vars /\ WF_vars(Next)

(***************************************************************************)
(* Properties.                                                             *)
(***************************************************************************)
\* Where the program is, in terms of its text, and how it fares.
Assembled == ~hasError /\ lineNum > Len(source)
Loaded == Assembled /\ stage \notin {"assembling", "assembled"}
At == IF stage = "host" \/ (stage = "done" /\ mode = "vis") THEN saved ELSE here
PositionOf(place) == <<functions[place.func + 1].name, place.pc + 1>>
Status ==
  IF stage = "crashed" THEN "fault"
  ELSE IF runtimeError # "" THEN "error"
  ELSE IF ~Loaded \/ isRunning THEN "running" ELSE "stopped"

\* The same in the terms of Source.
Where ==
  IF ~Loaded THEN <<"@main", 1>> ELSE IF Status = "running" THEN PositionOf(At) ELSE <<"", 0>>
Waiting ==
  [i \in DOMAIN callStack |-> [at |-> PositionOf(callStack[i]), base |-> callStack[i].base]]

Promise ==
  INSTANCE Source WITH at <- Where, base <- At.base, calls <- Waiting, status <- Status

\* The VM executes what a well-formed source says: every instruction it runs, at the
\* place it runs it, has the effect its line has with its operands as written, through
\* jumps, skips and calls, in both modes of the host.
RunsTheSource ==
  /\ Promise!WellFormed => Promise!Init
  /\ [][Promise!WellFormed => Promise!Next]_(Promise!vars)

\* What the VM reads in the i-th field of a function's k-th instruction is the operand t:
\* a constant's value, a function's name, the position of a label, a number as written.
OperandRead(f, k, i, t) ==
  LET word  == f.code[k]
      verb  == Verb(word.op)
      field == Fields(word.op)[i]
      v     == VMReads(word, i)
  IN  CASE field \in {"kC", "kBC"} ->
             t.t # "const" /\ v + 1 \in DOMAIN f.constants /\ f.constants[v + 1] = Promise!Value(t)
        [] verb \in {"CALLF", "FUNCREF"} /\ i = 2 ->
             v + 1 \in DOMAIN functions /\ functions[v + 1].name = t.s
        [] t.t = "word" /\ ~(verb \in {"CALLF", "FUNCREF"} /\ i = 2) ->
             v = Promise!Position(f.name, t.s) - (k + 1)
        [] OTHER -> v = t.n

\* The code of every function is its lines, @main has some, and no line is left out.
ReadAsWritten ==
  /\ Promise!BodiesApart
  /\ \A i \in DOMAIN source : source[i].verb # ".param"
  /\ Promise!Instructions("@main") # <<>>
  /\ \A n \in DOMAIN functions :
       LET f     == functions[n]
           lines == Promise!Instructions(f.name)
       IN  /\ Len(lines) = Len(f.code)
           /\ \A k \in DOMAIN lines : \A i \in DOMAIN Fields(f.code[k].op) :
                OperandRead(f, k, i, lines[k].args[i])

\* Room for the constants: two bytes number them all, and one those of the lines that
\* give a variable's name in their last byte.
FewNames == \A i \in DOMAIN source : source[i].verb \in {"LOADV", "LOADC", "ASSIGN"} => i <= ByteSize
Roomy == Len(source) < Span(2) /\ FewNames

\* A well-formed program with room for its constants is assembled, to its last line and
\* without an error, into what the VM reads as written; and no other program is: one that
\* is not well formed is refused, or is read as something else than was written.
AssemblesTheWellFormed ==
  stage = "assembled" =>
    /\ Promise!WellFormed /\ Roomy => Assembled /\ ReadAsWritten
    /\ Assembled /\ ReadAsWritten => Promise!WellFormed

\* A function reserves the registers up to the highest one its instructions write or
\* name, those of CALLFN left out, and no more: frames and the maps of local variables
\* are sized by that count, and what CALLFN writes may lie beyond it.
Writing ==
  Arithmetic \union Comparing \union
  {"LOAD", "LOADV", "LOADC", "FUNCREF", "ASSIGN", "LIST", "MAP", "INDEX",
   "LOCALS", "OUTER", "GLOBALS", "CALL", "CALLFN"}
WritesReserved(word) == Verb(word.op) \in (Writing \ {"CALLFN"}) \union {"NAME"}
RegistersReserved ==
  \A i \in DOMAIN functions :
    LET f == functions[i]
    IN  /\ \A k \in DOMAIN f.code : WritesReserved(f.code[k]) => FieldU(f.code[k], "rA") < f.maxRegs
        /\ \/ f.maxRegs = 0
           \/ \E k \in DOMAIN f.code : WritesReserved(f.code[k]) /\ FieldU(f.code[k], "rA") + 1 = f.maxRegs

\* An operand that is a number of its own: a register or an immediate, no label,
\* constant or function.
Numeric(op, i, t) ==
  /\ IsReg(t) \/ (t.t = "num" /\ Immediate(Fields(op)[i]))
  /\ ~(Verb(op) \in {"CALLF", "FUNCREF"} /\ i = 2)

\* The disassembler lists as many instructions as were written, and of each the
\* numbers that were written: a register if it is one of a byte's, an immediate if
\* its field holds it, without a sign where there are three, else with one.
ListingAsWritten ==
  stage = "assembled" /\ Assembled /\ Promise!BodiesApart =>
    \A f \in DOMAIN functions :
      LET lines == Promise!Instructions(functions[f].name)
          code  == functions[f].code
      IN  /\ Len(lines) = Len(code)
          /\ \A k \in DOMAIN lines : \A i \in DOMAIN Fields(code[k].op) :
               LET t     == lines[k].args[i]
                   bytes == Place(Fields(code[k].op)[i])[2]
                   shown == IF IsReg(t) \/ Len(code[k].op) = 4 THEN 0 .. Span(bytes) - 1
                            ELSE SignedRange(bytes)
               IN  Numeric(code[k].op, i, t) => (Listed(code[k], i) = t.n <=> t.n \in shown)

\* The error of an instruction that indexes is reported at that instruction.
ErrorLine ==
  report.what = "Can't index" =>
    LET f == functions[FindFunctionIndex(report.func) + 1]
    IN  report.line + 1 \in DOMAIN f.code /\ Verb(f.code[report.line + 1].op) \in {"INDEX", "IDXSET"}

\* What is shown of a program is what was written: its listing, and where it failed.
ShownAsWritten == ListingAsWritten /\ ErrorLine

\* Run returns, whatever the program: its budget of cycles ends every loop.
RunReturns == stage = "run" ~> stage # "run"
====
