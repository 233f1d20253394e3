---- MODULE Proto2VM ----
(***************************************************************************)
(* The virtual machine of MS2Proto2 (src/vm/vm.c): vm_exec, which runs an  *)
(* entry function and those it calls until the entry function returns.     *)
(* A callee's registers begin at the register its call names, so that      *)
(* arguments and result stay where they are.                               *)
(*                                                                         *)
(* The C code trusts the program: code that runs past its end or frames    *)
(* that leave the stack are undefined behaviour, here a stop of its own.   *)
(*                                                                         *)
(* At the end, its forerunner TinyVM.                                      *)
(***************************************************************************)
EXTENDS Proto2Assembler
CONSTANTS StackSize,   \* stack_slots: 4096 in the code
          MaxCalls,    \* call_slots: 1024 in the code
          MaxCycles    \* max_cycles, which the demonstrations leave at 0, no limit
ASSUME VMAssumption == {StackSize, MaxCalls, MaxCycles} \subseteq Nat \ {0}

VARIABLES program,   \* the entry function and the functions CALLF numbers
          here,      \* the running function (0 is the entry), its PC and base
          stack,     \* the registers, from 0
          calls,     \* the call stack: where to go on, innermost last
          cycles,    \* instructions run
          result     \* how it ended, and with which value
vars == <<program, here, stack, calls, cycles, result>>

Ended(how, v) == [how |-> how, value |-> v]
Start == [func |-> 0, pc |-> 0, base |-> 0]

vm_init == /\ here = Start
           /\ stack = [i \in 0 .. StackSize - 1 |-> Null]
           /\ calls = <<>>
           /\ cycles = 0
           /\ result = Ended("running", Null)

Proto(f) == IF f = 0 THEN program.entry ELSE program.funcs[f]
Code == Proto(here.func).code
InCode == here.pc \in 0 .. Len(Code) - 1
ins == Code[here.pc + 1]
InStack(r) == here.base + r < StackSize
R(r) == stack[here.base + r]

\* The registers an instruction touches, and what the code takes on trust.
Touches == CASE ins.op \in {"MOVE", "IFLT", "IFEQ", "IFLE", "IFNE"} -> {ins.a, ins.b}
             [] ins.op \in {"LOADK", "LOADN"} -> {ins.a}
             [] ins.op \in Arithmetic -> {ins.a, ins.b, ins.c}
             [] OTHER -> {0}
DividesByZero == ins.op = "DIV" /\ Ints(R(ins.b), R(ins.c)) /\ R(ins.c).n = 0
Defined == InCode /\ (\A r \in Touches : InStack(r)) /\ ~DividesByZero

Cycle == result.how = "running" /\ cycles < MaxCycles /\ cycles' = cycles + 1 /\ UNCHANGED program
Execute(ops) == Cycle /\ Defined /\ ins.op \in ops

Stop(how, v) == result' = Ended(how, v) /\ UNCHANGED <<here, stack, calls>>
OutOfCycles == /\ result.how = "running" /\ cycles = MaxCycles
               /\ Stop("cycles", Null) /\ UNCHANGED <<program, cycles>>
Undefined == Cycle /\ ~Defined /\ Stop("undefined", Null)

Goto(offset) == here' = [here EXCEPT !.pc = @ + 1 + offset] /\ UNCHANGED <<calls, result>>
Set(r, v) == stack' = [stack EXCEPT ![here.base + r] = v] /\ Goto(0)

MOVE == Execute({"MOVE"}) /\ Set(ins.a, R(ins.b))
LOADK == Execute({"LOADK"}) /\ Set(ins.a, make_int(BC(ins)))

\* The table is the entry function's, whichever function runs.
Table == program.entry.constants
LOADN == /\ Execute({"LOADN"})
         /\ IF Wide(ins) < Len(Table) THEN Set(ins.a, Table[Wide(ins) + 1])
            ELSE Stop("exit", Null)

Operation(op, x, y) == CASE op = "ADD" -> value_add(x, y) [] op = "SUB" -> value_sub(x, y)
                         [] op = "MULT" -> value_mult(x, y) [] op = "DIV" -> value_div(x, y)
Calculate == Execute(Arithmetic) /\ Set(ins.a, Operation(ins.op, R(ins.b), R(ins.c)))

\* IFLE asks for less and equal at once.
Taken(op, x, y) == CASE op = "IFLT" -> value_lt(x, y) [] op = "IFEQ" -> value_equal(x, y)
                     [] op = "IFLE" -> value_lt(x, y) /\ value_equal(x, y)
                     [] op = "IFNE" -> ~value_equal(x, y)
Branch == /\ Execute({"IFLT", "IFEQ", "IFLE", "IFNE"})
          /\ Goto(IF Taken(ins.op, R(ins.a), R(ins.b)) THEN C8(ins) ELSE 0)
          /\ UNCHANGED stack
JMP == Execute({"JMP"}) /\ Goto(BC(ins)) /\ UNCHANGED stack

CallRefused == ins.c >= Len(program.funcs) \/ Len(calls) >= MaxCalls
ReturnBase_Callee == here.base + ins.a
ReturnBase == here.base
CALLF == /\ Execute({"CALLF"})
         /\ IF CallRefused THEN Stop("exit", Null)
            ELSE /\ calls' = Append(calls, [here EXCEPT !.pc = @ + 1, !.base = ReturnBase])
                 /\ here' = [func |-> ins.c + 1, pc |-> 0, base |-> here.base + ins.a]
                 /\ UNCHANGED <<stack, result>>

\* The value of the entry function is its register 0.
RETURN == /\ Execute({"RETURN"})
          /\ IF calls = <<>> THEN Stop("returned", R(0))
             ELSE /\ here' = Last(calls) /\ calls' = Front(calls)
                  /\ UNCHANGED <<stack, result>>

Step == \/ OutOfCycles \/ Undefined \/ MOVE \/ LOADK \/ LOADN \/ Calculate
        \/ Branch \/ JMP \/ CALLF \/ RETURN

(***************************************************************************)
(* TinyVM (tiny_vm.c), the sketch this machine grew from: vm_exec over     *)
(* plain C integers, with constants and jumps of one byte.  Overflow of an *)
(* int is undefined behaviour, as is leaving the code or the stack.        *)
(***************************************************************************)
\* Constants and jump offsets are bytes: LOADK in B, IFLT and JMP in C.
B8(word) == IF word.b < ByteSize \div 2 THEN word.b ELSE word.b - ByteSize
Result(op, x, y) == IF op = "ADD" THEN x + y ELSE x - y
Sums == {"ADD", "SUB"}
Overflows == ins.op \in Sums /\ Result(ins.op, R(ins.b), R(ins.c)) \notin -MaxInt - 1 .. MaxInt
TinyDefined == InCode /\ (\A r \in Touches : InStack(r)) /\ ~Overflows
Unlimited == result.how = "running" /\ UNCHANGED <<program, cycles>>
TinyExecute(op) == Unlimited /\ TinyDefined /\ ins.op = op

TinyInit == /\ here = Start /\ calls = <<>> /\ cycles = 0 /\ result = Ended("running", 0)
            /\ stack = [i \in 0 .. StackSize - 1 |-> 0]

TinyUndefined == Unlimited /\ ~TinyDefined /\ Stop("undefined", 0)
TinyMove == TinyExecute("MOVE") /\ Set(ins.a, R(ins.b))
TinyLoad == TinyExecute("LOADK") /\ Set(ins.a, B8(ins))
TinySum == /\ \E op \in Sums : TinyExecute(op)
           /\ Set(ins.a, Result(ins.op, R(ins.b), R(ins.c)))
TinyBranch == TinyExecute("IFLT") /\ Goto(IF R(ins.a) < R(ins.b) THEN C8(ins) ELSE 0) /\ UNCHANGED stack
TinyJump == TinyExecute("JMP") /\ Goto(C8(ins)) /\ UNCHANGED stack
TinyCall == /\ TinyExecute("CALLF")
            /\ IF CallRefused THEN Stop("exit", 0)
               ELSE /\ calls' = Append(calls, [here EXCEPT !.pc = @ + 1])
                    /\ here' = [func |-> ins.c + 1, pc |-> 0, base |-> here.base + ins.a]
                    /\ UNCHANGED <<stack, result>>
TinyReturn == /\ TinyExecute("RETURN")
              /\ IF calls = <<>> THEN Stop("returned", R(0))
                 ELSE /\ here' = Last(calls) /\ calls' = Front(calls)
                      /\ UNCHANGED <<stack, result>>

TinyStep == \/ TinyUndefined \/ TinyMove \/ TinyLoad \/ TinySum \/ TinyBranch \/ TinyJump
            \/ TinyCall \/ TinyReturn
====
