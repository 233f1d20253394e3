---- MODULE Proto1VM ----
(***************************************************************************)
(* The virtual machine of MS2Proto1 (VM.cs, Types.cs): one list of         *)
(* instructions for all functions, a frame behind the last one for every   *)
(* call, and operands that are registers or, from RegLimit on, constants.  *)
(* A register or instruction that is not there raises an exception.        *)
(***************************************************************************)
EXTENDS Proto2VM
RegLimit == 250   \* regLimit: operands from here on are constants

Instruction(op, a, b, c) == [op |-> op, a |-> a, b |-> b, c |-> c]
Number(n) == V!make_double(n, 1)
CallFrame(loc, base, qty) == [callLoc |-> loc, baseRegister |-> base, qtyRegisters |-> qty]

Proto1Init(qty, registers) ==
  /\ here = Start /\ cycles = 0
  /\ stack = [i \in 1 .. registers |-> Null]
  /\ calls = <<CallFrame(-1, 0, qty)>>
  /\ result = Ended("running", Null)

IsDone == here.pc >= Len(program.instructions)
now == program.instructions[here.pc + 1]
Registers(set) == \A r \in set : here.base + r \in 0 .. Len(stack) - 1
IsConst(x) == x >= RegLimit
RK(x) == IF IsConst(x) THEN program.constants[x - RegLimit + 1] ELSE stack[here.base + x + 1]
RKThere(x) == IF IsConst(x) THEN x - RegLimit < Len(program.constants) ELSE Registers({x})

(***************************************************************************)
(* The operators of Value, where the type of the first operand decides.    *)
(* The order of texts, a culture's, is left out: Less is asked of numbers. *)
(***************************************************************************)
Equal(a, b) == /\ a.type = b.type
               /\ a.type = "double" => ~V!NumberLess(b, a)   \* a - b < 1E-16
               /\ a.type = "string" => a.s = b.s
Less(a, b) == a.type = b.type /\ a.type = "double" /\ V!NumberLess(a, b)
Mixed(a, b) == Null \notin {a, b} /\ a.type # b.type   \* an InvalidCastException
Add(a, b) == CASE Null \in {a, b} -> Null
               [] Null \notin {a, b} /\ a.type = "double" -> V!Plus(a, b)
               [] Null \notin {a, b} /\ a.type = "string" -> V!string_concat(a, b)
Without(s, end) ==
  LET n == Len(s) - Len(end)
  IN  IF n >= 0 /\ SubSeq(s, n + 1, Len(s)) = end THEN SubSeq(s, 1, n) ELSE s
Subtract(a, b) == CASE Null \in {a, b} -> Null
                    [] Null \notin {a, b} /\ a.type = "double" -> V!Minus(a, b)
                    [] Null \notin {a, b} /\ a.type = "string" -> V!make_string(Without(a.s, b.s))

(***************************************************************************)
(* Step, called until IsDone.                                              *)
(***************************************************************************)
Takes == CASE now.op = "LOADK" -> Registers({now.a}) /\ now.b < Len(program.constants)
           [] now.op = "LOADNULL" -> Registers(now.a .. now.a + now.b - 1)
           [] now.op = "MOVE" -> Registers({now.a, now.b})
           [] now.op \in {"ADD", "SUB"} ->
                /\ Registers({now.a}) /\ RKThere(now.b) /\ RKThere(now.c)
                /\ ~Mixed(RK(now.b), RK(now.c))
           [] now.op \in {"EQ", "LT"} -> RKThere(now.b) /\ RKThere(now.c)
           [] now.op = "RETURN" -> Len(calls) > 1 => (RKThere(now.b) /\ Registers({0}))
           [] OTHER -> TRUE

OneStep == result.how = "running" /\ ~IsDone /\ UNCHANGED <<program, cycles>>
Steps(ops) == OneStep /\ here.pc >= 0 /\ now.op \in ops /\ Takes
Proceed(pc) == here' = [here EXCEPT !.pc = pc]
Put(r, v) == /\ stack' = [stack EXCEPT ![here.base + r + 1] = v]
             /\ Proceed(here.pc + 1) /\ UNCHANGED <<calls, result>>

Exception == OneStep /\ ~(here.pc >= 0 /\ Takes) /\ Stop("exception", Null)
Done == /\ result.how = "running" /\ IsDone
        /\ Stop("returned", stack[1]) /\ UNCHANGED <<program, cycles>>

LoadNull == /\ Steps({"LOADNULL"})
            /\ stack' = [i \in DOMAIN stack |->
                           IF i - 1 - here.base \in now.a .. now.a + now.b - 1 THEN Null ELSE stack[i]]
            /\ Proceed(here.pc + 1) /\ UNCHANGED <<calls, result>>
LoadK == Steps({"LOADK"}) /\ Put(now.a, program.constants[now.b + 1])
Move == Steps({"MOVE"}) /\ Put(now.a, RK(now.b))
Sum == Steps({"ADD"}) /\ Put(now.a, Add(RK(now.b), RK(now.c)))
Difference == Steps({"SUB"}) /\ Put(now.a, Subtract(RK(now.b), RK(now.c)))

\* The next instruction runs if the comparison comes out as A says.
Holds(op, x, y) == IF op = "EQ" THEN Equal(x, y) ELSE Less(x, y)
Truth(b) == IF b THEN 1 ELSE 0
Compare == /\ Steps({"EQ", "LT"})
           /\ Proceed(here.pc + IF Truth(Holds(now.op, RK(now.b), RK(now.c))) # now.a THEN 2 ELSE 1)
           /\ UNCHANGED <<stack, calls, result>>
Jump == Steps({"JMP"}) /\ Proceed(here.pc + now.b) /\ UNCHANGED <<stack, calls, result>>

\* A frame's registers, and one more for the argument of a call.
Call == /\ Steps({"CALL"})
        /\ LET frame == Last(calls)
               newR0 == frame.baseRegister + frame.qtyRegisters
           IN  /\ calls' = Append(calls, CallFrame(here.pc, newR0, now.b))
               /\ here' = [here EXCEPT !.pc = now.a, !.base = newR0]
               /\ stack' = [i \in 1 .. Max({Len(stack), newR0 + now.b + 1}) |->
                              IF i <= Len(stack) THEN stack[i] ELSE Null]
        /\ UNCHANGED result

\* In the base frame the operand is not looked at, nor register 0 written.
Return == /\ Steps({"RETURN"})
          /\ IF Len(calls) <= 1
             THEN Proceed(Len(program.instructions)) /\ UNCHANGED <<stack, calls>>
             ELSE /\ stack' = [stack EXCEPT ![here.base + 1] = RK(now.b)]
                  /\ calls' = Front(calls)
                  /\ here' = [here EXCEPT !.pc = Last(calls).callLoc + 1,
                                          !.base = Last(Front(calls)).baseRegister]
          /\ UNCHANGED result

Proto1Step == \/ Exception \/ Done \/ LoadNull \/ LoadK \/ Move \/ Sum \/ Difference \/ Compare
              \/ Jump \/ Call \/ Return
====
