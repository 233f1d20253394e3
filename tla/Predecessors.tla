---- MODULE Predecessors ----
(***************************************************************************)
(* The three virtual machines before MS2Proto3, each with the programs it  *)
(* can be given: TinyVM and MS2Proto1 run what their callers build from    *)
(* instructions; MS2Proto2 runs that too, or what its assembler makes of a *)
(* source file (assemble_file, then execute_code).                         *)
(***************************************************************************)
EXTENDS Proto1VM

(***************************************************************************)
(* The programs that come with the prototypes: those their main functions  *)
(* build from instructions, and MS2Proto2's assembly examples.  Where the  *)
(* code fixes a number n, here it is a parameter.                          *)
(***************************************************************************)
Function(code) == [code |-> code, constants |-> <<>>]
Patch(word, from, target) == [word EXCEPT !.c = (target - (from + 1)) % ByteSize]

(***************************************************************************)
(* TinyVM: fib by recursion.                                               *)
(***************************************************************************)
TinyFib == Function(<<INS_ABC("LOADK", 1, 2, 0), Patch(INS_ABC("IFLT", 0, 1, 0), 1, 12),
  INS_ABC("MOVE", 1, 0, 0), INS_ABC("LOADK", 2, 1, 0), INS_ABC("SUB", 1, 1, 2), INS_ABC("CALLF", 1, 1, 0),
  INS_ABC("MOVE", 3, 0, 0), INS_ABC("LOADK", 4, 2, 0), INS_ABC("SUB", 3, 3, 4), INS_ABC("CALLF", 3, 1, 0),
  INS_ABC("ADD", 0, 1, 3), INS_ABC("RETURN", 0, 1, 0), INS_ABC("RETURN", 0, 1, 0)>>)
TinyMain(n) == Function(<<INS_ABC("LOADK", 0, n % ByteSize, 0), INS_ABC("CALLF", 0, 1, 0), INS_ABC("RETURN", 0, 1, 0)>>)

(***************************************************************************)
(* MS2Proto2: fib by recursion, in six instructions less.                  *)
(***************************************************************************)
Proto2Fib == Function(<<INS_AB("LOADK", 1, 2), Patch(INS_ABC("IFLT", 0, 1, 0), 1, 10),
  INS_AB("LOADK", 1, 1), INS_ABC("SUB", 1, 0, 1), INS_ABC("CALLF", 1, 1, 0),
  INS_AB("LOADK", 2, 2), INS_ABC("SUB", 2, 0, 2), INS_ABC("CALLF", 2, 1, 0),
  INS_ABC("ADD", 0, 1, 2), INS("RETURN"), INS("RETURN")>>)
Proto2Main(n) == Function(<<INS_AB("LOADK", 0, n), INS_ABC("CALLF", 0, 1, 0), INS_ABC("RETURN", 0, 1, 0)>>)

(***************************************************************************)
(* MS2Proto1: a sum of two, of 1 to n, and fib in a loop and by recursion. *)
(***************************************************************************)
K(i) == RegLimit + i
Listing(constants, instructions, qty, registers) ==
  [constants |-> [i \in DOMAIN constants |-> Number(constants[i])], instructions |-> instructions,
   qty |-> qty, registers |-> registers]

Load42 == Listing(<<40, 2>>,
  <<Instruction("LOADK", 0, 0, 0), Instruction("ADD", 1, 0, K(1)), Instruction("MOVE", 0, 1, 0)>>, 2, 2)

LoadSum(n) == Listing(<<n, 0, -1>>,
  <<Instruction("LOADK", 0, 1, 0), Instruction("LOADK", 1, 0, 0),
    Instruction("EQ", 1, 1, K(1)), Instruction("JMP", 0, 4, 0),
    Instruction("ADD", 0, 0, 1), Instruction("ADD", 1, 1, K(2)), Instruction("JMP", 0, -4, 0)>>, 2, 2)

LoadFib(n) == Listing(<<n, 0, 1, 2>>,
  <<Instruction("LOADK", 0, 0, 0), Instruction("LT", 1, 0, K(3)), Instruction("JMP", 0, 10, 0),
    Instruction("LOADK", 1, 1, 0), Instruction("LOADK", 2, 2, 0), Instruction("SUB", 3, K(0), K(2)),
    Instruction("LT", 1, 3, K(2)), Instruction("JMP", 0, 6, 0),
    Instruction("ADD", 0, 1, 2), Instruction("MOVE", 1, 2, 0), Instruction("MOVE", 2, 0, 0),
    Instruction("SUB", 3, 3, K(2)), Instruction("JMP", 0, -6, 0)>>, 4, 4)

LoadRFib(n) == Listing(<<n, 0, 1, 2>>,
  <<Instruction("LOADK", 0, 0, 0), Instruction("LT", 1, 0, K(2)), Instruction("RETURN", 0, K(1), 0),
    Instruction("EQ", 1, 0, K(2)), Instruction("RETURN", 0, K(2), 0),
    Instruction("SUB", 3, 0, K(2)), Instruction("CALL", 1, 3, 0), Instruction("MOVE", 1, 3, 0),
    Instruction("SUB", 3, 0, K(3)), Instruction("CALL", 1, 3, 0), Instruction("ADD", 1, 1, 3),
    Instruction("RETURN", 0, 1, 0)>>, 3, 4)

(***************************************************************************)
(* Lines of assembly, and the examples of MS2Proto2.                       *)
(***************************************************************************)
Verb(op) == [kind |-> "word", n |-> 0, text |-> op, value |-> Null]
Name(text) == Verb(text)
Reg(n) == [Verb("") EXCEPT !.kind = "reg", !.n = n]
Imm(n) == [Verb("") EXCEPT !.kind = "imm", !.n = n]
Literal(v) == [Verb("") EXCEPT !.kind = "constant", !.value = v]
Line(tokens) == [function |-> "", label |-> "", tokens |-> tokens]
At(label, tokens) == [Line(tokens) EXCEPT !.label = label]
Fn(name) == [Line(<<>>) EXCEPT !.function = name]
L3(op, x, y) == Line(<<Verb(op), x, y>>)
L4(op, x, y, z) == Line(<<Verb(op), x, y, z>>)
JumpTo(label) == Line(<<Verb("JMP"), Name(label)>>)
Back == Line(<<Verb("RETURN")>>)
CallMain(n) == <<Fn("main"), L3("LOAD", Reg(0), Imm(n)), L4("CALLF", Reg(0), Imm(1), Imm(0)), Back>>

simple == <<Fn("main"), L3("LOADK", Reg(0), Imm(5)), L3("LOADK", Reg(1), Imm(3)), L4("ADD", Reg(0), Reg(0), Reg(1)), Back>>

countdown(n) == <<Fn("main"), L3("LOADK", Reg(0), Imm(n)), At("loop", <<>>), L3("LOADK", Reg(1), Imm(0)),
  L4("IFLT", Reg(0), Reg(1), Name("end")), L3("LOADK", Reg(1), Imm(1)), L4("SUB", Reg(0), Reg(0), Reg(1)),
  JumpTo("loop"), At("end", <<>>), Back>>

factorial(n) == <<Fn("factorial"), L3("LOAD", Reg(1), Imm(1)), L3("LOAD", Reg(2), Imm(2)),
  L4("IFLT", Reg(0), Reg(2), Name("lessTwo")), L4("SUB", Reg(3), Reg(0), Reg(1)), L4("CALLF", Reg(3), Imm(1), Imm(0)),
  L4("MULT", Reg(0), Reg(0), Reg(3)), Back, At("lessTwo", <<>>), L3("LOAD", Reg(0), Imm(1)), Back>> \o CallMain(n)

recur_fib(n) == <<Fn("fib"), L3("LOAD", Reg(1), Imm(2)), L4("IFLT", Reg(0), Reg(1), Name("done")),
  L3("LOAD", Reg(1), Imm(1)), L4("SUB", Reg(1), Reg(0), Reg(1)), L4("CALLF", Reg(1), Imm(1), Imm(0)),
  L3("LOAD", Reg(2), Imm(2)), L4("SUB", Reg(2), Reg(0), Reg(2)), L4("CALLF", Reg(2), Imm(1), Imm(0)),
  L4("ADD", Reg(0), Reg(1), Reg(2)), At("done", <<>>), Back>> \o CallMain(n)

iter_fib(n) == <<Fn("main"), L3("LOADK", Reg(0), Imm(n)), L3("LOADK", Reg(1), Imm(0)), L3("LOADK", Reg(2), Imm(1)),
  L3("LOADK", Reg(3), Imm(1)), L4("IFLT", Reg(0), Reg(3), Name("zero")), L3("LOADK", Reg(3), Imm(2)),
  L4("IFLT", Reg(0), Reg(3), Name("one")), L3("LOADK", Reg(4), Imm(2)), At("loop", <<>>),
  L4("ADD", Reg(3), Reg(1), Reg(2)), L3("MOVE", Reg(1), Reg(2)), L3("MOVE", Reg(2), Reg(3)), L3("LOADK", Reg(3), Imm(1)),
  L4("ADD", Reg(4), Reg(4), Reg(3)), L4("IFLT", Reg(0), Reg(4), Name("end")), JumpTo("loop"),
  At("zero", <<>>), L3("LOADK", Reg(0), Imm(0)), Back, At("one", <<>>), L3("LOADK", Reg(0), Imm(1)), Back,
  At("end", <<>>), L3("MOVE", Reg(0), Reg(2)), Back>>

(***************************************************************************)
(* The machines.                                                           *)
(***************************************************************************)
VARIABLES machine,   \* which prototype
          source,    \* the lines of the file, none for a program built by hand
          asm,       \* the assembler: functions, and the open one
          line,      \* the line to assemble next
          stage,     \* "assemble", "resolve", "execute", "run" or "rejected"
          goal       \* the number the program is to compute, where one is known; no step reads it
assemblyVars == <<source, asm, line, goal>>
allVars == <<machine, stage, assemblyVars, vars>>

NoProgram == [entry |-> Function(<<>>), funcs |-> <<>>]
Assembly(lines) ==
  /\ machine = "Proto2" /\ stage = "assemble" /\ source = lines /\ asm = asm_init /\ line = 1
  /\ program = NoProgram /\ vm_init
ByHand(name, p) == machine = name /\ stage = "run" /\ source = <<>> /\ asm = asm_init /\ line = 1 /\ program = p
HandBuilt(p) == ByHand("Proto2", p) /\ vm_init
HandBuiltTiny(p) == ByHand("TinyVM", p) /\ TinyInit
Proto1Demo(p) == ByHand("Proto1", p) /\ Proto1Init(p.qty, p.registers)

\* A file is any sequence of lines, and a program built by hand is any program.
SourceValues == {Null} \union {V!make_double(i, j) : i \in Int, j \in Int \ {0}}
                  \union {V!make_string(s) : s \in Seq(STRING)}
SourceTokens == [kind : {"reg", "imm", "constant", "word"}, n : Int, text : STRING, value : SourceValues]
SourceLines == [function : STRING, label : STRING, tokens : Seq(SourceTokens)]
Init == \/ \E file \in Seq(SourceLines) : Assembly(file)
        \/ \E p : HandBuilt(p) \/ HandBuiltTiny(p) \/ Proto1Demo(p)

\* assemble_file stops at the first line that is refused.
AssembleLine ==
  /\ stage = "assemble" /\ line <= Len(source)
  /\ IF Refused(asm, source[line])
     THEN stage' = "rejected" /\ UNCHANGED <<asm, line>>
     ELSE asm' = process_line(asm, source[line]) /\ line' = line + 1 /\ UNCHANGED stage
  /\ UNCHANGED <<machine, source, goal, vars>>

EndOfFile == stage = "assemble" /\ line > Len(source) /\ stage' = "resolve"
             /\ UNCHANGED <<machine, assemblyVars, vars>>
Resolve ==
  /\ stage = "resolve"
  /\ IF AllResolvable(asm)
     THEN asm' = asm_resolve_labels(asm) /\ stage' = "execute"
     ELSE stage' = "rejected" /\ UNCHANGED asm
  /\ UNCHANGED <<machine, source, line, goal, vars>>

\* Without a function named main nothing runs; a second one is not reachable.
execute_code ==
  /\ stage = "execute"
  /\ LET main == asm_get_main_function(asm)
     IN  IF main = 0 THEN stage' = "rejected" /\ UNCHANGED program
         ELSE /\ stage' = "run"
              /\ program' = [entry |-> asm.functions[main], funcs |-> CalledFunctions(asm)]
  /\ UNCHANGED <<machine, assemblyVars, here, stack, calls, cycles, result>>

On(name) == stage = "run" /\ machine = name /\ UNCHANGED <<machine, stage, assemblyVars>>
Next == \/ AssembleLine \/ EndOfFile \/ Resolve \/ execute_code
        \/ On("Proto2") /\ Step
        \/ On("TinyVM") /\ TinyStep
        \/ On("Proto1") /\ Proto1Step
Spec == Init /\ [][Next]_allVars

(***************************************************************************)
(* What the demonstrations compute.                                        *)
(***************************************************************************)
Unknown == [known |-> FALSE, value |-> Null, register |-> 0]
To(v) == [Unknown EXCEPT !.known = TRUE, !.value = v]
Computed == IF machine = "Proto1" THEN stack[goal.register + 1] ELSE result.value
Ends == stage = "run" /\ result.how # "running"

(***************************************************************************)
(* Each program that comes with the prototypes returns, with the number it *)
(* is written to compute, for every n in place of the one in the code: its *)
(* calls keep the caller's registers, and its jumps, by label or by number,*)
(* go where they should.  MS2Proto1's recursive one has it in register 1,  *)
(* and prints register 0, n itself (VM.cs RETURN in the base frame,        *)
(* Program.cs RunTest1).                                                   *)
(***************************************************************************)
DemosCompute == Ends /\ goal.known => result.how = "returned" /\ Computed = goal.value

(***************************************************************************)
(* The assembler, against the source read as text.                         *)
(***************************************************************************)
\* The lines of the k-th function of a file, those between two definitions.
Heads(file) == {n \in DOMAIN file : file[n].function # ""}
HeadsUpto(file, n) == Cardinality({h \in Heads(file) : h <= n})
HeadOf(file, k) == CHOOSE n \in Heads(file) : HeadsUpto(file, n) = k
BodyLines(file, k) ==
  {n \in DOMAIN file : /\ n > HeadOf(file, k)
                       /\ \A h \in Heads(file) : h <= HeadOf(file, k) \/ h > n}
Tokens(file, n) == parse_tokens(file[n].tokens)
Instructions(file, k) == {n \in BodyLines(file, k) : Tokens(file, n) # <<>>}
AddressOf(file, k, n) == Cardinality({m \in Instructions(file, k) : m < n})
LineAt(file, k, pc) == CHOOSE n \in Instructions(file, k) : AddressOf(file, k, n) = pc
Labelled(file, k, name) == {n \in BodyLines(file, k) : file[n].label = name}
Target(t) == t[Len(t)]
ByLabel(t) == t # <<>> /\ t[1].text \in {"JMP", "IFLT"} /\ ~is_immediate(Target(t))
JumpLines(file, k) == {n \in Instructions(file, k) : ByLabel(Tokens(file, n))}
Destination(pc, word) == pc + 1 + IF word.op = "JMP" THEN BC(word) ELSE C8(word)

(***************************************************************************)
(* Every function has a word for each of its instruction lines, and a jump *)
(* to a label goes to the instruction behind the label's last definition,  *)
(* if the function has no more such jumps than the table of references     *)
(* holds: the code drops the others and leaves their offset 0              *)
(* (assembler.c asm_add_reference and resolve_function_labels).            *)
(***************************************************************************)
FunctionLands(file, k, f) ==
  /\ Len(f.code) = Cardinality(Instructions(file, k))
  /\ Cardinality(JumpLines(file, k)) <= MaxRefs =>
       \A n \in JumpLines(file, k) :
         Destination(AddressOf(file, k, n), f.code[AddressOf(file, k, n) + 1])
           = AddressOf(file, k, Max(Labelled(file, k, Target(Tokens(file, n)).text)))
JumpsLand ==
  stage \in {"execute", "run"} /\ source # <<>> =>
    \A k \in DOMAIN asm.functions : FunctionLands(source, k, asm.functions[k])

\* The function in the source that runs: the first main, or the others in order.
SourceFunction ==
  LET mains == {k \in DOMAIN asm.functions : asm.functions[k].is_main}
  IN  IF here.func = 0 THEN Min(mains)
      ELSE CHOOSE k \in DOMAIN asm.functions \ mains :
             Cardinality({j \in DOMAIN asm.functions \ mains : j <= k}) = here.func
Loads(t) == t # <<>> /\ t[1].text \in {"LOADK", "LOAD", "LOADN"}
\* The constant a line gives, and whether 32 bits hold the number a token writes.
AsWritten(t) == IF is_immediate(t) THEN make_int(t.n) ELSE t.value
Fits(t) == t.kind \in {"reg", "imm"} => t.n \in V!MinInt .. MaxInt
\* An equal constant of another type earlier in the function's table.
Merged(v) == \E c \in Range(Table) : value_equal(c, v) /\ c # v

(***************************************************************************)
(* A LOAD puts into its register the constant its line gives, whichever of *)
(* the two instructions the assembler took and wherever it put it, exactly *)
(* if 32 bits hold the constant: of a larger integer the code keeps the    *)
(* low half, so that LOADK and LOAD of 4294967301 load 5 (assembler.c      *)
(* is_immediate).  Two constants go astray besides: those of a function    *)
(* that was called, which LOADN looks up in the table of main, and 1 and   *)
(* 1.0, which share an entry (vm.c LOADN, assembler.c asm_add_constant).   *)
(***************************************************************************)
LoadsAsWritten ==
  [][machine = "Proto2" /\ stage = "run" /\ source # <<>> /\ (LOADK \/ LOADN) =>
       LET t == Tokens(source, LineAt(source, SourceFunction, here.pc))
       IN  Loads(t) /\ Fits(t[2]) =>
             \/ stack'[here.base + t[2].n] = AsWritten(t[3]) <=> Fits(t[3])
             \/ ins.op = "LOADN" /\ (here.func # 0 \/ Merged(parse_constant(t[3])))]_allVars
====
