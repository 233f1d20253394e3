---- MODULE MCPredecessors ----
(***************************************************************************)
(* Predecessors on the programs that come with them for small numbers n,   *)
(* on the branches no example uses, and on generated files: four lines of  *)
(* a pool in @main, two in a function @f that @main calls, and files that  *)
(* fill the tables of labels, references and functions.                    *)
(***************************************************************************)
EXTENDS Predecessors

Fib[n \in Nat] == IF n < 2 THEN n ELSE Fib[n - 1] + Fib[n - 2]
Factorial[n \in Nat] == IF n < 2 THEN 1 ELSE n * Factorial[n - 1]
Proto2Number(n) == V!Fit(n)

Goal(g) == goal = g
Proto1Demos == \E n \in 0 .. 6 :
  \/ Proto1Demo(Load42) /\ Goal(To(Number(42)))
  \/ Proto1Demo(LoadSum(n)) /\ Goal(To(Number((n * (n + 1)) \div 2)))
  \/ Proto1Demo(LoadFib(n)) /\ Goal(To(Number(Fib[n])))
  \/ Proto1Demo(LoadRFib(n)) /\ Goal([To(Number(Fib[n])) EXCEPT !.register = IF n < 2 THEN 0 ELSE 1])

\* Instructions no demonstration has, and registers and constants that are not there.
Proto1Others == \E code \in
    {<<Instruction("LOADNULL", 0, 2, 0), Instruction("ADD", 0, 1, K(0)), Instruction("SUB", 1, K(1), K(0))>>,
     <<Instruction("LOADNULL", 0, 3, 0)>>, <<Instruction("MOVE", 0, 2, 0)>>, <<Instruction("LOADK", 0, 4, 0)>>,
     <<Instruction("ADD", 0, K(0), K(2))>>, <<Instruction("SUB", 0, K(2), K(2))>>, <<Instruction("JMP", 0, -1, 0)>>} :
  /\ Proto1Demo([Listing(<<1, 2>>, code, 2, 2) EXCEPT !.constants = Append(@, V!make_string(<<"a">>))])
  /\ Goal(Unknown)

Countdown(n) == Function(<<INS_ABC("LOADK", 0, n, 0), INS_ABC("LOADK", 1, 1, 0), INS_ABC("LOADK", 2, 0, 0),
  INS_ABC("IFLT", 2, 0, 1), INS_ABC("RETURN", 0, 0, 0), INS_ABC("SUB", 0, 0, 1),
  INS_ABC("JMP", 0, 0, ByteSize - 4)>>)
TinyDemos == \E n \in 0 .. 6 :
  \/ HandBuiltTiny([entry |-> TinyMain(n), funcs |-> <<TinyFib>>]) /\ Goal(To(Fib[n]))
  \/ HandBuiltTiny([entry |-> Countdown(n), funcs |-> <<>>]) /\ Goal(To(0))
TinyOthers == \E entry \in {TinyMain(1), Function(<<INS_ABC("LOADK", 0, 15, 0), INS_ABC("ADD", 0, 0, 0),
                                                    INS_ABC("JMP", 0, 0, ByteSize - 2)>>)} :
  HandBuiltTiny([entry |-> entry, funcs |-> <<>>]) /\ Goal(Unknown)

BranchDemo(op, x, y) == Function(<<INS_AB("LOADK", 1, x), INS_AB("LOADK", 2, y), INS_AB("LOADK", 0, 1),
  INS_ABC(op, 1, 2, 1), INS_AB("LOADK", 0, 0), INS("RETURN")>>)
Meaning(op, x, y) == CASE op = "IFLT" -> x < y [] op = "IFEQ" -> x = y [] op = "IFNE" -> x # y
                       [] op = "IFLE" -> FALSE   \* never taken, see Taken
HandDemos ==
  \/ \E n \in 0 .. 6 : HandBuilt([entry |-> Proto2Main(n), funcs |-> <<Proto2Fib>>]) /\ Goal(To(make_int(Fib[n])))
  \/ \E op \in {"IFLT", "IFEQ", "IFLE", "IFNE"}, x \in -1 .. 1, y \in -1 .. 1 :
       /\ HandBuilt([entry |-> BranchDemo(op, x, y), funcs |-> <<>>])
       /\ Goal(To(make_int(IF Meaning(op, x, y) THEN 1 ELSE 0)))

Examples == \E n \in 0 .. 6 :
  \/ Assembly(simple) /\ Goal(To(make_int(8)))
  \/ Assembly(countdown(n)) /\ Goal(To(make_int(-1)))
  \/ Assembly(factorial(n)) /\ Goal(To(Proto2Number(Factorial[n])))
  \/ Assembly(recur_fib(n)) /\ Goal(To(make_int(Fib[n])))
  \/ Assembly(iter_fib(n)) /\ Goal(To(make_int(Fib[n])))

One == V!make_double(1, 1)
Large == 600               \* beyond 16 bits
Wide32 == 2 * (MaxInt + 1) \* beyond 32 bits
Pool == {L3("LOAD", Reg(0), Imm(3)), L3("LOAD", Reg(1), Literal(One)), L3("LOADN", Reg(1), Imm(1)),
  L3("LOAD", Reg(0), Imm(Large)), L3("LOAD", Reg(1), Imm(Wide32 + 5)), L3("LOAD", Reg(2), Literal(Null)), L3("LOAD", Reg(2), Literal(V!make_string(<<"a">>))),
  L4("ADD", Reg(2), Reg(0), Reg(1)), L4("DIV", Reg(1), Reg(0), Reg(1)), L4("SUB", Reg(2), Reg(1), Reg(2)),
  At("a", <<>>), At("b", <<Verb("MOVE"), Reg(0), Reg(1)>>), JumpTo("a"), JumpTo("b"),
  L4("IFLT", Reg(0), Reg(1), Name("b")), L4("IFLT", Reg(1), Reg(0), Imm(-2)), Line(<<Verb("JMP"), Imm(1)>>),
  L4("CALLF", Reg(1), Imm(1), Imm(0)), Back}
Generated ==
  \/ \E x, y, z \in Pool : Assembly(<<Fn("main"), x, y, z, Back>>)
  \/ \E x, y, z \in Pool : Assembly(<<Fn("main"), x, L4("CALLF", Reg(1), Imm(1), Imm(0)), Back, Fn("f"), y, z, Back>>)

Bad == {L3("LOADK", Reg(0), Imm(Large)), L3("MOVE", Reg(ByteSize), Reg(0)), Line(<<Verb("JMP")>>), Line(<<Verb("NOOP")>>),
  L4("IFLT", Reg(0), Reg(1), Imm(20)), L4("CALLF", Reg(0), Imm(-1), Imm(0)), L3("LOAD", Reg(0), Name("a")),
  Line(<<Verb("ADD"), Reg(0), Reg(1), Reg(0), Reg(5)>>)}
\* Numbers 32 bits do not hold, or 64 bits: refused, or taken for their low half.
Long == {L3(op, Reg(0), Imm(n)) : op \in {"LOADK", "LOAD", "LOADN"},
           n \in {MaxInt, MaxInt + 1, Wide32 + 5, Wide32 + Large, -Wide32 - 1, LongMax + 1, -LongMax - 2}}
        \union {L3("LOADK", Reg(Wide32 + 1), Imm(2)), Line(<<Verb("JMP"), Imm(Wide32)>>),
                L4("IFLT", Reg(0), Reg(1), Imm(Wide32 - 1)), L4("CALLF", Reg(1), Imm(Wide32), Imm(-Wide32))}
Repeated(n, l) == [k \in 1 .. n |-> l]
Limits ==
  \/ \E x \in Bad \union Pool : Assembly(<<x, Fn("main"), Back>>)
  \/ \E x \in Bad \union Long : Assembly(<<Fn("main"), x, Back>>)
  \/ \E k \in 1 .. 5 : Assembly(<<Fn("main")>> \o [j \in 1 .. k |-> At(<<"a", "b", "c", "d", "e">>[j], <<>>)] \o <<Back>>)
  \/ \E k \in 3 .. 5 : Assembly(<<Fn("main"), L3("LOADK", Reg(1), Imm(1))>>
                                 \o Repeated(k, L4("IFLT", Reg(0), Reg(1), Name("a"))) \o <<At("a", <<>>), Back>>)
  \/ \E k \in 3 .. 5 : Assembly(Repeated(k, Fn("f")) \o <<Fn("main"), Back, Fn("main"), At("a", <<Verb("JMP"), Name("a")>>)>>)
  \/ \E k \in {15, 16} : Assembly(<<Fn("main"), L4("IFLT", Reg(0), Reg(1), Name("a"))>>
                                   \o Repeated(k, L3("LOADK", Reg(0), Imm(1))) \o <<At("a", <<>>), Back>>)
  \/ \E k \in {Half, Half + 1} : Assembly(<<Fn("main"), Back>> \o [i \in 1 .. k |-> L3("LOADN", Reg(0), Imm(i))])
  \/ Assembly(<<Fn("f"), Back>>) \/ Assembly(<<>>)

MCInit == \/ Proto1Demos \/ Proto1Others \/ TinyDemos \/ TinyOthers \/ HandDemos \/ Examples
          \/ Goal(Unknown) /\ (Generated \/ Limits)
MCSpec == MCInit /\ [][Next]_allVars
====
