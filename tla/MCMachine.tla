---- MODULE MCMachine ----
(***************************************************************************)
(* Machine on small programs: two lines of a pool between a fixed          *)
(* beginning and a fixed end of @main, and a function @f that returns or   *)
(* calls itself, once or for ever; one line of the pool behind a function  *)
(* @g with every other instruction; one malformed line of each kind; and   *)
(* lines and programs that are read as something else than was written.    *)
(***************************************************************************)
EXTENDS Machine

MCCharOrder(c) == CASE c = "a" -> 1 [] c = "b" -> 2 [] OTHER -> 0

r0 == Reg(0)
r1 == Reg(1)
r2 == Reg(2)
lab == Ident("lab")
Callf == Instr("CALLF", <<Num(1), Ident("@f")>>)

Pool ==
  {Instr("NOOP", <<>>), Instr("RETURN", <<>>),
   Instr("LOAD", <<r0, Text("b")>>), Instr("LOAD", <<r1, Num(100)>>),
   Instr("LOAD", <<r2, r1>>), Instr("LOAD", <<r0, Decimal("", 1, 5, 10)>>),
   Instr("LOAD", <<r0, Num(-3)>>),
   Instr("MULT", <<r2, r0, r1>>), Instr("DIV", <<r0, r1, r2>>), Instr("MOD", <<r2, r0, r1>>),
   Instr("LT", <<r2, r1, r0>>), Instr("LE", <<r2, Num(2), r0>>), Instr("EQ", <<r2, r0, Num(2)>>),
   Instr("NE", <<r0, r0, r0>>), Instr("LT", <<r0, r1, Num(3)>>),
   Instr("JUMP", <<lab>>), Instr("JUMP", <<Num(-2)>>), Instr("JUMP", <<Num(-5)>>), Instr("JUMP", <<Num(3)>>),
   Instr("BRTRUE", <<r2, lab>>), Instr("BRFALSE", <<r2, Num(-2)>>),
   Instr("BRLT", <<r1, r0, lab>>), Instr("BRLE", <<Num(-4), r1, Num(1)>>),
   Instr("BREQ", <<r0, Num(2), Num(-3)>>), Instr("BRNE", <<r0, r1, lab>>),
   Instr("IFLT", <<r0, r1>>), Instr("IFLE", <<Num(20), r1>>), Instr("IFEQ", <<r0, Num(-3)>>),
   Instr("IFNE", <<r0, r2>>),
   Callf, Instr("CALLF", <<Num(0), Ident("@main")>>),
   Instr("CALLFN", <<Num(1), Text("val")>>), Instr("CALLFN", <<Num(0), Text("print")>>),
   Instr("INDEX", <<r2, r0, r1>>), Instr("IDXSET", <<r0, r1, r2>>), Instr("ARG", <<r0>>)}

\* Lines the assembler refuses: each in place of one line of the pool.
Malformed ==
  {Instr("HOP", <<>>), Instr("LOAD", <<r0>>), Instr("LOAD", <<Num(1), r0>>),
   Instr("LOAD", <<r0, Num(4000)>>), Instr("LOAD", <<r0, Ident("abc")>>),
   Instr("ADD", <<r0, r1>>), Instr("ADD", <<r0, r1, Num(1)>>),
   Instr("LT", <<r0, Num(1), Num(2)>>), Instr("LE", <<r0, r1, Num(-1)>>),
   Instr("EQ", <<r0, Num(1), r2>>), Instr("JUMP", <<Ident("nowhere")>>),
   Instr("JUMP", <<Num(600)>>), Instr("BRTRUE", <<r0, Num(32)>>),
   Instr("BRLT", <<r0, r1, Num(4)>>), Instr("BREQ", <<Num(1), r1, lab>>),
   Instr("BRLE", <<Num(1), Num(2), lab>>), Instr("IFLT", <<Num(1), Num(2)>>),
   Instr("IFNE", <<Num(1), r0>>), Instr("CALLF", <<Num(1), Ident("@h")>>),
   Instr("CALLFN", <<Num(1), Num(2)>>), Instr("NAME", <<r0, Num(1)>>),
   Instr("LOADV", <<r0, r1, Num(1)>>), Instr("ARGBLK", <<Num(-1)>>), Instr("ARG", <<Num(600)>>),
   Instr("LIST", <<r0, Num(40)>>)}

Begin == <<Line, Instr("LOAD", <<r0, Num(2)>>), Line, Instr("LOAD", <<r1, Num(-1)>>)>>
End == <<Labelled("lab", Instr("SUB", <<r0, r0, r1>>)), Instr("RETURN", <<>>)>>

Returns == <<Instr("ADD", <<r0, r1, r1>>), Instr("RETURN", <<>>)>>
Recurs == {<<Instr("CALLF", <<Num(2), Ident("@f")>>)>>,
           <<Instr("IFEQ", <<r0, Num(-1)>>), Callf, Instr("RETURN", <<>>)>>}
G == <<FunctionLine("@g"),
       Instr("LOADV", <<Reg(5), r1, Text("a")>>), Instr("LOADC", <<Reg(6), r1, Text("b")>>),
       Instr("ASSIGN", <<r1, r2, Text("a")>>), Instr("NAME", <<r2, Text("b")>>),
       Labelled("lab", Line),
       Instr("FUNCREF", <<r1, Ident("@f")>>), Instr("LIST", <<r1, Num(3)>>),
       Instr("MAP", <<r1, Num(30)>>), Instr("PUSH", <<r1, r2>>), Instr("LOCALS", <<Reg(7)>>),
       Instr("OUTER", <<r1>>), Instr("GLOBALS", <<r1>>), Instr("CALL", <<r1, r2, Reg(3)>>),
       Instr("ARGBLK", <<Num(100)>>), Instr("ARG", <<Num(70)>>), Instr("JUMP", <<lab>>),
       Instr("BRFALSE", <<Reg(6), Num(20)>>), Instr("IFLE", <<Num(9), Reg(4)>>),
       Instr("LE", <<r1, r2, Reg(3)>>), Instr("BRLT", <<Num(3), Reg(4), Num(2)>>)>>

\* Lines that are assembled, but not as they are written; and fractions and a constant
\* that are, and that are refused.
Odd ==
  {Instr("LOAD", <<Reg(9), r0>>), Instr("LOAD", <<r0, ConstRef(0)>>),
   Instr("LT", <<r2, r1, Num(6)>>), Instr("BRLT", <<Num(6), r1, lab>>), Instr("BRLE", <<r1, Num(-5), lab>>),
   Instr("CALLF", <<Num(9), Ident("@f")>>), Instr("CALLF", <<Num(-1), Ident("@f")>>),
   Instr("CALLFN", <<Num(10), Text("val")>>), Instr("CALLFN", <<Num(4), Text("print")>>),
   Instr("JUMP", <<Num(300)>>), Instr("ARG", <<Num(300)>>), Instr("ARG", <<Reg(8)>>),
   Instr("RETURN", <<r0>>), Instr(".param", <<Text("a")>>), Instr(".param", <<Text("a"), Num(3000)>>),
   Instr("LOAD", <<r0, Decimal("-", 2, 3, 10)>>), Instr("LOAD", <<r0, Decimal("-", 0, 5, 10)>>),
   Instr("LOAD", <<r0, Decimal("", 3, 25, 100)>>), Instr("LOAD", <<r0, Decimal("", 32, 5, 10)>>),
   Instr("LOAD", <<r0, Decimal("-", 32, 5, 10)>>), Instr("LOAD", <<r0, Decimal("", 0, 32, 100)>>),
   Instr("LOAD", <<r0, Num(-2048)>>), Instr("LOAD", <<r0, Num(2048)>>)}

\* The same of instructions that are not run here.
OddUnrun ==
  {Instr("ARGBLK", <<Num(300)>>), Instr("FUNCREF", <<r1, Ident("@h")>>),
   Instr("FUNCREF", <<r1, Ident("@main")>>), Instr("CALL", <<Reg(4), r2, r1>>)}

\* A function with no lines of its own, @main in two parts, and more constants than a
\* byte numbers before a name.
Numbered(n) ==
  <<Instr("RETURN", <<>>)>> \o [k \in 1 .. n |-> Instr("LOAD", <<r0, Num(100 + k)>>)]
    \o <<Instr("LOADV", <<r0, r1, Text("a")>>)>>
Odder ==
  {Begin \o End \o <<FunctionLine("@f"), FunctionLine("@g")>> \o Returns,
   <<Line, FunctionLine("@f")>> \o Returns,
   Begin \o <<FunctionLine("@main")>> \o End \o <<FunctionLine("@f")>> \o Returns,
   Numbered(8), Numbered(7), Numbered(6)}

MCSources ==
  {Begin \o <<x, y>> \o End \o <<FunctionLine("@f")>> \o Returns : x \in Pool, y \in Pool}
  \union {Begin \o p \o End \o <<FunctionLine("@f")>> \o f :
            p \in {<<x, Callf>> : x \in Pool} \union {<<Callf, y>> : y \in Pool}, f \in Recurs}
  \union {<<FunctionLine("@f"), Instr("RETURN", <<>>)>> \o G \o
            <<FunctionLine("@main")>> \o Begin \o <<x>> \o End : x \in Pool \union Malformed \union Odd}
  \union {Begin \o <<x>> \o End \o <<FunctionLine("@f")>> \o Returns : x \in Odd}
  \union {Begin \o End \o <<x>> : x \in OddUnrun}
  \union Odder
  \union {End \o <<FunctionLine("@f")>> \o End \o <<FunctionLine("@f")>> \o End}
====
