----------------------------- MODULE MCVMFrames -----------------------------
(***************************************************************************)
(* Program families for VMFrames.  Each follows the layout of the programs *)
(* in MS2Proto3/examples: variables in the low registers, call windows     *)
(* above every register in use, the funcref below the window.              *)
(***************************************************************************)
EXTENDS VMFrames, TLC

x == "x"
y == "y"

I(op, a, b, c) == [op |-> op, a |-> a, b |-> b, c |-> c]

\* Calls of every kind and closures, nested and recursive.  @main names a
\* funcref x, calls it in each way the VM has, names what it got y, and maps
\* its own variables.  Functions 1 and 2 call each other or run out of code;
\* 1 and 3 have a parameter y (examples/closures.msa: @makeCounter).
\* Function 3, a maker, may reach the globals and hands out a closure over
\* its locals or the locals themselves; function 4, the closure, reads and
\* writes what it captured, as 5 does without having captured anything.  No
\* activation makes a call once its locals were captured, but for @main,
\* which never returns to a caller.
FramePrograms ==
  0 :> << {I("FUNCREF", 1, 0, f) : f \in {1, 2, 3, -1}},
          {I("NAME", 1, 0, x)},
          {I("CALL", 2, 4, 1), I("CALL", 0, 4, 1), I("LOADC", 0, 1, x), I("CALLF", 2, 1, 0),
           I("LOADV", 0, 1, y), I("ARGBLK", 1, 0, 0)},
          {I("ARG", 1, 0, 0), I("ARGK", 0, 0, 7), I("ASSIGN", 2, 0, y),
           I("NAME", 2, 0, y), I("LOCALS", 3, 0, 0)},
          {I("LOADC", 0, 2, y), I("CALL", 0, 4, 1), I("REMOVE", 3, 0, y),
           I("INDEX", 0, 2, x), I("CALLF", 3, 5, 0)},
          {I("LOADC", 0, 2, y), I("IDXSET", 2, 1, y)},
          {I("LOADV", 0, 1, x), I("RETURN", 0, 0, 0)},
          {I("RETURN", 0, 0, 0)} >>
  @@
  1 :> << {I("LOADK", 0, 0, 5), I("LOAD", 2, 1, 0), I("ASSIGN", 2, 1, x)},
          {I("LOADC", 0, 1, y), I("CALL", 0, 3, 1), I("CALLF", 2, 2, 0),
           I("LOADV", 0, 1, y)},
          {I("RETURN", 0, 0, 0)} >>
  @@
  2 :> << {I("LOADK", 0, 0, 6), I("NAME", 1, 0, y), I("LOADV", 1, 0, x)},
          {I("RETURN", 0, 0, 0), I("LOADV", 0, 1, y), I("CALLF", 2, 1, 0)},
          {I("RETURN", 0, 0, 0), I("LOADK", 0, 0, 6)} >>
  @@
  3 :> << {I("LOADK", 2, 0, 5), I("GLOBALS", 2, 0, 0), I("ASSIGN", 2, 1, x)},
          {I("NAME", 2, 0, x), I("IDXSET", 2, 1, x), I("IDXSET", 2, 1, y)},
          {I("FUNCREF", 0, 0, 4), I("LOCALS", 0, 0, 0)},
          {I("NAME", 0, 0, x), I("ASSIGN", 1, 1, y), I("REMOVE", 0, 0, x),
           I("RETURN", 0, 0, 0)},
          {I("RETURN", 0, 0, 0)} >>
  @@
  4 :> << {I("OUTER", 1, 0, 0), I("LOADK", 1, 0, 6)},
          {I("IDXSET", 1, 1, x), I("LOADV", 0, 0, y), I("REMOVE", 1, 0, x),
           I("INDEX", 0, 1, y)},
          {I("RETURN", 0, 0, 0)} >>
  @@
  5 :> << {I("LOADK", 1, 0, 7)},
          {I("IDXSET", 0, 1, x), I("IDXSET", 0, 1, y), I("REMOVE", 0, 0, y)},
          {I("RETURN", 0, 0, 0)} >>

FrameParams   == 0 :> <<>> @@ 1 :> <<y>> @@ 2 :> <<>> @@ 3 :> <<y>> @@ 4 :> <<>> @@ 5 :> <<>>
FrameDefaults == 0 :> <<>> @@ 1 :> <<Atom(9)>> @@ 2 :> <<>> @@ 3 :> <<Atom(9)>> @@ 4 :> <<>> @@ 5 :> <<>>

\* The family meets what the theorems of VMFrames_proof ask of a program.
ASSUME FamilyDisciplined ==
  Code = FramePrograms => WindowsAboveFuncRef /\ WindowsAboveRegisters /\ CapturesComeLast

-----------------------------------------------------------------------------
\* The maker calls a helper (function 3) between making its closure and
\* returning it.
HelperAfterCapture ==
  0 :> << {I("FUNCREF", 1, 0, 1)}, {I("CALL", 2, 4, 1)}, {I("RETURN", 0, 0, 0)} >>
  @@
  1 :> << {I("LOADK", 2, 0, 5)}, {I("NAME", 2, 0, x)}, {I("FUNCREF", 0, 0, 2)},
          {I("CALLF", 3, 3, 0)}, {I("RETURN", 0, 0, 0)} >>
  @@ 2 :> << {I("RETURN", 0, 0, 0)} >>
  @@ 3 :> << {I("RETURN", 0, 0, 0)} >>
HelperParams   == 0 :> <<>> @@ 1 :> <<y>> @@ 2 :> <<>> @@ 3 :> <<>>
HelperDefaults == 0 :> <<>> @@ 1 :> <<Atom(9)>> @@ 2 :> <<>> @@ 3 :> <<>>
=============================================================================
