---- MODULE Syntax ----
(***************************************************************************)
(* The tokens and the tree of the parser prototype (MS2Proto5/cs/Lexer.cs, *)
(* Token.cs, ast.cs), and the simplification of the tree.  Texts are       *)
(* sequences of characters.  A node has a kind, a name (of a variable, a   *)
(* function or an operation), the nodes below it, and a number.  Numbers   *)
(* are left symbolic: a folded one is the operation and the numbers it was *)
(* made from, in prefix order.                                             *)
(***************************************************************************)
EXTENDS Integers, Sequences, FiniteSetsExt, SequencesExt, TLC

(***************************************************************************)
(* Tokens.                                                                 *)
(***************************************************************************)
Blank == {" "}                                      \* c <= ' '
NumberChars == {"0", "1", "2", "."}                 \* the digits used, and the point

\* operatorChars, and the types MakeToken gives them.
Operators ==
  ("+" :> "PLUS") @@ ("-" :> "MINUS") @@ ("*" :> "STAR") @@ ("/" :> "SLASH") @@ ("%" :> "PERCENT")
  @@ ("^" :> "CARET") @@ ("!" :> "BANG") @@ ("(" :> "LPAREN") @@ (")" :> "RPAREN") @@ ("=" :> "ASSIGN")

Token(type, text) == [type |-> type, text |-> text]
MakeToken(text, state) ==
  IF state = "OPERATOR" THEN Token(Operators[text[1]], <<>>) ELSE Token(state, text)

StateFor(c) ==
  CASE c \in NumberChars -> "NUMBER"
    [] c \in DOMAIN Operators -> "OPERATOR"
    [] OTHER -> "IDENTIFIER"

\* A character goes on with the token that has been begun.
GoesOn_AnyKind(c, state) == state # "START"
GoesOn(c, state) == StateFor(c) = state

\* The tokens of the rest of the text, after the characters of a token so far.
RECURSIVE Scan(_, _, _)
Scan(rest, state, token) ==
  LET done == IF token = <<>> THEN <<>> ELSE <<MakeToken(token, state)>>
      c    == Head(rest)
  IN  CASE rest = <<>> -> done
        [] rest # <<>> /\ c \in Blank -> done \o Scan(Tail(rest), "START", <<>>)
        [] rest # <<>> /\ c \in DOMAIN Operators ->
             done \o <<MakeToken(<<c>>, "OPERATOR")>> \o Scan(Tail(rest), "START", <<>>)
        [] OTHER ->
             IF GoesOn(c, state) THEN Scan(Tail(rest), state, Append(token, c))
             ELSE done \o Scan(Tail(rest), StateFor(c), <<c>>)

Lex(text) == Scan(text, "START", <<>>)

(***************************************************************************)
(* The tree.                                                               *)
(***************************************************************************)
Node(kind, name, args, value) == [kind |-> kind, name |-> name, args |-> args, value |-> value]
NumberNode(value) == Node("Number", <<>>, <<>>, value)
IdentifierNode(name) == Node("Identifier", name, <<>>, <<>>)
AssignmentNode(name, value) == Node("Assignment", name, <<value>>, <<>>)
UnaryOpNode(op, operand) == Node("UnaryOp", <<op>>, <<operand>>, <<>>)
BinaryOpNode(op, left, right) == Node("BinaryOp", <<op>>, <<left, right>>, <<>>)
CallNode(name, args) == Node("Call", name, args, <<>>)
GroupNode(expression) == Node("Group", <<>>, <<expression>>, <<>>)

IsNumber(node) == node.kind = "Number"
IsOperation(node) == node.kind \in {"UnaryOp", "BinaryOp"}

\* An operation is computed when all it needs are numbers.
AllNumbers(args) == \A i \in DOMAIN args : IsNumber(args[i])

RECURSIVE Simplify(_)
Simplify(node) ==
  LET args == [i \in DOMAIN node.args |-> Simplify(node.args[i])]
  IN  CASE node.kind = "Group" -> args[1]
        [] IsOperation(node) /\ AllNumbers(args) ->
             NumberNode(node.name \o FlattenSeq([i \in DOMAIN args |-> args[i].value]))
        [] OTHER -> [node EXCEPT !.args = args]

\* What an operation on numbers computes is left symbolic, but for a factorial of a whole number.
FoldedFactorial(n) == FoldLeft(LAMBDA result, i : result * i, 1, [i \in 1 .. n |-> i])
====
