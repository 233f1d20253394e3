---- MODULE Parser ----
(***************************************************************************)
(* The parser prototype (MS2Proto5/cs/Parser.cs, Parselet.cs, Program.cs): *)
(* a line is read, cut into tokens, parsed by precedence, and simplified;  *)
(* then the next.  Parse takes tokens away from the front of a list: what  *)
(* is left of it is part of its result, and so is whether an error was     *)
(* reported, which stops nothing.                                          *)
(***************************************************************************)
EXTENDS Evaluators

CONSTANT Lines        \* the lines that are entered

VARIABLES
  stage,        \* "prompt", "lexed", "parsed", "simplified"; "quit", "crashed"
  line, tokens, parsed, simplified

vars == <<stage, line, tokens, parsed, simplified>>

(***************************************************************************)
(* Precedence.                                                             *)
(***************************************************************************)
BelowAssignment == 0
Prefix == 7
Infix ==
  ("PLUS" :> [op |-> "PLUS", precedence |-> 3, rightAssoc |-> FALSE])
  @@ ("MINUS" :> [op |-> "MINUS", precedence |-> 3, rightAssoc |-> FALSE])
  @@ ("STAR" :> [op |-> "TIMES", precedence |-> 4, rightAssoc |-> FALSE])
  @@ ("SLASH" :> [op |-> "DIVIDE", precedence |-> 4, rightAssoc |-> FALSE])
  @@ ("CARET" :> [op |-> "POWER", precedence |-> 5, rightAssoc |-> TRUE])
  @@ ("BANG" :> [op |-> "FACTORIAL", precedence |-> 6, rightAssoc |-> FALSE])
InfixPrecedence(type) == IF type \in DOMAIN Infix THEN Infix[type].precedence ELSE -1

(***************************************************************************)
(* Parselets.                                                              *)
(***************************************************************************)
Parsed(node, rest, ok) == [node |-> node, rest |-> rest, ok |-> ok]
Zero == NumberNode(<<"0">>)
Closed_Unasked(p, node) ==
  Parsed(node, IF Starts(p.rest, "RPAREN") THEN Tail(p.rest) ELSE p.rest, p.ok)
\* The closing parenthesis is taken away, or missed: then the number 0 it is.
Closed(p, node) ==
  IF Starts(p.rest, "RPAREN") THEN Parsed(node, Tail(p.rest), p.ok) ELSE Parsed(Zero, p.rest, FALSE)

\* What the right operand of an operator has to bind more strongly than.
RightPrecedence_LeftAlways(type) == Infix[type].precedence
RightPrecedence(type) == Infix[type].precedence - (IF Infix[type].rightAssoc THEN 1 ELSE 0)

RECURSIVE Parse(_, _), Continue(_, _)

IdentifierParselet(name, rest) ==
  CASE Starts(rest, "ASSIGN") ->
         LET p == Parse(Tail(rest), BelowAssignment)
         IN  [p EXCEPT !.node = AssignmentNode(name, @)]
    [] Starts(rest, "LPAREN") ->
         LET inner == Tail(rest)
             p == Parse(inner, BelowAssignment)
         IN  IF inner = <<>> \/ Starts(inner, "RPAREN")
             THEN Closed(Parsed(Zero, inner, TRUE), CallNode(name, <<>>))
             ELSE Closed(p, CallNode(name, <<p.node>>))
    [] OTHER -> Parsed(IdentifierNode(name), rest, TRUE)

PrefixParselet(token, rest) ==
  CASE token.type = "NUMBER" -> Parsed(NumberNode(token.text), rest, TRUE)
    [] token.type = "IDENTIFIER" -> IdentifierParselet(token.text, rest)
    [] token.type = "MINUS" ->
         LET p == Parse(rest, Prefix) IN [p EXCEPT !.node = UnaryOpNode("MINUS", @)]
    [] token.type = "LPAREN" ->
         LET p == Parse(rest, BelowAssignment) IN Closed(p, GroupNode(p.node))

InfixParselet(type, left, rest, ok) ==
  LET op == Infix[type].op
      right == Parse(rest, RightPrecedence(type))
  IN  IF type = "BANG" THEN Parsed(UnaryOpNode(op, left), rest, ok)
      ELSE Parsed(BinaryOpNode(op, left, right.node), right.rest, ok /\ right.ok)

\* The loop of Parse.
Continue(p, precedence) ==
  IF p.rest # <<>> /\ InfixPrecedence(Head(p.rest).type) > precedence
  THEN Continue(InfixParselet(Head(p.rest).type, p.node, Tail(p.rest), p.ok), precedence)
  ELSE p

Parse(list, precedence) ==
  CASE list = <<>> -> Parsed(Zero, <<>>, TRUE)
    [] list # <<>> /\ Head(list).type \in {"NUMBER", "IDENTIFIER", "MINUS", "LPAREN"} ->
         Continue(PrefixParselet(Head(list), Tail(list)), precedence)
    [] OTHER -> Parsed(Zero, list, FALSE)

(***************************************************************************)
(* The program.                                                            *)
(***************************************************************************)
\* Double.Parse refuses the text of a number the lexer has let pass.
Taken == SubSeq(tokens, 1, Len(tokens) - Len(Parse(tokens, BelowAssignment).rest))

Nothing == Parsed(Zero, <<>>, TRUE)
Init == stage = "prompt" /\ line = <<>> /\ tokens = <<>> /\ parsed = Nothing /\ simplified = Zero

Enter ==
  /\ stage = "prompt" /\ stage' = "lexed"
  /\ \E text \in Lines : line' = text /\ tokens' = Lex(text)
  /\ UNCHANGED <<parsed, simplified>>

Quit == stage = "prompt" /\ stage' = "quit" /\ UNCHANGED <<line, tokens, parsed, simplified>>

ParseLine ==
  /\ stage = "lexed"
  /\ IF \E i \in DOMAIN Taken : Taken[i].type = "NUMBER" /\ ~IsDouble(Taken[i].text)
     THEN stage' = "crashed" /\ UNCHANGED parsed
     ELSE stage' = "parsed" /\ parsed' = Parse(tokens, BelowAssignment)
  /\ UNCHANGED <<line, tokens, simplified>>

SimplifyTree ==
  /\ stage = "parsed" /\ stage' = "simplified"
  /\ simplified' = Simplify(parsed.node)
  /\ UNCHANGED <<line, tokens, parsed>>

NextPrompt ==
  /\ stage = "simplified" /\ stage' = "prompt"
  /\ line' = <<>> /\ tokens' = <<>> /\ parsed' = Nothing /\ simplified' = Zero

Next == Enter \/ Quit \/ ParseLine \/ SimplifyTree \/ NextPrompt
Spec == Init /\ [][Next]_vars

(***************************************************************************)
(* Lexing.                                                                 *)
(***************************************************************************)
TextOf(token) ==
  IF token.text # <<>> THEN token.text
  ELSE <<CHOOSE c \in DOMAIN Operators : Operators[c] = token.type>>
Texts == [i \in DOMAIN tokens |-> TextOf(tokens[i])]
Alike(c, d) == c \notin Blank /\ StateFor(c) = StateFor(d) /\ StateFor(d) # "OPERATOR"

\* The tokens are the line without its blanks, cut before every operator, behind
\* it, at blanks, and between number and name; nowhere else.
CutWhereKindsChange ==
  stage # "prompt" =>
    /\ FlattenSeq(Texts) = SelectSeq(line, LAMBDA c : c \notin Blank)
    /\ \A i \in DOMAIN tokens : \A k \in DOMAIN tokens[i].text : StateFor(tokens[i].text[k]) = tokens[i].type
    /\ Len(tokens) =
         Cardinality({i \in DOMAIN line : line[i] \notin Blank /\ (i = 1 \/ ~Alike(line[i - 1], line[i]))})
    /\ "!" \notin ToSet(line) => lex(line) = Texts

(***************************************************************************)
(* The language.  Reading from left to right, what may come next depends   *)
(* on whether an operand is due, a name has just been read, or an operand  *)
(* is complete, and on how many parentheses are open.                      *)
(***************************************************************************)
RECURSIVE Reads(_, _, _)
Reads(list, at, depth) ==
  LET type == Head(list).type
      Then(next, d) == Reads(Tail(list), next, d)
  IN  CASE list = <<>> -> at \in {"name", "complete"} /\ depth = 0
        [] list # <<>> /\ at \in {"operand", "argument"} ->
             CASE type = "NUMBER" -> Then("complete", depth)
               [] type = "IDENTIFIER" -> Then("name", depth)
               [] type = "MINUS" -> Then("operand", depth)
               [] type = "LPAREN" -> Then("operand", depth + 1)
               [] type = "RPAREN" -> at = "argument" /\ Then("complete", depth - 1)
               [] OTHER -> FALSE
        [] OTHER ->
             CASE type = "ASSIGN" -> at = "name" /\ Then("operand", depth)
               [] type = "LPAREN" -> at = "name" /\ Then("argument", depth + 1)
               [] type \in {"PLUS", "MINUS", "STAR", "SLASH", "CARET"} -> Then("operand", depth)
               [] type = "BANG" -> Then("complete", depth)
               [] type = "RPAREN" -> depth > 0 /\ Then("complete", depth - 1)
               [] OTHER -> FALSE
Grammatical(list) == Reads(list, "operand", 0)
ZeroToken == Token("NUMBER", <<"0">>)

\* A line is parsed to its end without a complaint exactly if it is of the
\* language, or would be with a 0 behind it: a missing last operand is not missed.
AcceptsTheLanguage ==
  stage = "parsed" =>
    (parsed.ok /\ parsed.rest = <<>> <=> Grammatical(tokens) \/ Grammatical(Append(tokens, ZeroToken)))

(***************************************************************************)
(* The tree.                                                               *)
(***************************************************************************)
Opened == Token("LPAREN", <<>>)
ClosedBy == Token("RPAREN", <<>>)
TypeOf(op) == CHOOSE type \in DOMAIN Infix : Infix[type].op = op

RECURSIVE Yield(_)
Yield(node) ==
  LET args == [i \in DOMAIN node.args |-> Yield(node.args[i])]
      op   == Token(TypeOf(node.name[1]), <<>>)
  IN  CASE node.kind = "Number" -> <<Token("NUMBER", node.value)>>
        [] node.kind = "Identifier" -> <<Token("IDENTIFIER", node.name)>>
        [] node.kind = "Assignment" -> <<Token("IDENTIFIER", node.name), Token("ASSIGN", <<>>)>> \o args[1]
        [] node.kind = "Call" ->
             <<Token("IDENTIFIER", node.name), Opened>> \o FlattenSeq(args) \o <<ClosedBy>>
        [] node.kind = "Group" -> <<Opened>> \o args[1] \o <<ClosedBy>>
        [] node.kind = "BinaryOp" -> args[1] \o <<op>> \o args[2]
        [] node.kind = "UnaryOp" /\ node.name = <<"MINUS">> -> <<op>> \o args[1]
        [] node.kind = "UnaryOp" /\ node.name # <<"MINUS">> -> args[1] \o <<op>>

\* Without a complaint, the tree reads as the tokens taken: no operand is lost,
\* doubled or exchanged; and what is left does not begin with an operator.
ReadsAsWritten ==
  stage = "parsed" /\ parsed.ok =>
    /\ Yield(parsed.node) \o parsed.rest \in {tokens, Append(tokens, ZeroToken)}
    /\ parsed.rest # <<>> => Head(parsed.rest).type \notin DOMAIN Infix

\* An assignment takes all that follows; a node that ends in one is no left operand.
RECURSIVE EndsInAssignment(_)
EndsInAssignment(node) ==
  \/ node.kind = "Assignment"
  \/ (node.kind = "BinaryOp" \/ node.name = <<"MINUS">>) /\ EndsInAssignment(Last(node.args))
Level(node) ==
  CASE node.kind = "BinaryOp" -> Infix[TypeOf(node.name[1])].precedence
    [] node.kind = "UnaryOp" -> IF node.name = <<"MINUS">> THEN Prefix ELSE 6
    [] OTHER -> Prefix + 1

RECURSIVE WellBound(_)
WellBound(node) ==
  LET left == node.args[1]
      right == Last(node.args)
      own == Level(node)
      rightAssoc == Infix[TypeOf(node.name[1])].rightAssoc
  IN  /\ \A i \in DOMAIN node.args : WellBound(node.args[i])
      /\ node.kind = "BinaryOp" =>
           /\ ~EndsInAssignment(left)
           /\ IF rightAssoc THEN Level(left) > own /\ Level(right) >= own
              ELSE Level(left) >= own /\ Level(right) > own
      /\ node.kind = "UnaryOp" =>
           Level(left) >= own /\ (node.name # <<"MINUS">> => ~EndsInAssignment(left))

\* Stronger operators below weaker ones, chains to the left, powers to the right,
\* a sign before everything: with ReadsAsWritten, there is one such tree.
BindsByPrecedence == stage = "parsed" /\ parsed.ok => WellBound(parsed.node)

\* Without a complaint, the tree is the one that the line says.
TreeOfTheLine == ReadsAsWritten /\ BindsByPrecedence

(***************************************************************************)
(* Simplification.                                                         *)
(***************************************************************************)
\* What the tree computes, in prefix order.
RECURSIVE Meaning(_)
Meaning(node) ==
  LET args == FlattenSeq([i \in DOMAIN node.args |-> Meaning(node.args[i])])
  IN  CASE node.kind = "Number" -> node.value
        [] node.kind = "Group" -> args
        [] IsOperation(node) -> node.name \o args
        [] OTHER -> <<node.kind>> \o node.name \o args
RECURSIVE Foldable(_)
Foldable(node) ==
  \/ node.kind = "Group"
  \/ IsOperation(node) /\ \A i \in DOMAIN node.args : IsNumber(node.args[i])
  \/ \E i \in DOMAIN node.args : Foldable(node.args[i])

\* The simplified tree computes the same, and nothing is left to fold after one pass.
FoldedInFull ==
  stage = "simplified" =>
    Meaning(simplified) = Meaning(parsed.node) /\ ~Foldable(simplified)

(***************************************************************************)
(* Evaluation, with one variable there is, and any value in it.            *)
(***************************************************************************)
Store == <<"x">> :> <<"Identifier", "x">>

\* What a tree computes when it is walked from left to right.
RECURSIVE Walk(_, _)
Walk(node, store) ==
  LET below == FoldLeft(LAMBDA acc, n : LET w == Walk(n, acc.store)
                                        IN  [value |-> acc.value \o w.value, store |-> w.store],
                        [value |-> <<>>, store |-> store], node.args)
  IN  CASE node.kind = "Number" -> [value |-> node.value, store |-> store]
        [] node.kind = "Identifier" -> [value |-> getVar(store, node.name), store |-> store]
        [] node.kind = "Assignment" -> [below EXCEPT !.store = setVar(@, node.name, below.value)]
        [] node.kind = "Call" -> [below EXCEPT !.value = call(node.name, IF node.args = <<>> THEN Nought ELSE @)]
        [] node.kind = "Group" -> below
        [] OTHER -> [below EXCEPT !.value = node.name \o @]

Has(type) == \E i \in DOMAIN tokens : tokens[i].type = type
\* Without a complaint and without '%', which the tree has no node for.
WalkedWhenEvaluated ==
  stage = "parsed" /\ parsed.ok /\ ~Has("PERCENT") =>
    LET w == Walk(parsed.node, Store)
    IN  EvalLine(line, Store) = Computed(w.value, parsed.rest, w.store)

\* The line is one for the original: cut the same, grammatical, its numbers begin with
\* a digit, its functions are called, with an argument, and its variable is there;
\* an assignment is all of it.
Called(i) == i < Len(tokens) /\ tokens[i + 1].type = "LPAREN"
Ordinary ==
  /\ lex(line) = Texts
  /\ Grammatical([i \in DOMAIN tokens |-> IF tokens[i].type = "PERCENT" THEN Token("STAR", <<>>) ELSE tokens[i]])
  /\ \A i \in DOMAIN tokens :
       CASE tokens[i].type = "NUMBER" -> IsDouble(tokens[i].text) /\ isNumber(tokens[i].text)
         [] tokens[i].type = "IDENTIFIER" ->
              IF Called(i) THEN tokens[i].text \in Functions /\ tokens[i + 2].type # "RPAREN"
              ELSE tokens[i].text \in DOMAIN Store
         [] OTHER -> tokens[i].type = "ASSIGN" => i = 2
EvaluatesAsTheOriginal ==
  stage = "lexed" /\ Ordinary =>
    LET ported == EvalLine(line, Store)
        original == eval(line, Store)
    IN  /\ ported.rest = <<>> /\ original.rest = <<>> /\ original.vars = ported.vars
        /\ original.value = IF Has("ASSIGN") THEN null ELSE ported.value

\* The factorial of 0 and of what is below it is 1 in the tree, the number itself before.
FactorialsAgree == \A n \in 1 .. 12 : FoldedFactorial(n) = factorial[n]

\* The three parsers compute the same: by folding the tree, by evaluating while
\* parsing, and by the script the evaluator was ported from.
ComputedAlike == FoldedInFull /\ WalkedWhenEvaluated /\ EvaluatesAsTheOriginal /\ FactorialsAgree
====
