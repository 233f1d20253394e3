---- MODULE Evaluators ----
(***************************************************************************)
(* The parsers that compute while they parse: MS2Proto4/cs (EvalOpSet,     *)
(* OpSet, Parselet, Parser), which has the lexer of Syntax, and eval.ms,   *)
(* the MiniScript program it was ported from, with a lexer of its own.     *)
(* A value is symbolic, as a folded number of Syntax is.  A parse gives    *)
(* the value, the tokens left, and the variables after it.                 *)
(***************************************************************************)
EXTENDS Syntax

CONSTANT Functions    \* names of the functions there are: cos, floor, ceil, round

Computed(value, rest, vars) == [value |-> value, rest |-> rest, vars |-> vars]
Starts(rest, type) == rest # <<>> /\ Head(rest).type = type

\* A number's text is a number to Double.Parse and TryParse.
IsDouble(text) ==
  /\ Cardinality({i \in DOMAIN text : text[i] = "."}) <= 1
  /\ \E i \in DOMAIN text : text[i] # "."

(***************************************************************************)
(* EvalOpSet.                                                              *)
(***************************************************************************)
Nought == <<"0">>
numVal(text) == IF IsDouble(text) THEN text ELSE Nought
getVar(vars, id) == IF id \in DOMAIN vars THEN vars[id] ELSE Nought
setVar(vars, id, val) == (id :> val) @@ vars
call(id, arg) == IF id \in Functions THEN <<"Call">> \o id \o arg ELSE Nought
factorial[x \in Int] == IF x > 1 THEN x * factorial[x - 1] ELSE x

\* The infix operations: the precedence, and what is taken off it for the operand.
Operation(name, precedence, rightAssoc) == [name |-> name, precedence |-> precedence, rightAssoc |-> rightAssoc]
Binary ==
  ("PLUS" :> Operation("PLUS", 3, 0)) @@ ("MINUS" :> Operation("MINUS", 3, 0))
  @@ ("STAR" :> Operation("TIMES", 4, 0)) @@ ("SLASH" :> Operation("DIVIDE", 4, 0))
  @@ ("PERCENT" :> Operation("MOD", 4, 0)) @@ ("CARET" :> Operation("POWER", 5, 1))
  @@ ("BANG" :> Operation("FACTORIAL", 6, 0))
Binds(type) == IF type \in DOMAIN Binary THEN Binary[type].precedence ELSE -1
Sign == 7

(***************************************************************************)
(* Parselets.  A closing parenthesis that is missing makes the value 0.    *)
(***************************************************************************)
Closing(p, value) ==
  IF Starts(p.rest, "RPAREN") THEN Computed(value, Tail(p.rest), p.vars) ELSE Computed(Nought, p.rest, p.vars)
Form(token, rest) ==
  CASE token.type = "IDENTIFIER" /\ Starts(rest, "ASSIGN") -> "assignment"
    [] token.type = "IDENTIFIER" /\ Starts(rest, "LPAREN") -> "call"
    [] OTHER -> token.type

RECURSIVE Evaluate(_, _, _), EvaluateOn(_, _)
FromPrefix(token, rest, vars) ==
  LET form   == Form(token, rest)
      within == IF form \in {"assignment", "call"} THEN Tail(rest) ELSE rest
      p      == Evaluate(within, IF form = "MINUS" THEN Sign ELSE 0, vars)
      arg    == IF within = <<>> \/ Starts(within, "RPAREN") THEN Computed(Nought, within, vars) ELSE p
  IN  CASE form = "NUMBER" -> Computed(numVal(token.text), rest, vars)
        [] form = "IDENTIFIER" -> Computed(getVar(vars, token.text), rest, vars)
        [] form = "MINUS" -> [p EXCEPT !.value = <<"MINUS">> \o @]
        [] form = "LPAREN" -> Closing(p, p.value)
        [] form = "assignment" -> [p EXCEPT !.vars = setVar(@, token.text, p.value)]
        [] form = "call" -> Closing(arg, call(token.text, arg.value))

\* The operand behind a binary operator; none behind a factorial.
OperandLevel_Left(type) == Binary[type].precedence
OperandLevel(type) == Binary[type].precedence - Binary[type].rightAssoc
FromInfix(p, type, rest) ==
  LET right == Evaluate(rest, OperandLevel(type), p.vars)
  IN  IF type = "BANG" THEN Computed(<<"FACTORIAL">> \o p.value, rest, p.vars)
      ELSE [right EXCEPT !.value = <<Binary[type].name>> \o p.value \o @]

EvaluateOn(p, precedence) ==
  IF p.rest # <<>> /\ Binds(Head(p.rest).type) > precedence
  THEN EvaluateOn(FromInfix(p, Head(p.rest).type, Tail(p.rest)), precedence)
  ELSE p
Evaluate(list, precedence, vars) ==
  IF list # <<>> /\ Head(list).type \in {"NUMBER", "IDENTIFIER", "MINUS", "LPAREN"}
  THEN EvaluateOn(FromPrefix(Head(list), Tail(list), vars), precedence)
  ELSE Computed(Nought, list, vars)

(***************************************************************************)
(* eval.ms: tokens are texts.  '!' is no operator to its lexer, but a      *)
(* character of names; null stands for a value there is not.               *)
(***************************************************************************)
OperatorChars == DOMAIN Operators \ {"!"}
lexState(c) == IF c \in NumberChars THEN "NUMBER" ELSE IF c \in OperatorChars THEN "OPERATOR" ELSE "IDENTIFIER"
RECURSIVE lexFrom(_, _, _)
lexFrom(rest, state, token) ==
  LET c       == Head(rest)
      goesOn  == lexState(c) = state /\ state # "OPERATOR"
      done    == IF token = <<>> THEN <<>> ELSE <<token>>
  IN  IF rest = <<>> THEN done
      ELSE IF c \notin Blank /\ goesOn THEN lexFrom(Tail(rest), state, Append(token, c))
      ELSE IF c \in Blank THEN done \o lexFrom(Tail(rest), "START", <<>>)
      ELSE done \o lexFrom(Tail(rest), lexState(c), <<c>>)
lex(text) == lexFrom(text, "START", <<>>)

null == <<"null">>
isNumber(s) == s[1] \in NumberChars \ {"."}
isIdentifier(s) == lexState(s[1]) = "IDENTIFIER" /\ s[1] # "!"
opGetVar(vars, id) == IF id \in DOMAIN vars THEN vars[id] ELSE null
\* The message about an unknown function names a variable there is not: the script stops.
opCall(vars, id, arg) == IF id \in Functions \cup DOMAIN vars THEN <<"Call">> \o id \o arg ELSE <<"stopped">>

tokenEffects ==
  (<<"-">> :> Operation("MINUS", 3, 0)) @@ (<<"+">> :> Operation("PLUS", 3, 0)) @@ (<<"*">> :> Operation("TIMES", 4, 0))
  @@ (<<"/">> :> Operation("DIVIDE", 4, 0)) @@ (<<"%">> :> Operation("MOD", 4, 0))
  @@ (<<"^">> :> Operation("POWER", 5, 1)) @@ (<<"!">> :> Operation("FACTORIAL", 6, 0))
infixPrecedence(token) == IF token \in DOMAIN tokenEffects THEN tokenEffects[token].precedence ELSE -1

Before(rest, text) == rest # <<>> /\ Head(rest) = text
closeParen(p, value) ==
  IF Before(p.rest, <<")">>) THEN Computed(value, Tail(p.rest), p.vars) ELSE Computed(null, p.rest, p.vars)
\* A token that is neither parsed as a number or name nor "-" or "(" starts nothing.
parseForm(token, rest) ==
  CASE isNumber(token) -> "Number"
    [] ~isNumber(token) /\ isIdentifier(token) ->
         IF Before(rest, <<"=">>) THEN "assignment" ELSE IF Before(rest, <<"(">>) THEN "call" ELSE "Identifier"
    [] token = <<"-">> -> "UnaryOp"
    [] token = <<"(">> -> "Group"
    [] OTHER -> "none"

RECURSIVE evalTokens(_, _, _), evalOn(_, _)
\* What is assigned is not returned.
fromPrefix(token, rest, vars) ==
  LET form   == parseForm(token, rest)
      within == IF form \in {"assignment", "call"} THEN Tail(rest) ELSE rest
      p      == evalTokens(within, IF form = "UnaryOp" THEN Sign ELSE 0, vars)
      arg    == IF within = <<>> \/ Before(within, <<")">>) THEN Computed(null, within, vars) ELSE p
  IN  CASE form = "Number" -> Computed(token, rest, vars)
        [] form = "Identifier" -> Computed(opGetVar(vars, token), rest, vars)
        [] form = "UnaryOp" -> [p EXCEPT !.value = <<"MINUS">> \o @]
        [] form = "Group" -> closeParen(p, p.value)
        [] form = "assignment" -> Computed(null, p.rest, (token :> p.value) @@ p.vars)
        [] form = "call" -> closeParen(arg, opCall(arg.vars, token, arg.value))

fromInfix(p, operator, rest) ==
  LET effect == tokenEffects[operator]
      right  == evalTokens(rest, effect.precedence - effect.rightAssoc, p.vars)
  IN  IF operator = <<"!">> THEN Computed(<<"FACTORIAL">> \o p.value, rest, p.vars)
      ELSE [right EXCEPT !.value = <<effect.name>> \o p.value \o @]
evalOn(p, precedence) ==
  IF p.rest # <<>> /\ infixPrecedence(Head(p.rest)) > precedence
  THEN evalOn(fromInfix(p, Head(p.rest), Tail(p.rest)), precedence)
  ELSE p
evalTokens(list, precedence, vars) ==
  IF list # <<>> /\ parseForm(Head(list), Tail(list)) # "none"
  THEN evalOn(fromPrefix(Head(list), Tail(list), vars), precedence)
  ELSE Computed(null, list, vars)

(***************************************************************************)
(* One line: its value, and the variables it leaves.                       *)
(***************************************************************************)
EvalLine(line, vars) == Evaluate(Lex(line), 0, vars)
eval(line, vars) == evalTokens(lex(line), 0, vars)
====
