---- MODULE MCParser ----
(***************************************************************************)
(* Parser with short lines over all kinds of characters, and longer ones   *)
(* over operators, over parentheses and names, and over both.              *)
(***************************************************************************)
EXTENDS Parser

TextsUpTo(n, chars) == UNION {[1 .. k -> chars] : k \in 0 .. n}

MCFunctions == {<<"x", "x">>}                    \* a name of its own, over the same character
MCLines ==
  TextsUpTo(5, {"1", ".", "x", " ", "+", "-", "*", "^", "!", "(", ")", "=", "%"})
  \union [1 .. 6 -> {"x", "-", "+", "^", "!"}]
  \union [1 .. 6 -> {"1", "/", "x", "(", ")", "="}]
  \union {<<"1", o[1], "2", o[2], "x", o[3], "1", o[4], "2">> :
            o \in [1 .. 4 -> {"+", "-", "*", "^", "!", "=", " "}]}
====
