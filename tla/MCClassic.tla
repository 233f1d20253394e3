---- MODULE MCClassic ----
(***************************************************************************)
(* Classic with two storages and two variables, a vector that grows by two *)
(* slots, texts of up to four characters of one and two bytes, and numbers *)
(* and words for the benchmarks.                                           *)
(***************************************************************************)
EXTENDS Classic, TLC

MCAtoms == {Number(1), magicIsA}
MCSymmetry == Permutations(Vars)

UpTo(n, S) == UNION {[1 .. k -> S] : k \in 0 .. n}
Chars == {<<97>>, <<195, 169>>, <<195, 168>>}
TextTasks == {[kind |-> "text", text |-> t, other |-> o, new |-> w] :
                t \in UpTo(4, Chars), o \in UpTo(2, Chars), w \in UpTo(1, {<<97>>, <<195, 169>>})}

Parts == {0, 1, 10, 11, 19, 20, 21, 99}
Numbers == {p + 100 * q + 1000 * (r + 100 * q) + 1000000 * t :
              p \in Parts, q \in {0, 1, 9}, r \in Parts, t \in {0, 1, 12, 999, 1000, 1012}}
NumberTasks == {[kind |-> "number", n |-> m] : m \in Numbers \cup {-k : k \in Numbers}}

Words == UpTo(3, {1, 2})
WordTasks == {[kind |-> "words", s1 |-> u, s2 |-> v] : u, v \in Words}

Literals == {Number(1), Null, Temp(1), Value("var", 1)}
LiteralTasks == {[kind |-> "literal", items |-> i] : i \in UpTo(3, Literals)}

MCTasks == {[kind |-> "values"], [kind |-> "vector"]} \cup TextTasks \cup NumberTasks \cup WordTasks \cup LiteralTasks
====
