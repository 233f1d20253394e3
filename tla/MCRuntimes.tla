---- MODULE MCRuntimes ----
(***************************************************************************)
(* Runtimes with texts over the letter a, the space, the Greek mu (two     *)
(* bytes, listed twice among the lower-case letters), the Kelvin sign      *)
(* (three bytes, one when it is lower case) and the Mongolian vowel        *)
(* separator (white space in the C core only).                             *)
(***************************************************************************)
EXTENDS Runtimes

MCCharOrder(c0) == c0
MCCaseTable == <<<<181, 956>>, <<924, 956>>, <<8490, 107>>>>

TextsOver(chars, n) == {UTF8EncodeAll(s) : s \in UNION {[1 .. k -> chars] : k \in 0 .. n}}
Lists2 == {WithItems(NewList(cap), items) :
             cap \in 1 .. 2, items \in {<<>>, <<make_int(1)>>}}

MCOperands == {make_int(i) : i \in MinInt .. MaxInt} \union {make_double(1, 2)}
MCWords == TextsOver({32, 97, 956}, 1) \union {<<97, 97>>, <<97, 32>>, UTF8EncodeAll(<<97, 956>>)}
MCItems == {make_int(1), make_double(1, 1), make_string(<<97>>)}
MCFormats == TextsOver({48, 97, 956, Open, Close}, 4)

MCStarts ==
  {make_int(i) : i \in MinInt .. MaxInt}
  \union {make_string(s) : s \in TextsOver({32, 97, 956}, 3)}
  \union {HostString(s) : s \in TextsOver({32, 97, 956, 6158, 8490}, 3)}
  \union Lists2 \union {HostStrings(<<>>)}
====
