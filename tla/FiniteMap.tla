----------------------------- MODULE FiniteMap -----------------------------
(***************************************************************************)
(* What a map promises to the program (value_map.h): a partial function    *)
(* from keys to values, and the answer to the last operation.              *)
(***************************************************************************)
CONSTANTS Keys, Values, Null, Absent

VARIABLES contents, result

vars == <<contents, result>>

Has(k) == contents[k] # Absent

Set == \E k \in Keys, v \in Values :
  contents' = [contents EXCEPT ![k] = v] /\ result' = TRUE

Remove == \E k \in Keys :
  contents' = [contents EXCEPT ![k] = Absent] /\ result' = Has(k)

Clear == contents' = [k \in Keys |-> Absent] /\ UNCHANGED result

Get == \E k \in Keys :
  result' = (IF Has(k) THEN contents[k] ELSE Null) /\ UNCHANGED contents

HasKey == \E k \in Keys : result' = Has(k) /\ UNCHANGED contents

Init == contents = [k \in Keys |-> Absent] /\ result = Null

Next == Set \/ Remove \/ Clear \/ Get \/ HasKey

Spec == Init /\ [][Next]_vars
=============================================================================
