---- MODULE Lists ----
(***************************************************************************)
(* Lists of the C runtime (cpp/core/value_list.c).  A list is a value with *)
(* its items, its count (the items, or -1 after a removal too many) and    *)
(* its capacity, which only list_with_expanded_capacity exceeds, with a    *)
(* new list.                                                               *)
(***************************************************************************)
EXTENDS Values, SequencesExt

NewList(cap) == [Null EXCEPT !.type = "list", !.cap = cap]
make_list(cap) == NewList(IF cap <= 0 THEN 8 ELSE cap)
is_list(v) == v.type = "list"

WithItems(v, items) == [v EXCEPT !.items = items, !.n = Len(items)]
list_count(v) == v.n
FromEnd(v, i) == IF i < 0 THEN i + v.n ELSE i
InList(v, i) == i \in 0 .. v.n - 1

list_get(v, i) == IF InList(v, FromEnd(v, i)) THEN v.items[FromEnd(v, i) + 1] ELSE Null

list_set(v, i, x) ==
  IF InList(v, FromEnd(v, i)) THEN [v EXCEPT !.items[FromEnd(v, i) + 1] = x] ELSE v

list_push(v, x) == IF v.n < v.cap THEN WithItems(v, Append(v.items, x)) ELSE v

list_insert(v, i, x) ==
  IF FromEnd(v, i) \in 0 .. v.n /\ v.n < v.cap
  THEN WithItems(v, InsertAt(v.items, FromEnd(v, i) + 1, x))
  ELSE v

\* The item behind the last counts as one; then the last one goes, if any.
list_remove(v, i) ==
  LET k == FromEnd(v, i)
  IN  CASE InList(v, k) -> WithItems(v, RemoveAt(v.items, k + 1))
        [] k = v.n /\ v.n > 0 -> WithItems(v, Front(v.items))
        [] k = v.n /\ v.n = 0 -> [v EXCEPT !.n = -1]
        [] OTHER -> v

\* What list_pop leaves; it returns the item that is gone.
list_pop(v) == IF v.n <= 0 THEN v ELSE WithItems(v, Front(v.items))

list_indexOf(v, x, start) ==
  LET found == {i \in 0 .. v.n - 1 : i >= start /\ value_equal(v.items[i + 1], x)}
  IN  IF found = {} THEN -1 ELSE CHOOSE i \in found : \A j \in found : i <= j

list_clear(v) == WithItems(v, <<>>)
list_copy(v) == WithItems(make_list(v.cap), v.items)
list_with_expanded_capacity(v) == [v EXCEPT !.cap = IF 2 * v.cap < 2 THEN 2 ELSE 2 * v.cap]
====
