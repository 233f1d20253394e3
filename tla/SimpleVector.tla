---- MODULE SimpleVector ----
(***************************************************************************)
(* SimpleVector.h of the cpp-classic type system, and the List class over  *)
(* it: the buffer with all its slots and how many of them are in use. A    *)
(* slot past the used ones keeps what was last in it. Error and Assert     *)
(* only print, so what follows them is executed; Undefined stands for an   *)
(* access outside the buffer.                                              *)
(***************************************************************************)
EXTENDS Integers, SequencesExt

CONSTANTS Block,   \* the smallest step the buffer grows by, 16 in the code
          Fresh    \* what a new slot holds

Undefined == [buf |-> <<>>, qty |-> -1]

Slots(n) == [i \in 1 .. n |-> Fresh]
Vector(n) == [buf |-> Slots(n), qty |-> 0]
Items(v) == SubSeq(v.buf, 1, v.qty)
Holds(v, idx) == idx >= 0 /\ idx < v.qty

\* n slots, with as many of the used ones as fit; the others are fresh.
resizeBuffer(v, n) ==
  IF n = Len(v.buf) THEN v
  ELSE LET kept == Min({v.qty, n}) IN [buf |-> SubSeq(v.buf, 1, kept) \o Slots(n - kept), qty |-> kept]

\* Resize(0) of a list clears it; a larger size may uncover slots that were given up.
resize(v, n) == IF n = 0 THEN Vector(0) ELSE [resizeBuffer(v, n) EXCEPT !.qty = n]

\* A copy has as many slots; only the used ones are copied.
CopyOf(v) == [buf |-> Items(v) \o Slots(Len(v.buf) - v.qty), qty |-> v.qty]

WithRoom(v) == IF v.qty < Len(v.buf) THEN v
               ELSE resizeBuffer(v, Len(v.buf) + Max({Len(v.buf), Block}))

push_back(v, item) == LET w == WithRoom(v) IN [buf |-> [w.buf EXCEPT ![w.qty + 1] = item], qty |-> w.qty + 1]

\* The count of an empty vector wraps around, and the last slot is none.
pop_back(v) == IF v.qty = 0 THEN Undefined ELSE [v EXCEPT !.qty = @ - 1]

\* The slots from and to become what was at shift of them.
Moved(v, from, to, step, item, idx) ==
  [v EXCEPT !.buf = [i \in DOMAIN @ |-> IF i = idx + 1 THEN item
                                        ELSE IF i \in from + 1 .. to + 1 THEN @[i + step] ELSE @[i]]]

insert(v, item, idx) ==
  IF idx < 0 \/ idx > v.qty THEN v
  ELSE LET w == WithRoom(v) IN [Moved(w, idx + 1, w.qty, -1, item, idx) EXCEPT !.qty = @ + 1]

\* The indexes are checked, but with an error that only prints: the items move within the
\* buffer, to and from slots that are not in use as well.
reposition(v, idx1, idx2) ==
  IF idx1 = idx2 THEN v
  ELSE IF \E idx \in {idx1, idx2} : idx < 0 \/ idx >= Len(v.buf) THEN Undefined
  ELSE IF idx2 < idx1 THEN Moved(v, idx2 + 1, idx1, -1, v.buf[idx1 + 1], idx2)
  ELSE Moved(v, idx1, idx2 - 1, 1, v.buf[idx1 + 1], idx2)

Shrunk_TooFar(v) == IF Len(v.buf) - v.qty > v.qty * 2 THEN resizeBuffer(v, (v.qty \div Block) * Block) ELSE v
Shrunk(v) == IF Len(v.buf) - v.qty > v.qty * 2 THEN resizeBuffer(v, (1 + (v.qty \div Block)) * Block) ELSE v
deleteIdx(v, idx) ==
  IF ~Holds(v, idx) THEN v
  ELSE Shrunk([Moved(v, idx, v.qty - 2, 1, v.buf[v.qty], v.qty - 1) EXCEPT !.qty = @ - 1])

RECURSIVE RemoveRange(_, _, _)
RemoveRange(v, idx, count) == IF count <= 0 THEN v ELSE RemoveRange(deleteIdx(v, idx), idx, count - 1)

\* high, unsigned, is the largest number there is when the vector is empty.
reverse(v) == IF v.qty = 0 THEN Undefined
              ELSE [v EXCEPT !.buf = [i \in DOMAIN @ |-> IF i <= v.qty THEN @[v.qty + 1 - i] ELSE @[i]]]

\* operator[]: an index out of range is that of the first slot.
Slot(v, idx) == IF Holds(v, idx) THEN idx + 1 ELSE 1
\* item and setItem: the index wraps around in both directions.
Wrapped(v, idx) == idx % v.qty
SetSlot(v, i, item) == IF v.buf = <<>> THEN Undefined ELSE [v EXCEPT !.buf[i] = item]
setItem(v, idx, item) == IF v.qty = 0 THEN v ELSE SetSlot(v, Wrapped(v, idx) + 1, item)

indexOf(v, item) == LET at == {i \in 1 .. v.qty : v.buf[i] = item} IN IF at = {} THEN -1 ELSE Min(at) - 1
====
