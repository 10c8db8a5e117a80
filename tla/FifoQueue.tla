----------------------------- MODULE FifoQueue -----------------------------
(***************************************************************************)
(* A bounded queue: what is taken is what was put first.  Taking one item  *)
(* hands it over; an item is put at most once.                             *)
(***************************************************************************)
EXTENDS Integers, Sequences

CONSTANTS Items, Capacity

VARIABLES items, taken

Init == items = <<>> /\ taken = {}

Put(i) ==
    /\ Len(items) < Capacity
    /\ items' = Append(items, i)
    /\ UNCHANGED taken

Take ==
    /\ items # <<>>
    /\ taken' = taken \cup {Head(items)}
    /\ items' = Tail(items)

Finish(i) ==
    /\ i \in taken
    /\ taken' = taken \ {i}
    /\ UNCHANGED items

\* nobody takes any more: the first item is thrown away
Discard ==
    /\ items # <<>> /\ taken = {}
    /\ items' = Tail(items)
    /\ UNCHANGED taken

Next ==
    \/ \E i \in Items : Put(i) \/ Finish(i)
    \/ Take
    \/ Discard

Spec == Init /\ [][Next]_<<items, taken>>
=============================================================================
