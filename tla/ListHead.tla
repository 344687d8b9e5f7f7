------------------------------ MODULE ListHead ------------------------------
(***************************************************************************)
(* The doubly linked lists of list.h, as sequences of the records linked.  *)
(***************************************************************************)
EXTENDS Naturals, Sequences

\* The records linked in the list.
Elems(list) == {list[i] : i \in 1..Len(list)}

\* No record is linked twice.
Distinct(list) == \A i, j \in 1..Len(list) : list[i] = list[j] => i = j

\* list_del of the i-th record.
ListDel(list, i) ==
    [j \in 1..(Len(list) - 1) |-> IF j < i THEN list[j] ELSE list[j + 1]]

\* list_del of record x, if it is linked.
Unlink(list, x) ==
    IF \E i \in 1..Len(list) : list[i] = x
    THEN ListDel(list, CHOOSE i \in 1..Len(list) : list[i] = x)
    ELSE list

\* A list_for_each loop that stops at the first record of S stops at the i-th.
FirstIn(list, i, S) ==
    /\ i \in 1..Len(list)
    /\ list[i] \in S
    /\ \A j \in 1..(i - 1) : list[j] \notin S
=============================================================================
