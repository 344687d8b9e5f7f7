------------------------------- MODULE MapSpec -------------------------------
(***************************************************************************)
(* What a Map promises: entries in the order in which their keys were first  *)
(* added, and walks over them (iterators and the calls of forEach) that see  *)
(* every entry still there when they come to it, entries added meanwhile     *)
(* included, and none twice.  A walk is the number of present entries it has *)
(* passed.                                                                   *)
(***************************************************************************)
EXTENDS Integers, Sequences, SequencesExt

VARIABLES data,      \* the entries [k, v]
          walks,     \* walk -> "none", "done" or the entries passed
          call, ret

NoWalk == -1
Done == -2

Where(d, k) == LET at == {i \in DOMAIN d : d[i].k = k} IN IF at = {} THEN 0 ELSE CHOOSE i \in at : TRUE

Outcome(d, w, r) == [d |-> d, w |-> w, r |-> r]

\* A walk that has passed the removed entry has passed one entry less.
Without1(d, w, i) == [d |-> RemoveAt(d, i), w |-> [x \in DOMAIN w |-> IF w[x] >= i THEN w[x] - 1 ELSE w[x]]]

\* The walk x goes on: the next entry, or the end.
Step(d, w, x) ==
  IF w[x] = Done \/ w[x] = Len(d) THEN Outcome(d, [w EXCEPT ![x] = Done], <<"done">>)
  ELSE Outcome(d, [w EXCEPT ![x] = @ + 1], <<d[w[x] + 1].k, d[w[x] + 1].v>>)

Apply(d, w, c) ==
  LET i == Where(d, c.k)
      out == Without1(d, w, i)
  IN CASE c.op = "set" -> Outcome(IF i = 0 THEN Append(d, [k |-> c.k, v |-> c.v]) ELSE [d EXCEPT ![i].v = c.v], w, <<>>)
       [] c.op = "delete" -> IF i = 0 THEN Outcome(d, w, <<FALSE>>) ELSE Outcome(out.d, out.w, <<TRUE>>)
       [] c.op = "clear" -> Outcome(<<>>, [x \in DOMAIN w |-> IF w[x] >= 0 THEN 0 ELSE w[x]], <<>>)
       [] c.op = "start" -> Outcome(d, [w EXCEPT ![c.w] = 0], <<>>)
       [] c.op = "next" -> Step(d, w, c.w)
       [] c.op = "drop" -> Outcome(d, [w EXCEPT ![c.w] = NoWalk], <<>>)
       [] c.op = "end" -> Outcome(<<>>, [x \in DOMAIN w |-> NoWalk], <<>>)

\* The entries, the walks and the answer after every step are those of the call made.
SpecStep == LET a == Apply(data, walks, call') IN data' = a.d /\ walks' = a.w /\ ret' = a.r
=============================================================================
