----------------------------- MODULE ObjectSpec -----------------------------
(***************************************************************************)
(* What the property functions of quickjs.c promise: ordinary objects and    *)
(* arrays as the language defines them, each a list of properties in the     *)
(* order of their creation.  There are no shapes, no fast arrays and no lazy *)
(* properties here.                                                          *)
(***************************************************************************)
EXTENDS Integers, Sequences, SequencesExt, FiniteSetsExt

VARIABLES heap, call, ret

\* Property keys: 0..9 are array indices, the others strings.
LengthKey == 100
IsIndex(k) == k \in 0..9
Undefined == -1
NoObject == "null"

\* A property: t is "data" or "getset".
Data(v, w, e, c) == [t |-> "data", v |-> v, w |-> w, g |-> 0, s |-> 0, e |-> e, c |-> c]
Accessor(g, s, e, c) == [t |-> "getset", v |-> Undefined, w |-> FALSE, g |-> g, s |-> s, e |-> e, c |-> c]

\* A descriptor, as passed to DefineProperty: has lists its fields.
Fields(d, f, new, old) == IF f \in d.has THEN new ELSE old
IsAccessor(d) == d.has \cap {"g", "s"} # {}
IsDataDesc(d) == d.has \cap {"v", "w"} # {}

Answer(b) == [r |-> IF b THEN "true" ELSE "false", v |-> Undefined, ks |-> <<>>]
Value(v) == [r |-> "value", v |-> v, ks |-> <<>>]

\* The properties of o: a sequence of [k, d], the indices in ascending order
\* and after them the strings in the order of their creation.
Position(o, k) == IF \E i \in DOMAIN o.ps : o.ps[i].k = k
                  THEN CHOOSE i \in DOMAIN o.ps : o.ps[i].k = k ELSE 0
Own(o, k) == o.ps[Position(o, k)].d
HasOwn(o, k) == Position(o, k) # 0
Put(o, k, d) == IF HasOwn(o, k) THEN [o EXCEPT !.ps[Position(o, k)].d = d]
                ELSE LET before(p) == ~IsIndex(k) \/ (IsIndex(p.k) /\ p.k < k)
                     IN [o EXCEPT !.ps = SelectSeq(@, before) \o <<[k |-> k, d |-> d]>>
                                         \o SelectSeq(@, LAMBDA p : ~before(p))]
Without(o, k) == [o EXCEPT !.ps = SelectSeq(@, LAMBDA p : p.k # k)]

\* May the property p be changed as d says?
MayChange(p, d) ==
  \/ p.c
  \/ /\ ~("c" \in d.has /\ d.c)
     /\ "e" \in d.has => d.e = p.e
     /\ IsAccessor(d) => p.t = "getset" /\ ("g" \in d.has => d.g = p.g) /\ ("s" \in d.has => d.s = p.s)
     /\ IsDataDesc(d) => /\ p.t = "data"
                         /\ ~p.w => ~("w" \in d.has /\ d.w) /\ ("v" \in d.has => d.v = p.v)

Changed(p, d) ==
  LET e == Fields(d, "e", d.e, p.e)
      c == Fields(d, "c", d.c, p.c)
      q == IF IsAccessor(d) /\ p.t = "data" THEN Accessor(0, 0, e, c)
           ELSE IF IsDataDesc(d) /\ p.t = "getset" THEN Data(Undefined, FALSE, e, c) ELSE p
  IN [q EXCEPT !.e = e, !.c = c, !.v = Fields(d, "v", d.v, @), !.w = Fields(d, "w", d.w, @),
               !.g = Fields(d, "g", d.g, @), !.s = Fields(d, "s", d.s, @)]

Fresh(d) == Changed(IF IsAccessor(d) THEN Accessor(0, 0, FALSE, FALSE) ELSE Data(Undefined, FALSE, FALSE, FALSE),
                    d)

\* ok says whether the definition was accepted.
OrdinaryDefine(o, k, d) ==
  IF HasOwn(o, k)
  THEN IF MayChange(Own(o, k), d) THEN [ok |-> TRUE, o |-> Put(o, k, Changed(Own(o, k), d))] ELSE [ok |-> FALSE, o |-> o]
  ELSE IF o.ext THEN [ok |-> TRUE, o |-> Put(o, k, Fresh(d))] ELSE [ok |-> FALSE, o |-> o]

\* Setting the length of an array deletes from the end, up to the first
\* element that cannot be deleted.
ArraySetLength(o, d) ==
  LET len == Own(o, LengthKey)
      stuck == {o.ps[i].k : i \in {j \in DOMAIN o.ps : IsIndex(o.ps[j].k) /\ o.ps[j].k >= d.v /\ ~o.ps[j].d.c}}
      new == Max({d.v} \cup {k + 1 : k \in stuck})
      cut == [o EXCEPT !.ps = SelectSeq(@, LAMBDA p : ~IsIndex(p.k) \/ p.k < new)]
      w == Fields(d, "w", d.w, len.w)
  IN IF "v" \notin d.has THEN OrdinaryDefine(o, LengthKey, d)
     ELSE IF ~MayChange(len, d) THEN [ok |-> FALSE, o |-> o]
     ELSE [ok |-> new = d.v, o |-> Put(cut, LengthKey, [len EXCEPT !.v = new, !.w = w])]

DefineOwn(o, k, d) ==
  IF o.array /\ k = LengthKey THEN ArraySetLength(o, d)
  ELSE IF o.array /\ IsIndex(k) /\ k >= Own(o, LengthKey).v
  THEN LET new == OrdinaryDefine(o, k, d)
       IN IF ~Own(o, LengthKey).w \/ ~new.ok THEN [ok |-> FALSE, o |-> o]
          ELSE [ok |-> TRUE, o |-> Put(new.o, LengthKey, [Own(o, LengthKey) EXCEPT !.v = k + 1])]
  ELSE OrdinaryDefine(o, k, d)

\* The first object from o up its prototypes that has k.
RECURSIVE Holder(_, _, _)
Holder(h, o, k) == IF o = NoObject \/ HasOwn(h[o], k) THEN o ELSE Holder(h, h[o].proto, k)

Get(h, o, k) ==
  LET at == Holder(h, o, k)
      p == Own(h[at], k)
  IN IF at = NoObject THEN Value(Undefined)
     ELSE IF p.t = "data" THEN Value(p.v) ELSE Value(IF p.g = 0 THEN Undefined ELSE 50 + p.g)

\* An accessor without a setter ignores the value.
Set(h, o, k, v) ==
  LET at == Holder(h, o, k)
      p == Own(h[at], k)
      new == IF at = o THEN [has |-> {"v"}, v |-> v, w |-> FALSE, e |-> FALSE, c |-> FALSE, g |-> 0, s |-> 0]
             ELSE [has |-> {"v", "w", "e", "c"}, v |-> v, w |-> TRUE, e |-> TRUE, c |-> TRUE, g |-> 0, s |-> 0]
      def == DefineOwn(h[o], k, new)
  IN IF at # NoObject /\ p.t = "getset" THEN [h |-> h, r |-> Answer(TRUE)]
     ELSE IF at # NoObject /\ ~p.w THEN [h |-> h, r |-> Answer(FALSE)]
     ELSE [h |-> [h EXCEPT ![o] = def.o], r |-> Answer(def.ok)]

Delete(h, o, k) ==
  IF ~HasOwn(h[o], k) THEN [h |-> h, r |-> Answer(TRUE)]
  ELSE IF ~Own(h[o], k).c THEN [h |-> h, r |-> Answer(FALSE)]
  ELSE [h |-> [h EXCEPT ![o] = Without(@, k)], r |-> Answer(TRUE)]

RECURSIVE InChain(_, _, _)
InChain(h, p, o) == p # NoObject /\ (p = o \/ InChain(h, h[p].proto, o))

SetPrototype(h, o, p) ==
  IF h[o].proto = p THEN [h |-> h, r |-> Answer(TRUE)]
  ELSE IF ~h[o].ext \/ InChain(h, p, o) THEN [h |-> h, r |-> Answer(FALSE)]
  ELSE [h |-> [h EXCEPT ![o].proto = p], r |-> Answer(TRUE)]

OwnKeys(o) == [i \in DOMAIN o.ps |-> o.ps[i].k]

\* What one call does.
Apply(h, c) ==
  CASE c.op = "get" -> [h |-> h, r |-> Get(h, c.o, c.k)]
    [] c.op \in {"set", "set_value"} -> Set(h, c.o, c.k, c.v)
    [] c.op = "define" -> LET def == DefineOwn(h[c.o], c.k, c.d)
                          IN [h |-> [h EXCEPT ![c.o] = def.o], r |-> Answer(def.ok)]
    [] c.op = "delete" -> Delete(h, c.o, c.k)
    [] c.op = "has" -> [h |-> h, r |-> Answer(Holder(h, c.o, c.k) # NoObject)]
    [] c.op = "own" -> [h |-> h, r |-> IF HasOwn(h[c.o], c.k) THEN Value(Own(h[c.o], c.k).v) ELSE Answer(FALSE)]
    [] c.op = "keys" -> [h |-> h, r |-> [r |-> "keys", v |-> Undefined, ks |-> OwnKeys(h[c.o])]]
    [] c.op = "prevent" -> [h |-> [h EXCEPT ![c.o].ext = FALSE], r |-> Answer(TRUE)]
    [] c.op = "proto" -> SetPrototype(h, c.o, c.p)
    [] c.op = "new" -> [h |-> [h EXCEPT ![c.o] = [proto |-> c.p, ext |-> TRUE, array |-> FALSE, ps |-> <<>>]], r |-> Answer(TRUE)]

\* The heap and the answer after every step are those of the call made.
SpecStep == call'.op # "none" /\ LET a == Apply(heap, call') IN ret' = a.r /\ heap' = a.h
Spec == [][SpecStep]_<<heap, call, ret>>
=============================================================================
