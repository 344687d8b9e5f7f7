------------------------------ MODULE MCShared ------------------------------
(* An instance for TLC of the parts of the engine that share and count what  *)
(* they hold: objects with shared shapes, the records of maps and weak maps, *)
(* and the table of atoms.  Each behaviour exercises one of them.            *)
EXTENDS Objects, MapSet, Atoms

VARIABLE part    \* the component at work

-----------------------------------------------------------------------------
(* Objects: descriptors, and the calls of three scenes.                      *)
Desc(has, v, w, e, c, g, s) == [has |-> has, v |-> v, w |-> w, e |-> e, c |-> c, g |-> g, s |-> s]
Full == Desc({"v", "w", "e", "c"}, 1, TRUE, TRUE, TRUE, 0, 0)
JustValue == Desc({"v"}, 2, FALSE, FALSE, FALSE, 0, 0)
ReadOnly == Desc({"w"}, 0, FALSE, FALSE, FALSE, 0, 0)
Fixed == Desc({"c"}, 0, FALSE, FALSE, FALSE, 0, 0)
Hides == Desc({"e"}, 0, FALSE, FALSE, FALSE, 0, 0)
Getter == Desc({"g", "c"}, 0, FALSE, FALSE, TRUE, 1, 0)
SetterOnly == Desc({"s"}, 0, FALSE, FALSE, FALSE, 0, 1)

C(op, o, k) == [op |-> op, o |-> o, k |-> k, v |-> 0, d |-> Full, p |-> "null"]
Sets(op, O, K, V) == {[C(op, o, k) EXCEPT !.v = v] : o \in O, k \in K, v \in V}
Defs(O, K, Ds) == {[C("define", o, k) EXCEPT !.d = d] : o \in O, k \in K, d \in Ds}
Ops(op, O, K) == {C(op, o, k) : o \in O, k \in K}
Reparents(O, P) == {[C("proto", o, 0) EXCEPT !.p = p] : o \in O, p \in P}

\* Objects that share shapes until one of them changes.
ShapeCalls ==
    Sets("set", {"o", "q", "p"}, {101}, {1}) \cup Sets("set", {"o", "q"}, {103, 104}, {2})
    \cup Defs({"o", "q"}, {101}, {JustValue, ReadOnly, Fixed, Getter})
    \cup Ops("delete", {"o", "q"}, {101, 103}) \cup Ops("prevent", {"q"}, {0}) \cup Reparents({"o"}, {"q", "null"})
    \cup Ops("get", {"o", "q"}, {101}) \cup Ops("keys", {"o"}, {0})

\* An array that is fast until something makes it an ordinary one.
ArrayCalls ==
    Sets("set_value", {"a"}, 0..2, {1}) \cup Sets("set", {"a"}, {0}, {2}) \cup Sets("set", {"a"}, {Length}, {0, 1, 3})
    \cup Sets("set", {"p"}, {1}, {3})
    \cup Defs({"a"}, {0, 1}, {Full, Fixed, ReadOnly, SetterOnly}) \cup Defs({"a"}, {Length}, {ReadOnly, JustValue})
    \cup Defs({"p"}, {1}, {ReadOnly, Getter})
    \cup Ops("delete", {"a"}, {0, 1}) \cup Ops("prevent", {"a"}, {0}) \cup Ops("get", {"a"}, {1}) \cup Ops("has", {"a"}, {1})
    \cup Ops("own", {"a"}, {0}) \cup Ops("keys", {"a"}, {0})

\* A property made when it is first looked at.
LazyCalls ==
    Sets("set", {"o", "q"}, {Lazy}, {1})
    \cup Defs({"o"}, {Lazy}, {Full, JustValue, ReadOnly, Fixed, Hides, Getter, SetterOnly})
    \cup Ops("delete", {"o"}, {Lazy}) \cup Ops("get", {"o", "q"}, {Lazy}) \cup Ops("has", {"o", "q"}, {Lazy})
    \cup Ops("own", {"o"}, {Lazy}) \cup Reparents({"q"}, {"o"}) \cup Ops("keys", {"o"}, {0}) \cup Ops("prevent", {"o"}, {0})

\* Names of one chain of the table of four entries, and two more with which it
\* has to become one of eight; o and q share the shape.
ChainNames == <<101, 105, 109>>
ChainCalls ==
    Sets("set", {"o", "q"}, {113}, {1}) \cup Sets("set", {"o"}, {105, 104}, {2}) \cup Ops("delete", {"o"}, {101, 105, 109})
    \cup Ops("get", {"o"}, {109}) \cup {[C("new", "q", 0) EXCEPT !.p = p] : p \in {"p", "a"}}

Scene(calls, max, start, lazy) == [calls |-> calls, max |-> max, start |-> start, lazy |-> lazy]
MCScenes == <<Scene(ShapeCalls, 3, <<>>, FALSE), Scene(ArrayCalls, 3, <<>>, FALSE), Scene(LazyCalls, 3, <<>>, TRUE),
              Scene(ChainCalls, 4, ChainNames, FALSE)>>

-----------------------------------------------------------------------------
(* Maps: numbers kept as ints and as floats, NaN (-9) among them.            *)
IntKey(n) == [n |-> n, tag |-> "int"]
FloatKey(n) == [n |-> n, tag |-> "float"]
MCKeys == {FloatKey(0), IntKey(1), FloatKey(-9)}
MCItems == {<<>>, <<[k |-> IntKey(3), v |-> 2], [k |-> IntKey(1), v |-> 1], [k |-> IntKey(0), v |-> 2]>>}
MCWeakKeys == {11, 12}

\* Atoms: two texts that share a bucket of the smallest table.
MCHash == [p \in Texts \X {1, 2} |-> CASE p[1] = "a" -> 1 [] p[1] = "b" -> 3 [] OTHER -> p[2]]

-----------------------------------------------------------------------------
allMpVars == <<mpVars, wkVars>>

SharedInit ==
    /\ part \in {"objects", "maps", "atoms"}
    /\ ObInit /\ MpInit /\ AtomInit
    /\ part # "objects" => obScene = 1
    /\ part # "maps" => mpPhase = "weak" /\ mpMap = js_map_constructor(<<>>)

SharedNext ==
    /\ UNCHANGED part
    /\ \/ part = "objects" /\ ObNext /\ UNCHANGED <<allMpVars, atomVars>>
       \/ part = "maps" /\ MpNext /\ UNCHANGED <<obVars, atomVars>>
       \/ part = "atoms" /\ AtomNext /\ UNCHANGED <<obVars, allMpVars>>

SharedSpec == SharedInit /\ [][SharedNext]_<<part, obVars, allMpVars, atomVars>>

\* The tables behind objects, maps and atoms are whole: shapes agree with the
\* objects that share them, records and atoms are counted exactly, and every
\* lookup finds what is there (js_shape_hash_link, map_add_record, JS_NewAtom).
TablesSound == ShapesSound /\ RecordsCounted /\ LookupsRight /\ WeakRefsExact /\ AtomTableWhole /\ AtomRefsExact
=============================================================================
