----------------------------- MODULE MCLibrary -----------------------------
(* An instance for TLC of the parts of the engine that compute: the parser of *)
(* expressions, the last passes of the compiler, saved bytecode, names of     *)
(* modules, arrays, atomic operations, sets of characters and dates.  A       *)
(* behaviour makes one call (q) and answers it, or writes objects that a      *)
(* script changes in between.                                                 *)
EXTENDS Builtins, CharRange, ModuleExports

VARIABLES part, q, answered, wrHeap, wrMarks, wrLast

Bc == INSTANCE BytecodeIO WITH AtomEnd <- 3, LimbBytes <- 2, MaxExpn <- 100, MaxBytes <- 4,
                           WrObjects <- {1, 2, 3}
Lb == INSTANCE ResolveLabels WITH Near <- 12, Far <- 24, Hops <- 10, LoopDepths <- {0, 1, 2}
Xp == INSTANCE Expressions

wrVars == <<wrHeap, wrMarks, wrLast>>

Idle == q = <<>>
Ask(call) == q' = call /\ UNCHANGED answered
Is(k) == ~Idle /\ q.k = k

-----------------------------------------------------------------------------
(* Arrays, fast or not, with holes, a prototype that shows through them, and  *)
(* restrictions; callbacks that delete an element.                            *)
Owns(n, V) == UNION {[D -> V] : D \in SUBSET (0..n - 1)}
ArrayOf(o, n, f, p, x, w, fx) == [own |-> o, len |-> n, fast |-> f, proto |-> p, ext |-> x, lenw |-> w, fixed |-> fx,
      ok |-> TRUE, ret |-> <<>>]
ArProtos == {[i \in {} |-> 0], [i \in {1} |-> 3]}
FastOwn(o) == DOMAIN o = 0..Cardinality(DOMAIN o) - 1
Ordinary(n, V) == {a \in {ArrayOf(o, n, f, p, TRUE, TRUE, {}) : o \in Owns(n, V), f \in BOOLEAN,
      p \in ArProtos} : a.fast = FastOwn(a.own)}
Restricted(n) == {a \in {ArrayOf(o, n, f, p, x, w, {}) : o \in Owns(n, {1}), f \in BOOLEAN, p \in ArProtos, x \in BOOLEAN,
      w \in BOOLEAN} : a.fast => FastOwn(a.own)}
   \cup {ArrayOf(o, n, FALSE, p, TRUE, TRUE, {i}) : o \in {x \in Owns(n, {1}) : 1 \in DOMAIN x}, p \in ArProtos, i \in {1}}
ArCall(fn, x, y, z, e, cb) == [fn |-> fn, x |-> x, y |-> y, z |-> z, e |-> e, cb |-> cb]
NoCb == [at |-> -5, del |-> -5]
ArNums == {-2, 0, 1, 3}
ChangingCalls == {ArCall(fn, 0, 0, 0, <<>>, NoCb) : fn \in {"pop", "shift", "reverse"}}
   \cup {ArCall("sort", m, 0, 0, <<>>, NoCb) : m \in DOMAIN Methods}
   \cup {ArCall(fn, 0, 0, 0, e, NoCb) : fn \in {"push", "unshift"}, e \in {<<>>, <<4>>, <<4, 6>>}}
   \cup {ArCall("splice", x, y, 0, e, NoCb) : x \in {-1, 0, 1}, y \in {0, 1, None}, e \in {<<>>, <<4>>, <<4, 6>>}}
   \cup {ArCall("copyWithin", x, y, z, <<>>, NoCb) : x \in ArNums, y \in ArNums, z \in {-1, 2, None}}
   \cup {ArCall("fill", x, y, 0, <<>>, NoCb) : x \in {-2, 1, None}, y \in {-1, 2, None}}
ReadingCalls == {ArCall("slice", x, y, 0, <<>>, NoCb) : x \in ArNums, y \in {-1, 0, 2, None}}
   \cup {ArCall("indexOf", x, y, 0, <<>>, NoCb) : x \in {1, 3, Undefined}, y \in {-5, -1, 1, 2, None}}
   \cup {ArCall(fn, 0, 0, 0, <<>>, [at |-> a, del |-> d]) : fn \in {"every", "some", "forEach", "map", "filter", "find"},
         a \in {-5, 0, 1}, d \in {0, 1, 2}}
   \cup {ArCall(fn, x, 0, 0, <<>>, NoCb) : fn \in {"reduce", "reduceRight"}, x \in {None, 9}}
   \cup {ArCall("concat", 0, 0, 0, <<>>, NoCb)} \cup {ArCall("flat", x, y, 0, <<>>, NoCb) : x \in {0, 1}, y \in {0, 1, 2}}
         \cup {ArCall("from", x, y, z, <<>>, NoCb) : x \in {0, 1}, y \in {0, 1}, z \in {0, 2, None}}
   \cup {ArCall("spread", x, 0, 0, <<>>, NoCb) : x \in {0, 1}}
AnyArrays == UNION {Ordinary(n, {1, 2}) : n \in 0..3} \cup UNION {Restricted(n) : n \in 0..3} \cup Ordinary(3, {1, Undefined})
PlainArrays == UNION {Ordinary(n, {1, 2}) : n \in 0..3} \cup Ordinary(2, {1, Undefined})

AskArray ==
  /\ Idle
  /\ \/ \E s \in AnyArrays, c \in ChangingCalls : Ask([k |-> "array", s |-> s, c |-> c])
     \/ \E s \in PlainArrays, c \in ReadingCalls : Ask([k |-> "array", s |-> s, c |-> c])

-----------------------------------------------------------------------------
(* Days around month ends, leap days and the limits of the range.             *)
Around(x, k) == (x-k)..(x+k)
DaySet == UNION {Around(x, 3) : x \in {0, 59, 789, -1, -25567+59, -135140+59, 11016, 10957, 47541,
   -719162, -719528, 100000000-4, -100000000+4, 24855, 2932896, -1000000, -146097, 146097*3}} \cup {k * 97 : k \in -100..100}
MsSet == {0, 1, 999, 43199999, 43200000, 86399999, 82800000}
DateArgs == {<<>>} \cup {<<2*y, 2*m>> : y \in {-1, 0,99,100,1970,2000,2019, 275760, 275761},
      m \in {-25,-13,-12,-1,0,1,2,11,12,24,25}}
  \cup {<<y, m, d>> : y \in {3999, 4000}, m \in {-3,2,3}, d \in {-64, -1, 0, 1, 2, 60, 61}}
  \cup {<<4038, 4, 10, h, mi, s, ms>> : h \in {-50, 0, 47}, mi \in {-123, 0, 119}, s \in {-3, 121}, ms \in {-1, -2, 1999}}
  \cup {<<2*275760, 2*8, 2*13, 0,0,0,ms>> : ms \in {-2,0,2}} \cup {<<2*(-271821), 2*3, 2*20, 0,0,0,ms>> : ms \in {-2,0,2}}
  \cup {<<x, y>> : x \in {NotFinite, 4000}, y \in {NotFinite, 2}} \cup {<<4000, 2, 2, 2, 2, 2, 2, NotFinite>>}

(* Zones without and with a change of the clock, forward and back.            *)
Change == [d |-> 11016, ms |-> 3600000]
Zones == {UTC, [at |-> Epoch, before |-> -330, after |-> -330], [at |-> Change, before |-> -60, after |-> -120],
          [at |-> Change, before |-> 420, after |-> 480]}
NearChange == [d : {11015, 11016}, ms : {0, 3599999, 3600000, 7200000, 10800000, 68400000, 86399999}]
OneArg == {[kind |-> k, v |-> t] : k \in {"date", "number"}, t \in {Epoch, Change, NaNTime}}
  \cup {[kind |-> "number", v |-> [d |-> 100000000, ms |-> 1]]}
  \cup {[kind |-> "text", v |-> x] : x \in {toISOString(Change), toUTCString(Epoch), <<>>, <<<<"word", "Jan">>>>}}

AskDate ==
  /\ Idle
  /\ \/ \E d \in DaySet, ms \in MsSet : Ask([k |-> "fields", t |-> [d |-> d, ms |-> ms]])
     \/ \E a \in DateArgs : Ask([k |-> "utc", a |-> a])
     \/ \E t \in {NaNTime} \cup NearChange \cup [d : {0, -1, 59, 11016, -719528}, ms : {0, 86399999, 45296789}], z \in Zones,
           f \in 0..6, v \in {-1, 0, 1, 11, 12, 23, 24, 59, 60, 500, 2000} : (f = 3 => v < 2000) /\ Ask([k |-> "set", t |-> t, z |-> z, f |-> f, v |-> v])
     \/ \E d \in DaySet, ms \in MsSet, z \in Zones : Ask([k |-> "parse", t |-> [d |-> d, ms |-> ms], z |-> z])
     \/ \E a \in {<<x>> : x \in OneArg} \cup (DateArgs \ {<<>>}) \cup {<<4000, 2, 58, 2 * h>> : h \in 0..23}, z \in Zones, b \in BOOLEAN :
          Ask([k |-> "new", a |-> a, z |-> z, isNew |-> b])

-----------------------------------------------------------------------------
(* Atomic operations at the ends of the ranges of their types.                *)
AskAtomic ==
  Idle /\ \E cls \in {"Int8", "Uint8", "Int16"},
        op \in {"ADD", "SUB", "AND", "OR", "XOR", "EXCHANGE", "COMPARE_EXCHANGE", "LOAD"},
     cell \in {0, 1, 127, 128, 255}, v \in {-128, -1, 0, 1, 127, 255, 256, 65535}, rep \in {-1, 300} :
       Ask([k |-> "atomic", a |-> <<cls, op, cell, v, rep>>])

(* Sorted lists of an even number of points.                                  *)
PointLists(P) == {SetToSortSeq(S, <) : S \in {S \in SUBSET P : Cardinality(S) % 2 = 0}}
AskRange ==
  /\ Idle
  /\ \/ \E a, b \in PointLists({0, 1, 2, 65535, 65536, CrMax}), op \in {"union", "inter", "xor"} :
          Ask([k |-> "range", a |-> a, b |-> b, op |-> op])
     \/ \E a \in PointLists({65, 67, 91, 96, 97, 99, 123}) : Ask([k |-> "case", a |-> a])

-----------------------------------------------------------------------------
(* Three modules: one or two exports each, local, of another module, or of    *)
(* its namespace, and star exports that may go round in circles.              *)
ModuleNames == {"m", "n", "o"}
Entries == {[to |-> "local", name |-> "v"], [to |-> "module", mod |-> "n", name |-> "x"],
            [to |-> "module", mod |-> "o", name |-> "x"], [to |-> "ns", mod |-> "o"]}
OwnEntries(Names) == UNION {[D -> Entries] : D \in SUBSET Names}
Graphs == [m : [entries : OwnEntries({"x"}), stars : {<<>>, <<"n", "o">>, <<"m", "o">>}],
           n : [entries : OwnEntries({"x", "default"}), stars : {<<>>, <<"o">>, <<"o", "m">>}],
           o : [entries : OwnEntries({"x"}), stars : {<<>>, <<"m">>, <<"n">>}]]
Paths == UNION {[1..n -> {".", "..", "a"}] : n \in 1..4}
AskExport ==
  /\ Idle
  /\ \/ \E g \in Graphs : Ask([k |-> "export", g |-> g])
     \/ \E base \in {<<>>} \cup Paths, name \in Paths : Ask([k |-> "path", base |-> base, name |-> name])

-----------------------------------------------------------------------------
AskExpression == Idle /\ Xp!AskExpr(Ask)
AskBytecode == Idle /\ (Bc!AskSave(Ask) \/ Bc!AskCut(Ask) \/ Bc!AskLine(Ask))

Respond == ~Idle /\ ~answered /\ answered' = TRUE /\ UNCHANGED q

LibraryInit == part \in {"calls", "writer"} /\ q = <<>> /\ answered = FALSE /\ Bc!WrInit

LibraryNext ==
  /\ UNCHANGED part
  /\ \/ /\ part = "calls"
        /\ \/ AskArray \/ AskDate \/ AskAtomic \/ AskRange \/ AskExport \/ AskExpression \/ AskBytecode
           \/ Lb!LbAsk \/ Respond
        /\ UNCHANGED wrVars
     \/ part = "writer" /\ Bc!WrNext /\ UNCHANGED <<q, answered>>

LibrarySpec == LibraryInit /\ [][LibraryNext]_<<part, q, answered, wrVars>>

-----------------------------------------------------------------------------
\* The paths js_array_* take for a fast array do to it what the loops over
\* properties do to any other.
FastArraysSame == Is("array") => FastIsGeneric(q.s, q.c)

\* Every js_array_* function leaves the array and returns the result that the
\* language defines.
ArraysAsTheLanguage == Is("array") /\ Unrestricted(q.s) => AsTheLanguage(q.s, q.c)

\* The fields of a date (get_date_fields) are those of the proleptic calendar,
\* set_date_fields carries what overflows a field into the next, a setter
\* (set_date_field) changes the field it names only, and js_date_constructor
\* makes the time its arguments stand for.
DatesRight ==
  /\ Is("fields") => DateFieldsRight(q.t)
  /\ Is("utc") => DateCarriesRight(q.a)
  /\ Is("set") => SetterKeepsRest(q.t, q.f, q.v, q.z)
  /\ Is("new") => DateConstructed(q.a, q.z, Change, q.isNew)

\* js_Date_parse reads back the time that get_date_string has written.
DatesParse == Is("parse") => DateParsesBack(q.t, q.z)

\* js_atomics_op returns the value the cell had and leaves the result of the
\* operation, both of the element type, for operands outside the range too.
AtomicsRight == Is("atomic") => OpRight(q.a[1], q.a[2], q.a[3], q.a[4], q.a[5])

\* cr_op, cr_invert, cr_compress and the case folding of ranges compute the set
\* of characters they are named for, in sorted lists without empty or touching
\* ranges.
CharRangesRight ==
  /\ Is("range") => CrRight(q.a, q.b, q.op, {0, 1, 2, 3, 65534, 65535, 65536, 65537, 1114111})
  /\ Is("case") => CrCaseRight(q.a, 60..125)

\* js_resolve_export finds the binding a name leads to through exports of
\* exports and star exports, however these circle, a module namespace has the
\* names with one binding, and a module name that is made absolute leads where
\* it led from the directory of the module that imports it.
ExportsRight ==
  /\ Is("export") => \A m \in ModuleNames :
       /\ \A n \in {"x", "default"} : ExResolvesRight(q.g, m, n, js_resolve_export(q.g, m, n))
       /\ ExNamespaceRight(q.g, m, {"x", "default"}, js_build_module_ns(q.g, m))
  /\ Is("path") /\ Head(q.name) \in {".", ".."} =>
       ExWalk(js_default_module_normalize_name(q.base, q.name)) =
         ExWalk((IF q.base = <<>> THEN <<>> ELSE Front(q.base)) \o q.name)

\* The code js_parse_expr and its helpers emit for an expression evaluates its
\* parts in the order of the language, each once, to the same value.
EvaluatesInOrder == Is("expr") => Xp!ExpressionRight(q.e, Xp!EvalTokens(Xp!Write(q.e, 0)))

\* JS_ReadObject gives back what JS_WriteObject was given, whichever byte order
\* it was written for and whichever numbers the atoms have, or the write failed
\* because the value cannot be saved.
SavesAndLoads == Is("io") => Bc!SaveLoadRight(q.H, Bc!RtA, q.v, q.m, q.by, q.sw, q.rt2, q.rom)

\* No proper prefix of a saved object is loaded.
CutRefused == Is("cut") => Bc!PrefixesRefused(q.H, Bc!RtA, q.v, q.m, q.by, q.rt2)

\* find_line_num gives for every position the line that compute_pc2line_info was
\* given for it.
LineNumbers == Is("line") => Bc!LinesRight(q.mk, 10, q.at)

\* JS_WriteObject refuses an object exactly when it cannot be saved, whatever was
\* written, refused or changed before, except that an object in which a call has
\* met a getter stays marked and is refused from then on.
WriteRefusals == Bc!WriteRefusals' /\ Bc!MarksCleared

\* The code the last two passes make of a function body has its effects.
OptimisedSame == Lb!OptimisedSame

\* No function body makes an assertion of the last two passes fail.
AssemblesAll == Lb!AssemblesAll


\* The code of js_parse_expr evaluates every expression as the language does.
ExpressionsRight == [][answered' => EvaluatesInOrder]_<<q, answered>>

\* What JS_WriteObject saves, JS_ReadObject and find_line_num give back; what is
\* cut short or cannot be saved is refused, and a refusal leaves no mark behind
\* but that of an object with a getter.
BytecodeRight ==
  [][(answered' => SavesAndLoads /\ CutRefused /\ LineNumbers) /\ WriteRefusals]_<<q, answered, wrVars>>

\* resolve_variables and resolve_labels make code with the same effects of every
\* function body, and no assertion of theirs fails.
LabelsRight == [][answered' => OptimisedSame /\ AssemblesAll]_<<q, answered>>
=============================================================================
