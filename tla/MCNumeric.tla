----------------------------- MODULE MCNumeric -----------------------------
(* An instance for TLC of libbf and libunicode: a behaviour is one call (q)   *)
(* and its answer.  The tables of libunicode are built from small databases   *)
(* by the code of unicode_gen and read back by that of libunicode.            *)
EXTENDS BigFloat, Unicode

VARIABLES q, answered

\* Numbers with limbs of another size.
Wide == INSTANCE BigFloat WITH LIMB_BITS <- 4, F64Bits <- 3, F64ExpBits <- 3
Bytes == INSTANCE BigFloat WITH LIMB_BITS <- 8, F64Bits <- 3, F64ExpBits <- 3

Idle == q = <<>>
Ask(call) == q' = call /\ UNCHANGED answered
Is(k) == ~Idle /\ q.k = k

-----------------------------------------------------------------------------
(* Numbers of one to three limbs, precisions and rounding modes.              *)
Tabs == {<<2>>, <<3>>, <<1, 2>>, <<3, 3>>, <<2, 3>>, <<1, 0, 2>>, <<3, 1, 3>>}
Modes == {RNDN, RNDZ, RNDD, RNDU, RNDNA, RNDNU, RNDF}
SmallExp(rnd, sub) == [rnd |-> rnd, sub |-> sub, bits |-> 3]
Numbers(E) == {Bf(s, e, t) : s \in 0..1, e \in E, t \in Tabs}
Precs == {2, 3, 4, PREC_INF}
\* Numbers longer than a result, with and without a run of zeros.
LongNumbers == {Bf(s, -1, t) : s \in 0..1, t \in {<<3, 2, 2>>, <<3, 1, 0, 2>>, <<3, 0, 3, 3>>, <<1, 0, 0, 2>>, <<1, 3, 3, 3, 2>>}}

AskAdd == Idle /\ \E a \in Numbers({-1}), b \in Numbers({-12, -9, -6, -3, -2, -1}) : Ask([k |-> "add", a |-> a, b |-> b])
AskFar == Idle /\ \E a \in LongNumbers, b \in Numbers({-10, -13}) : Ask([k |-> "add", a |-> a, b |-> b])
AskLong == Idle /\ \E a, b \in LongNumbers : a.sign <= b.sign /\ Ask([k |-> "mul", a |-> a, b |-> b])
AskMul == Idle /\ \E a \in Numbers({0}), b \in Numbers({-6, -4, 4}) : a.sign <= b.sign /\ Ask([k |-> "mul", a |-> a, b |-> b])
AskDiv == Idle /\ \E a \in Numbers({0}), b \in Numbers({0, 3}) : a.sign <= b.sign /\ Ask([k |-> "div", a |-> a, b |-> b])
AskRem == Idle /\ \E x \in -20..20, y \in {-9,-8,-7,-3,-1,2,4,5,6,9} : Ask([k |-> "rem", x |-> x, y |-> y])
AskRoot == Idle /\ \E a \in Numbers({0, 1}) : a.sign = 0 /\ Ask([k |-> "root", a |-> a])
AskByteRoot == Idle /\ \E m \in 128..255, e \in {0, 1} : Ask([k |-> "broot", a |-> Bf(0, e, <<m>>)])
AskIRoot == Idle /\ \E x \in 1..80 : Ask([k |-> "iroot", x |-> x])
AskLogic == Idle /\ \E x \in -17..17, y \in -17..17 : Ask([k |-> "logic", x |-> x, y |-> y])
AskToInt == Idle /\ \E a \in {Bf(s, e, t) : s \in 0..1, e \in -1..9, t \in {<<8>>, <<15>>, <<9>>, <<1, 8>>, <<15, 15>>,
      <<1, 12>>}} : Ask([k |-> "int", a |-> a])
AskDbl == Idle /\ \E s \in 0..1, e \in 0..7, m \in 0..3 : Ask([k |-> "dbl", s |-> s, e |-> e, m |-> m])
AskCan == Idle /\ \E a \in Numbers({0}) \cup {Bf(0, 0, <<1, 2, 1, 2>>), Bf(0, 0, <<3, 3, 3, 3>>)} : Ask([k |-> "can", a |-> a])
AskSpecial == Idle /\ \E a, b \in {bf_set_nan, Bf(0, 1, <<2>>), Bf(1, 1, <<2>>)} \cup {bf_set_inf(s) : s \in 0..1}
      \cup {bf_set_zero(s) : s \in 0..1} :
  Ask([k |-> "special", a |-> a, b |-> b])
AskPow == Idle /\ \E x \in (-3..3), b \in 1..7 : Ask([k |-> "pow", x |-> x, y |-> b])

SumsRight ==
  \A m \in Modes : /\ \A p \in Precs : SumRight(q.a, q.b, p, Flags(m))
                   /\ \A s \in BOOLEAN : SumRight(q.a, q.b, 3, SmallExp(m, s))
ProductsRight ==
  \A m \in Modes \ {RNDF} : /\ \A p \in Precs : ProductRight(q.a, q.b, p, Flags(m))
                            /\ \A s \in BOOLEAN : ProductRight(q.a, q.b, 3, SmallExp(m, s))
                            /\ \A p \in 2..5 : FaithfulProduct(q.a, q.b, p)
QuotientsRight ==
  \A p \in 2..5, m \in Modes : /\ QuotientRight(q.a, q.b, p, Flags(m))
                               /\ m # RNDF => LongQuotientRight(q.a, q.b, p, Flags(m))
                               /\ LongFaithfulRight(q.a, q.b, p)

-----------------------------------------------------------------------------
(* Properties of characters as runs of equal values.                          *)
RECURSIVE FromRuns(_)
FromRuns(rs) == IF rs = <<>> THEN <<>> ELSE [k \in 1..rs[1][2] |-> rs[1][1]] \o FromRuns(Tail(rs))
Col(rs) == LET s == FromRuns(rs) IN [c \in 0..(Len(s) - 1) |-> s[c + 1]]
SetFrom(ls) == LET f == Col([i \in 1..Len(ls) |-> <<(i - 1) % 2, ls[i]>>]) IN {c \in DOMAIN f : f[c] = 1}
RECURSIVE Reps(_, _)
Reps(s, n) == IF n = 0 THEN <<>> ELSE s \o Reps(s, n - 1)
RECURSIVE GcSeq(_)
GcSeq(rs) == IF rs = <<>> THEN <<>> ELSE Reps(rs[1][1], rs[1][2]) \o GcSeq(Tail(rs))
FromZero(s) == [c \in 0..(Len(s) - 1) |-> s[c + 1]]
Pad(f, m, v) == [c \in 0..m |-> IF c \in DOMAIN f THEN f[c] ELSE v]

AskProp ==
  /\ Idle
  /\ \/ \E n \in 1..4 : \E ls \in [1..n -> {1, 2, 3, 8, 9, 17}] : Ask([k |-> "prop", ls |-> ls])
     \/ \E ls \in [1..11 -> {1, 3}] : Ask([k |-> "prop", ls |-> ls])
AskGc ==
  Idle /\ \E n \in 1..3 : \E rs \in [1..n -> {<<0>>, <<1>>, <<2>>, <<1, 2>>, <<1, 2, 1, 2>>} \X {1, 6, 25}] :
    Ask([k |-> "gc", rs |-> rs])
AskScript ==
  Idle /\ \E n \in 1..2 : \E a \in [1..n -> {0, 1, 2} \X {1, 5, 21}], b \in [1..n -> {<<>>, <<2>>, <<3, 2>>} \X {1, 5}] :
    Ask([k |-> "script", a |-> a, b |-> b])
AskCc ==
  /\ Idle
  /\ \/ \E n \in 1..3 : \E a \in [1..n -> {0, 1, 230} \X {1, 2, 5, 21}] : Ask([k |-> "cc", a |-> a])
     \/ \E c \in {0, 1, 230}, n \in {84, 85, 140}, a \in [1..2 -> {3, 7} \X {1, 5, 21}] :
          \/ Ask([k |-> "cc", a |-> <<<<c, n>>>> \o a])
          \/ Ask([k |-> "cc", a |-> a \o <<<<c, n>>>>])

-----------------------------------------------------------------------------
(* Letters and their cases; the other properties of a few characters.         *)
CaseOf(u, l, f) == [u |-> u, l |-> l, f |-> f]
UpLow(a, n, b) == [c \in a..(a + n - 1) |-> CaseOf(<<>>, <<c - a + b>>,
      c - a + b)] @@ [c \in b..(b + n - 1) |-> CaseOf(<<c - b + a>>, <<>>, 0)]
Alternate(a, n) == [c \in a..(a + 2 * n - 1) |-> IF (c - a) % 2 = 0 THEN CaseOf(<<>>, <<c + 1>>,
      c + 1) ELSE CaseOf(<<c - 1>>, <<>>, 0)]
Dz(a) == (a :> CaseOf(<<>>, <<a + 2>>, a + 2)) @@ ((a + 1) :> CaseOf(<<a>>, <<a + 2>>, a + 2)) @@ ((a + 2) :> CaseOf(<<a>>,
      <<>>, 0))
\* Parts of the Unicode case data.
Part(n) ==
  CASE n = 1 -> UpLow(65, 7, 97)                               \* ASCII
    [] n = 2 -> UpLow(192, 7, 224) @@ UpLow(216, 7, 248)          \* Latin-1
    [] n = 3 -> (223 :> CaseOf(<<83, 83>>, <<>>, 0)) @@ (7838 :> CaseOf(<<>>, <<223>>, 223))  \* sharp s
    [] n = 4 -> Alternate(292, 6) @@ (304 :> CaseOf(<<>>, <<105, 775>>, 0)) @@ (305 :> CaseOf(<<73>>, <<>>,
          0)) @@ Alternate(306, 3)
    [] n = 5 -> (181 :> CaseOf(<<924>>, <<>>, 956)) @@ UpLow(921, 7, 953)      \* micro, Greek
    [] n = 6 -> Dz(452) @@ Dz(455) @@ Dz(458) @@ Alternate(461, 5)
    [] n = 7 -> (912 :> CaseOf(<<921, 776, 769>>, <<>>, 0)) @@ (329 :> CaseOf(<<700, 78>>, <<>>, 0))
    [] n = 8 -> [c \in 8064..8066 |-> CaseOf(<<c - 8064 + 7944, 921>>, <<>>,
          0)] @@ [c \in 8072..8074 |-> CaseOf(<<c - 8072 + 7944, 921>>, <<c - 8>>, c - 8)] @@ UpLow(7944, 3, 7936)
    [] n = 9 -> Alternate(7776, 2) @@ (7835 :> CaseOf(<<7776>>, <<>>, 7777))                    \* long s with dot
    [] n = 10 -> (8486 :> CaseOf(<<>>, <<969>>, 969)) @@ UpLow(931, 7, 963)     \* Ohm sign
    [] n = 11 -> [c \in 43888..43890 |-> CaseOf(<<c - 43888 + 5024>>, <<>>, c - 43888 + 5024)] @@ [c \in 5024..5026 |-> CaseOf(<<>>, <<c - 5024 + 43888>>, 0)] \* Cherokee
Joined(S) == LET D == UNION {DOMAIN Part(n) : n \in S} IN [c \in D |-> Part(CHOOSE n \in S : c \in DOMAIN Part(n))[c]]
Neighbours(D) == UNION {{c - 1, c, c + 1} : c \in D} \cap Nat
Char(g, ps, cs) == [gc |-> g, props |-> ps, case |-> cs]
Menu == {Char("Cn", {}, NoCase), Char("Lo", {"XID_Start", "XID_Continue"}, NoCase), Char("Lo", {}, NoCase), Char("Mn",
      {"XID_Continue", "Other_Grapheme_Extend"}, NoCase),
  Char("Sm", {"Pattern_Syntax", "Other_Math"}, NoCase), Char("Nl", {"Other_Lowercase", "XID_Start", "Other_ID_Continue"},
        NoCase), Char("Lo", {"Pattern_White_Space"}, NoCase), Char("Cf",
        {"Other_ID_Start", "XID_Start", "XID_Continue", "Changes_When_NFKC_Casefolded"}, NoCase)}
Cased == [c \in {2, 3} |-> IF c = 2 THEN Char("Lu", {"XID_Start", "XID_Continue", "Changes_When_Casefolded"}, CaseOf(<<>>,
      <<3>>, 3)) ELSE Char("Ll", {"Changes_When_Titlecased"}, CaseOf(<<2>>, <<>>, 0))]

AskCase == Idle /\ \E S \in SUBSET (1..11) : Ask([k |-> "case", S |-> S])
AskProperties ==
  Idle /\ \E f \in [1..3 -> Menu], b \in BOOLEAN :
    Ask([k |-> "props", db |-> (IF b THEN Cased ELSE <<>>) @@ f @@ (0 :> Char("Cc", {}, NoCase))])

-----------------------------------------------------------------------------
(* Decompositions, and texts of marks that combine with letters and block one *)
(* another.                                                                   *)
Canon(d) == [d |-> d, compat |-> FALSE, excluded |-> FALSE]
Compat(d) == [d |-> d, compat |-> TRUE, excluded |-> FALSE]
Excl(d) == [d |-> d, compat |-> FALSE, excluded |-> TRUE]
\* What a character may decompose to.
Decomps == {NoDecomp, Canon(<<65, 769>>), Canon(<<97, 769>>), Canon(<<66, 769>>), Canon(<<1040, 774>>), Canon(<<1072,
      774>>), Canon(<<1041, 900>>),
            Compat(<<32>>), Compat(<<98>>), Compat(<<99>>), Canon(<<3000>>), Compat(<<49, 8260, 50>>), Compat(<<49, 8260,
                  51>>), Compat(<<49, 300, 51>>), Excl(<<65, 770>>), Canon(<<69786, 69818>>), Canon(<<119127>>),
                  Compat(<<119128>>), Canon(<<9, 8, 7, 6, 5, 4, 3, 2>>), Compat(<<32, 65, 900>>)}
RealDb == (7777 :> Canon(<<115, 775>>)) @@ (7779 :> Canon(<<115, 803>>)) @@ (7785 :> Canon(<<7779,
      775>>)) @@ (835 :> Canon(<<787>>)) @@ (836 :> Excl(<<776, 769>>)) @@
          (225 :> Canon(<<97, 769>>)) @@ (7841 :> Canon(<<97, 803>>)) @@ (8491 :> Canon(<<197>>)) @@ (197 :> Canon(<<65,
                778>>)) @@ (64257 :> Compat(<<102, 105>>)) @@ (8490 :> Canon(<<75>>)) @@ (168 :> Compat(<<32,
                776>>)) @@ (901 :> Canon(<<168, 769>>))
RealCc == (803 :> 220) @@ (775 :> 230) @@ (769 :> 230) @@ (776 :> 230) @@ (778 :> 230) @@ (836 :> 230) @@ (807 :> 202) @@ (787 :> 230) @@ (835 :> 230)
RealT == LET t == build_decompose_table(RealDb) IN [t |-> t, comp |-> build_compose_table(RealDb, t), cc |-> RealCc]
Marks == {115, 803, 775, 7777, 7779, 7785, 807}
Others == {4352, 4449, 4520, 44032, 44033, 64257, 8491, 197, 836, 901, 769}

AskTable ==
  /\ Idle
  /\ \E n \in 1..4 : \E f \in [200..(199 + n) -> Decomps] :
       /\ n > 2 => \A c \in DOMAIN f : f[c] \in {NoDecomp, Canon(<<65, 769>>), Canon(<<97, 769>>), Compat(<<98>>),
             Excl(<<65, 770>>)}
       /\ \A c, b \in Composes(f) : c # b => f[c].d # f[b].d
       /\ Ask([k |-> "table", f |-> f])
AskText ==
  /\ Idle
  /\ \/ \E n \in 1..4 : \E s \in [1..n -> Marks] : Ask([k |-> "text", s |-> s])
     \/ \E n \in 1..3 : \E s \in [1..n -> Others] : Ask([k |-> "text", s |-> s])

-----------------------------------------------------------------------------
Respond == ~Idle /\ ~answered /\ answered' = TRUE /\ UNCHANGED q

NumericInit == q = <<>> /\ answered = FALSE
NumericNext ==
  \/ AskAdd \/ AskFar \/ AskLong \/ AskMul \/ AskDiv \/ AskRem \/ AskRoot \/ AskByteRoot \/ AskIRoot
  \/ AskLogic \/ AskToInt \/ AskDbl \/ AskCan \/ AskSpecial \/ AskPow
  \/ AskProp \/ AskGc \/ AskScript \/ AskCc \/ AskCase \/ AskProperties \/ AskTable \/ AskText
  \/ Respond
NumericSpec == NumericInit /\ [][NumericNext]_<<q, answered>>

-----------------------------------------------------------------------------
\* Sums, products, quotients, remainders, roots and powers are the exact ones,
\* rounded once in the mode and to the precision asked for, with the status
\* flags of that rounding (bf_add, bf_mul, bf_div, bf_divrem, bf_sqrt).  Faithful
\* products and quotients of long numbers are less than a unit in the last place
\* away; bf_sqrtrem leaves the remainder short by the root when it corrects it.
BigArithmetic ==
  /\ Is("add") => SumsRight
  /\ Is("mul") => ProductsRight
  /\ Is("pow") => PowerRight(q.x, q.y)
  /\ Is("div") => QuotientsRight
  /\ Is("rem") => \A m \in Modes \ {RNDNU} : DivremRight(q.x, q.y, m)
  /\ Is("root") => \A m \in Modes \ {RNDF}, p \in 2..5 : RootRight(q.a, p, Flags(m))
  /\ Is("broot") => \A p \in 2..7 : Bytes!RootRight(q.a, p, Flags(RNDF))
  /\ Is("iroot") => \A s0 \in FaithfulRoots(Integer(q.x)) : IntegerRootRight(q.x, s0) /\ RemainderRight(q.x, s0)

\* The bitwise operations are those of two's complement numbers of any length,
\* conversions to integers wrap or saturate as asked, doubles survive the way
\* there and back, and infinities, zeros and NaN give the special results
\* (bf_logic_op, bf_get_int32, bf_get_int64, bf_set_float64, bf_get_float64).
BigIntegers ==
  /\ Is("special") => \A m \in Modes : SpecialsRight(q.a, q.b, Flags(m))
  /\ Is("logic") => \A op \in {"or", "and", "xor"} : LogicRight(q.x, q.y, op, 8)
  /\ Is("int") => \A mod \in BOOLEAN : Wide!IntsRight(q.a, mod)
  /\ Is("dbl") => Wide!DoubleRoundTrip(q.s, q.e, q.m)

\* When bf_can_round says that an approximation decides the rounding, every
\* number as close to it as it claims, but for the lower end of that interval,
\* rounds to the same result.
BigCanRound == Is("can") => \A p \in 2..5, m \in Modes \ {RNDF}, k \in 2..9 : CanRoundRight(q.a, p, m, k)

\* A table unicode_gen writes (of a binary property, of general categories, of
\* scripts, of combining classes) gives back the value of every character when
\* libunicode reads it, from the start or from the nearest index entry.  A run
\* of combining classes too long for the smallest head of a three-byte word is
\* read shorter than it was written, and the classes that follow it are right
\* again only from the next index entry.
TablesRead ==
  /\ Is("prop") => PropTableRight(SetFrom(q.ls), 0..90)
  /\ Is("gc") => GcTableRight(FromZero(GcSeq(q.rs)), {0, 1, 2})
  /\ Is("script") => ScriptTableRight(Pad(Col(q.a), 70, 0), Pad(Col(q.b), 70, <<>>), {1, 2, 3}, {1}, 1000)
  /\ Is("cc") => LET f == Col(q.a) IN /\ CcTableRight(Pad(f, Cardinality(DOMAIN f) + 30, 0))
                                      /\ \A k \in DOMAIN q.a : CcRunRead(q.a[k][2])

\* lre_case_conv finds the upper case, the lower case and the folding of every
\* letter in the table of runs that unicode_gen makes of them.
CaseRight ==
  Is("case") => LET tab == Joined(q.S)
                IN CaseTableRight(tab, Neighbours(DOMAIN tab) \ (IF 1 \in q.S THEN (72..96) \cup (104..127) ELSE 0..127))

\* unicode_prop gives the set of every property that is stored as a difference
\* from others or computed from cases and categories.
PropsRight == Is("props") => PropertiesRight(q.db)

\* unicode_normalize gives the normal forms of a text: decomposed, in canonical
\* order, and composed again where no mark blocks it.
NormRight == Is("text") => NormalizeRight(RealDb, RealT, q.s)

\* unicode_decomp_char and unicode_compose_pair give back the decompositions
\* that unicode_gen packed into their tables.
DecompRight == Is("table") => (OffsetsFit(q.f) => DecompTableRight(q.f, 199..205, {<<65, 769>>, <<65, 770>>, <<97, 775>>}))

\* The functions of libbf round exactly as they are asked to.
BigNumbersRight == [][answered' => BigArithmetic /\ BigIntegers /\ BigCanRound]_<<q, answered>>

\* libunicode reads from the tables of unicode_gen what the database said:
\* properties, case, decompositions and normal forms.
UnicodeRight == [][answered' => TablesRead /\ CaseRight /\ PropsRight /\ NormRight /\ DecompRight]_<<q, answered>>
=============================================================================
