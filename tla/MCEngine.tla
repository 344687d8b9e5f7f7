------------------------------ MODULE MCEngine ------------------------------
(* An instance for TLC of the parts of the engine that execute: the regular  *)
(* expression compiler and its backtracking machine, the code of statements  *)
(* and the interpreter that runs it, typed arrays over shared bytes, and     *)
(* proxies.  Each behaviour exercises one of them.                           *)
EXTENDS Regexp, Statements, TypedArrays, Proxies

VARIABLE part    \* the component at work

-----------------------------------------------------------------------------
(* Patterns: what the text is meant to be (d), the flags, the subject and    *)
(* where matching starts; bad is for texts that are no pattern.              *)
F0 == [u |-> FALSE, i |-> FALSE, y |-> FALSE, m |-> FALSE, s |-> FALSE]
FU == [F0 EXCEPT !.u = TRUE]
FI == [F0 EXCEPT !.i = TRUE]
Ch(c) == RtChar(<<c>>, RxCodes[c])
ChA == Ch("a")
ChB == Ch("b")
Dot == RtStill("dot")
One(t) == <<<<t>>>>
Alt(s, t) == <<<<s>>, <<t>>>>
Star(t) == RtRep(t, 0, RtInf, TRUE, <<"*">>)
Maybe(t) == RtRep(t, 0, 1, TRUE, <<"?">>)
AorB == RtNon(Alt(ChA, ChB))
Word == RtClass(<<"\\", "w">>, FALSE, <<<<48, 57>>, <<65, 90>>, <<95, 95>>, <<97, 122>>>>)
NotB == RtClass(<<"[", "^", "b", "]">>, TRUE, <<<<98, 98>>>>)
AtoC == RtClass(<<"[", "a", "-", "c", "]">>, FALSE, <<<<97, 99>>>>)
Quants(t) ==
  {RtRep(t, q[1], q[2], g, q[3]) : g \in BOOLEAN, q \in {
     <<0, RtInf, <<"*">>>>, <<1, RtInf, <<"+">>>>, <<0, 1, <<"?">>>>, <<0, 0, <<"{", "0", "}">>>>,
     <<2, 2, <<"{", "2", "}">>>>, <<0, 2, <<"{", "0", ",", "2", "}">>>>,
     <<1, 2, <<"{", "1", ",", "2", "}">>>>, <<2, RtInf, <<"{", "2", ",", "}">>>>}}
(* Atoms that always move forward and always make the same captures. *)
RxAtoms == {ChA, AtoC, AorB, RtNon(<<<<RtStill("wordb"), ChA>>>>), RtNon(<<<<ChA, ChB>>>>), RtGroup(1, Alt(ChA, ChB)),
          RtNon(<<<<ChA, Star(ChB)>>>>), RtGroup(1, <<<<ChA, RtRep(ChB, 0, RtInf, FALSE, <<"*">>)>>>>),
          RtNon(<<<<RtLook(One(ChB), FALSE, TRUE), RtGroup(1, One(Dot))>>>>)}
Q1 == UNION {Quants(t) : t \in RxAtoms}
(* Atoms that may match nothing, without a capture. *)
Nullable == {RtNon(One(Maybe(ChA))), RtNon(One(Star(ChA))), RtNon(<<<<ChA>>, <<>>>>), RtLook(One(ChA), FALSE, FALSE)}
QN == UNION {{q \in Quants(t) : q.greedy /\ (q.max \in {1, RtInf} \/ q.min = q.max)} : t \in Nullable}
Quantified ==
  [d : {<<<<q, ChB>>>> : q \in Q1 \cup QN} \cup {<<<<RtLook(<<<<ChB, q>>>>, TRUE, n), ChB>>>> : q \in Q1, n \in {FALSE}},
   f : {F0}, u : {<<97, 97, 98>>, <<98, 97, 98, 98>>}, at : {0}, bad : {FALSE}]
Ref(n) == RtRef(<<"\\", IF n = 1 THEN "1" ELSE "2">>, n)
KRef(n, c) == RtRef(<<"\\", "k", "<", c, ">">>, n)
G1(t) == RtGroup(1, One(t))
Captured ==
  [d : {<<<<G1(q), Ref(1), RtStill("eol")>>>> : q \in {Star(ChA), Star(AorB), AorB, Maybe(Dot)}} \cup
       {<<<<RtLook(<<<<Ref(1), G1(q)>>>>, TRUE, FALSE), RtStill("eol")>>>> : q \in {Star(ChA), AorB, Dot}} \cup
       {<<<<RtLook(One(RtGroup(1, Alt(ChA, Dot))), FALSE, n), Star(Dot), Ref(1)>>>> : n \in BOOLEAN} \cup
       {<<<<Ref(2), G1(ChA), RtGroup(2, One(ChB)), Ref(2)>>>>,
        <<<<RtNon(<<<<G1(ChA)>>, <<RtGroup(2, One(ChB))>>>>), Ref(1), Ref(2)>>>>,
        <<<<RtNamed(1, <<"a">>, Alt(ChA, ChB)), KRef(1, "a")>>>>,
        <<<<KRef(2, "b"), RtNamed(1, <<"a">>, One(ChA)), RtNamed(2, <<"b">>, One(ChB)), KRef(2, "b")>>>>,
        <<<<Maybe(RtGroup(1, One(RtGroup(2, One(ChA))))), ChB, RtRep(RtNon(<<<<Maybe(RtGroup(3, One(ChA))), ChB>>>>), 2, 2,
              TRUE, <<"{", "2", "}">>)>>>>},
   f : {F0, [F0 EXCEPT !.y = TRUE], FI}, u : {<<97, 98, 98>>, <<97, 65, 98, 97>>, <<98, 98, 97, 98>>}, at : {0, 1}, bad : {FALSE}]
Emoji == RtChar(<<"\\", "u", "{", "1", "f", "6", "0", "0", "}">>, 128512)
EmojiPair == RtChar(<<"\\", "u", "d", "8", "3", "d", "\\", "u", "d", "e", "0", "0">>, 128512)
Lo == RtChar(<<"\\", "u", "d", "e", "0", "0">>, 56832)
Surrogates ==
  [d : {<<<<q, p>>>> : q \in {Star(Dot), Maybe(NotB), Star(Emoji), RtGroup(1, One(Dot)), RtLook(One(Emoji), TRUE, FALSE)},
                       p \in {ChA, EmojiPair, Lo, RtStill("eol"), RtNon(One(Star(NotB)))}} \cup
       {<<<<G1(Dot), Ref(1)>>>>, <<<<RtLook(<<<<Ref(1), G1(Dot)>>>>, TRUE, FALSE), Dot>>>>},
   f : {FU}, u : {<<55357, 56832, 97>>, <<56832, 55357, 56832>>, <<55357, 56832, 55357, 56832, 56832>>, <<55357, 97,
         56832>>}, at : {0}, bad : {FALSE}]
Cases ==
  [d : {<<<<t, s>>>> : t \in {ChA, Ch("B"), Word, NotB, AtoC, RtClass(<<"[", "^", "A", "]">>, TRUE, <<<<65, 65>>>>),
                              RtClass(<<"[", "\\", "W", "B", "-", "D",
                                    "]">>, FALSE, <<<<0, 47>>, <<58, 64>>, <<66, 68>>, <<91, 94>>, <<96, 96>>, <<123, 1000>>>>)},
                       s \in {Maybe(ChB), RtStill("eol"), RtStill("wordb"), RtStill("nwordb"), Dot}} \cup
       {<<<<RtStill("bol"), t, RtStill("eol")>>>> : t \in {ChA, Maybe(Dot), Ch("B")}},
   f : {FI, F0, [F0 EXCEPT !.m = TRUE], [F0 EXCEPT !.s = TRUE]},
   u : {<<65, 98>>, <<98, 10, 97>>, <<66, 32, 65>>, <<10>>}, at : {0}, bad : {FALSE}]
(* Texts of Annex ChB and of the error paths. *)
Chars(text, codes, flags) ==
  [d : {<<<<RtStill("bol"), RtChar(text, codes[1]), RtStill("eol")>>>>}, f : flags, u : {codes}, at : {0}, bad : {FALSE}]
Bad(text, flags) == [d : {<<<<RtChar(text, 0)>>>>}, f : flags, u : {<<97>>}, at : {0}, bad : {TRUE}]
BothModes == {F0, FU}
Texts ==
  UNION {Chars(<<"{">>, <<123>>, {F0}), Chars(<<"]">>, <<93>>, {F0}), Chars(<<"}">>, <<125>>, {F0}),
         Chars(<<"\\", "8">>, <<56>>, {F0}), Chars(<<"\\", "0">>, <<0>>, BothModes), Chars(<<"\\", "1", "0", "1">>, <<65>>, {F0}),
         Chars(<<"\\", "4", "1">>, <<33>>, {F0}), Chars(<<"\\", "0", "4", "1">>, <<33>>, {F0}), Chars(<<"\\", "c",
               "A">>, <<1>>, BothModes),
         Chars(<<"\\", "x", "4", "1">>, <<65>>, BothModes), Chars(<<"\\", "u", "0", "0", "4", "1">>, <<65>>, BothModes),
         Chars(<<"\\", "n">>, <<10>>, BothModes), Chars(<<"\\", "t">>, <<9>>, BothModes), Chars(<<"\\",
               "v">>, <<11>>, BothModes), Chars(<<"\\", "f">>, <<12>>, BothModes),
         Chars(<<"\\", "r">>, <<13>>, BothModes), Chars(<<"[", "\\", "b", "]">>, <<8>>, BothModes), Chars(<<"\\",
               "a">>, <<97>>, {F0}),
         Chars(<<"\\", ".">>, <<46>>, BothModes), Chars(<<"[", "\\", "c", "1", "]">>, <<17>>, {F0}), Chars(<<"[", "\\",
               "1", "2", "]">>, <<10>>, {F0}),
         Chars(<<"[", "\\", "3", "7", "7", "]">>, <<255>>, {F0}), Chars(<<"[", "a", "-", "\\", "d", "]">>, <<45>>, {F0}),
         Chars(<<"[", "\\", "d", "-", "a", "]">>, <<45>>, {F0}), Chars(<<"[", "^", "]">>, <<5>>, BothModes), Chars(<<"[",
               "a", "-", "]">>, <<45>>, BothModes),
         Bad(<<"*">>, BothModes), Bad(<<"a", "{", "2", ",", "1", "}">>, BothModes), Bad(<<"a", "{", "6", "0", "}">>,
               BothModes), Bad(<<"(", "a">>, BothModes),
         Bad(<<"a", ")">>, BothModes), Bad(<<"(", "?", "a", ")">>, BothModes), Bad(<<"[", "b", "-", "a", "]">>, BothModes),
               Bad(<<"[", "a">>, BothModes), Bad(<<"\\">>, BothModes),
         Bad(<<"(", "?", "<", "a", ">", "b", ")", "(", "?", "<", "a", ">", "b", ")">>, BothModes),
               Bad(<<"(", "?", "<", "1", ">", "b", ")">>, BothModes),
         Bad(<<"(", ")", "(", ")", "(", ")", "(", ")">>, BothModes), Bad(<<"{">>, {FU}), Bad(<<"a", "{">>, {FU}),
               Bad(<<"]">>, {FU}), Bad(<<"\\", "8">>, {FU}), Bad(<<"\\", "a">>, {FU}),
         Bad(<<"\\", "0", "1">>, {FU}), Bad(<<"\\", "k">>, {FU}), Bad(<<"\\", "k", "<", "a",
               ">">>, {FU}), Bad(<<"\\", "c">>, {FU}), Bad(<<"[", "\\", "d", "-", "a", "]">>, {FU}),
         Bad(<<"\\", "u", "{", "1", "1", "0", "0", "0", "0", "}">>, {FU}), Bad(<<"\\", "k", "(", "?", "<", "a", ">", ")">>, {F0}),
         Bad(<<"(", "?", "=", "a", ")", "*">>, {FU}), Bad(<<"(", "?", "<", "=", "a", ")", "*">>, BothModes),
               Bad(<<"^", "*">>, BothModes),
         Bad(<<"(", "?", ":", "(", "?", ":", "(", "?", ":", "(", "?", ":", "(", "?", ":", "a", "b", "*", "?", ")", "{", "2", "}", "b", ")", "{", "2", "}", "b", ")", "{", "2", "}", "b", ")", "{", "2", "}", "b", ")", "{", "2", "}">>, {F0})}
Odd == {[d |-> <<<<RtChar(<<"\\">>, 92), Ch("c"), RtStill("eol")>>>>, f |-> F0, u |-> <<92, 99>>, at |-> 0, bad |-> FALSE],
        [d |-> <<<<RtChar(<<"\\", "k">>, 107), Ch("<"), ChA, Ch(">")>>>>, f |-> F0, u |-> <<107, 60, 97, 62>>, at |-> 0, bad |-> FALSE],
        [d |-> <<<<RtChar(<<"\\", "u">>, 117), RtRep(ChA, 1, 1, TRUE, <<>>), Ch("{"), Ch(","), Ch("}")>>>>, f |-> F0, u |-> <<117, 97, 123, 44, 125>>, at |-> 0, bad |-> FALSE],
        [d |-> <<<<RtClass(<<"[", "]">>, FALSE, <<>>)>>>>, f |-> F0, u |-> <<97>>, at |-> 0, bad |-> FALSE]}

-----------------------------------------------------------------------------
(* Function bodies: a loop, switch or label around a try statement or around *)
(* another, and a try statement around a loop.                               *)
Leaves == {Effect(1), ThrowStmt(2), Return(3), Return(0), Break(""), Continue(""), Break("a")}
FewLeaves == {Effect(1), Return(3), Break("")}
Optional(X) == {<<>>} \cup {<<<<x>>>> : x \in X}
Tries(X, Y, Z) == {Try(<<x>>, y, z) : x \in X, y \in Optional(Y), z \in Optional(Z)} \ {Try(<<x>>, <<>>, <<>>) : x \in X}
SwitchOn(v, x) == Switch(v, <<[vs |-> <<1>>, body |-> <<x>>], [vs |-> <<>>, body |-> <<Effect(4)>>],
                              [vs |-> <<2, 3>>, body |-> <<Effect(5)>>]>>)
LoopsOf(x) ==
  {While(x), DoWhile(x), For(x), ForIn(2, x), ForOf(2, "good", x), ForOf(2, "bad_next", x), ForOf(2, "bad_return", x),
   Labelled("a", While(x)), Labelled("a", Block(<<x>>)), Labelled("a", ForOf(2, "good", x)),
   SwitchOn(1, x), SwitchOn(3, x)}
StartsWith(p) == VmInit(<<p, Effect(10)>>)
StartsProgram ==
  \/ \E x \in Leaves \cup Tries(Leaves, FewLeaves, FewLeaves \cup {ThrowStmt(2)}) : \E p \in LoopsOf(x) : StartsWith(p)
  \/ \E x \in Leaves : \E y \in LoopsOf(x) : \E p \in LoopsOf(y) : StartsWith(p)
  \/ \E x \in Leaves : \E y \in LoopsOf(x) : \E p \in Tries({y}, {Effect(6)}, {Effect(7), Return(8), ThrowStmt(9)}) : StartsWith(p)

-----------------------------------------------------------------------------
(* Typed arrays: views of two element sizes on the same bytes.               *)
Buffer(d, l) == [data |-> d, detached |-> FALSE, list |-> l, live |-> TRUE]
ViewOn(c, b, o, n) == [cls |-> c, buf |-> b, off |-> o, len |-> n,
      count |-> IF c = "DataView" THEN 0 ELSE n \div typed_array_size(c), live |-> TRUE]
TaExamples == {[bufs |-> <<Buffer(<<1, 2, 254, 255>>, <<1, 2>>)>>, views |-> <<ViewOn("Uint8C", 1, 0, 4), ViewOn("Int16",
      1, 2, 2)>>],
           [bufs |-> <<Buffer(<<255, 255, 0, 1>>, <<1, 2>>), Buffer(<<7, 8>>, <<3>>)>>, views |-> <<ViewOn("Int16", 1, 0,
                 4), ViewOn("Int8", 1, 1, 3), ViewOn("DataView", 2, 0, 2)>>]}
NoBuffers == [bufs |-> <<>>, views |-> <<>>]
MCTaScenes == TaExamples \cup {NoBuffers}
MCTaValues == {-2, 258}
MCTaPos == {-1, 0, 1, 2}

-----------------------------------------------------------------------------
StartsMatch ==
    \/ \E call \in Quantified : RxInit(call)
    \/ \E call \in Captured : RxInit(call)
    \/ \E call \in Surrogates : RxInit(call)
    \/ \E call \in Cases : RxInit(call)
    \/ \E call \in Texts \cup Odd : RxInit(call)

EngineInit ==
    /\ part \in {"regexp", "statements", "arrays", "proxies"}
    /\ IF part = "regexp" THEN StartsMatch ELSE RxInit(<<>>)
    /\ IF part = "statements" THEN StartsProgram ELSE VmInit(<<>>)
    /\ IF part = "arrays" THEN taWorld \in TaExamples ELSE taWorld = NoBuffers
    /\ TaInit /\ PxInit
    /\ part # "proxies" => pxTarget.proto = 0 /\ ~pxTarget.nested

EngineNext ==
    /\ UNCHANGED part
    /\ \/ part = "regexp" /\ RxNext /\ UNCHANGED <<vmVars, taVars, pxVars>>
       \/ part = "statements" /\ VmNext /\ UNCHANGED <<rxVars, taVars, pxVars>>
       \/ part = "arrays" /\ TaNext /\ UNCHANGED <<rxVars, vmVars, pxVars>>
       \/ part = "proxies" /\ PxNext /\ UNCHANGED <<rxVars, vmVars, taVars>>

EngineSpec == EngineInit /\ [][EngineNext]_<<part, rxVars, vmVars, taVars, pxVars>>
=============================================================================
