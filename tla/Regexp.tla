------------------------------- MODULE Regexp -------------------------------
(****************************************************************************)
(* The regular expression compiler of libregexp.c: a recursive descent over *)
(* the pattern that emits backtracking bytecode as it goes.  A pattern is   *)
(* the sequence of its characters; the bytecode is a sequence of            *)
(* instructions, and a jump counts instructions from the one that follows   *)
(* it, where the code counts bytes.                                         *)
(*                                                                          *)
(* The parse state holds the position, the code emitted so far, the number  *)
(* of captures and the names of the groups; an error stops the parse.       *)
(****************************************************************************)
EXTENDS CharRange, TLC

CONSTANTS RxInf,          \* INT32_MAX: "no upper limit", and the first count refused
          RxCaptureMax,   \* CAPTURE_COUNT_MAX
          RxStackMax      \* STACK_SIZE_MAX

(* The characters patterns are written with, and their codes.               *)
RxPairs ==
  {<<"\\", 92>>, <<"^", 94>>, <<"$", 36>>, <<".", 46>>, <<"*", 42>>, <<"+", 43>>, <<"?", 63>>,
   <<"(", 40>>, <<")", 41>>, <<"[", 91>>, <<"]", 93>>, <<"{", 123>>, <<"}", 125>>, <<"|", 124>>,
   <<"/", 47>>, <<":", 58>>, <<"=", 61>>, <<"!", 33>>, <<"<", 60>>, <<">", 62>>, <<",", 44>>,
   <<"-", 45>>, <<"_", 95>>, <<"0", 48>>, <<"1", 49>>, <<"2", 50>>, <<"3", 51>>, <<"4", 52>>,
   <<"5", 53>>, <<"6", 54>>, <<"7", 55>>, <<"8", 56>>, <<"9", 57>>, <<"A", 65>>, <<"B", 66>>,
   <<"D", 68>>, <<"E", 69>>, <<"W", 87>>, <<"S", 83>>, <<"a", 97>>, <<"b", 98>>, <<"c", 99>>,
   <<"d", 100>>, <<"e", 101>>, <<"f", 102>>, <<"k", 107>>, <<"n", 110>>, <<"r", 114>>,
   <<"s", 115>>, <<"t", 116>>, <<"u", 117>>, <<"v", 118>>, <<"w", 119>>, <<"x", 120>>}

RxCodes == [c \in {pair[1] : pair \in RxPairs} |-> (CHOOSE pair \in RxPairs : pair[1] = c)[2]] @@ ("" :> 0)

Digit(c) == c \in {"0", "1", "2", "3", "4", "5", "6", "7", "8", "9"}
Octal(c) == c \in {"0", "1", "2", "3", "4", "5", "6", "7"}
Letter(c) == RxCodes[c] \in (65..90) \cup (97..122)
HexDigit(k) == CASE k \in 48..57 -> k - 48
                 [] k \in 65..70 -> k - 55
                 [] k \in 97..102 -> k - 87
                 [] OTHER -> -1
HexValue(c) == HexDigit(RxCodes[c])

(* The character at p; past the end the terminating zero is read.           *)
At(t, p) == IF p <= Len(t) THEN t[p] ELSE ""

----------------------------------------------------------------------------
(* The parser is one recursive descent, from here to re_parse_disjunction.   *)
RECURSIVE re_parse_disjunction(_, _, _, _)

(* parse_digits: the value and the position after it; -1 on overflow.       *)
RECURSIVE DigitsFrom(_, _, _)
DigitsFrom(t, p, v) ==
  IF ~Digit(At(t, p)) THEN [v |-> v, p |-> p]
  ELSE LET w == v * 10 + RxCodes[t[p]] - 48
       IN IF w >= RxInf THEN [v |-> -1, p |-> p] ELSE DigitsFrom(t, p + 1, w)

parse_digits(t, p) == DigitsFrom(t, p, 0)

RECURSIVE HexFrom(_, _, _, _)
HexFrom(t, p, n, v) ==
  IF n = 0 THEN v
  ELSE IF HexValue(At(t, p)) < 0 THEN -1
  ELSE HexFrom(t, p + 1, n - 1, v * 16 + HexValue(t[p]))

RECURSIVE BraceHex(_, _, _)
BraceHex(t, p, w) ==
  IF w < 0 \/ w > 1114111 THEN [c |-> -1, p |-> p]
  ELSE IF At(t, p) = "}" THEN [c |-> w, p |-> p + 1]
  ELSE BraceHex(t, p + 1, IF HexValue(At(t, p)) < 0 THEN -1 ELSE w * 16 + HexValue(t[p]))

HighSurrogate(c) == c \in 55296..56319
LowSurrogate(c) == c \in 56320..57343
Pair(hi, lo) == (hi % 1024) * 1024 + (lo % 1024) + 65536

(* lre_parse_escape, for a regular expression: p is after the backslash.    *)
(* c = -1: malformed; c = -2: not an escape this function knows.            *)
JoinSurrogates(v, lo, q) == IF LowSurrogate(lo) THEN [c |-> Pair(v, lo), p |-> q + 6] ELSE [c |-> v, p |-> q]
EscapedHex(t, q, v, unicode) ==
  IF unicode /\ HighSurrogate(v) /\ At(t, q) = "\\" /\ At(t, q + 1) = "u"
  THEN JoinSurrogates(v, HexFrom(t, q + 2, 4, 0), q)
  ELSE [c |-> v, p |-> q]

EscapedOctal(t, p, v, unicode) ==
  LET w == v * 8 + RxCodes[At(t, p + 1)] - 48
  IN IF unicode THEN [c |-> IF v # 0 \/ Digit(At(t, p + 1)) THEN -1 ELSE 0, p |-> p + 1]
     ELSE IF ~Octal(At(t, p + 1)) THEN [c |-> v, p |-> p + 1]
     ELSE IF w >= 32 \/ ~Octal(At(t, p + 2)) THEN [c |-> w, p |-> p + 2]
     ELSE [c |-> w * 8 + RxCodes[t[p + 2]] - 48, p |-> p + 3]

RxControls == {<<"b", 8>>, <<"f", 12>>, <<"n", 10>>, <<"r", 13>>, <<"t", 9>>, <<"v", 11>>}

lre_parse_escape(t, p, unicode) ==
  LET c == At(t, p)
  IN CASE \E k \in RxControls : k[1] = c -> [c |-> (CHOOSE k \in RxControls : k[1] = c)[2], p |-> p + 1]
       [] c \in {"x", "u"} /\ At(t, p + 1) = "{" /\ unicode -> BraceHex(t, p + 3, HexValue(At(t, p + 2)))
       [] c \in {"x", "u"} /\ ~(At(t, p + 1) = "{" /\ unicode) ->
            LET n == IF c = "x" THEN 2 ELSE 4 IN EscapedHex(t, p + 1 + n, HexFrom(t, p + 1, n, 0), unicode)
       [] Octal(c) -> EscapedOctal(t, p, RxCodes[c] - 48, unicode)
       [] OTHER -> [c |-> -2, p |-> p]

----------------------------------------------------------------------------
(* get_class_atom: one character, or a predefined class.  c = -1: error.    *)
RxClass == 1073741824
RxErr(p) == [c |-> -1, cr |-> <<>>, p |-> p]
RxSyntax == {"^", "$", "\\", ".", "*", "+", "?", "(", ")", "[", "]", "{", "}", "|", "/"}

(* The character e after a backslash, which lre_parse_escape read as esc.   *)
ClassEscape(p, e, esc, unicode) ==
  CASE esc.c >= 0 -> [c |-> esc.c, cr |-> <<>>, p |-> esc.p]
    [] esc.c < 0 /\ unicode /\ ~(esc.c = -2 /\ e \in RxSyntax) -> RxErr(p)
    [] esc.c < 0 /\ (~unicode \/ (esc.c = -2 /\ e \in RxSyntax)) -> [c |-> RxCodes[e], cr |-> <<>>, p |-> p + 2]

get_class_atom(t, p, inclass, unicode) ==
  LET c == At(t, p)
      e == At(t, p + 1)
      x == At(t, p + 2)
      One(v, q) == [c |-> v, cr |-> <<>>, p |-> q]
  IN IF c = "" THEN RxErr(p)
     ELSE IF c # "\\" THEN One(RxCodes[c], p + 1)
     ELSE IF e = "" THEN RxErr(p)
     ELSE IF e \in {"d", "D", "s", "S", "w", "W"}
     THEN [c |-> RxClass, cr |-> cr_init_char_range(e), p |-> p + 2]
     ELSE IF e = "c"
     THEN IF Letter(x) \/ ((Digit(x) \/ x = "_") /\ inclass /\ ~unicode) THEN One(RxCodes[x] % 32, p + 3)
          ELSE IF unicode THEN RxErr(p)
          ELSE One(92, p + 1)
     ELSE ClassEscape(p, e, lre_parse_escape(t, p + 1, unicode), unicode)

(* The members of a class, from the character after the bracket to the one  *)
(* that closes it.                                                          *)
RECURSIVE ClassItems(_, _, _, _)
ClassAlone(t, cr, a, unicode) ==
  ClassItems(t, a.p, IF a.c = RxClass THEN cr_union1(cr, a.cr) ELSE cr_union_interval(cr, a.c, a.c), unicode)

ClassInterval(t, p, cr, a, b, unicode) ==
  IF b.c < 0 THEN RxErr(p)
  ELSE IF b.c = RxClass THEN (IF unicode THEN RxErr(p) ELSE ClassAlone(t, cr, a, unicode))
  ELSE IF b.c < a.c THEN RxErr(p)
  ELSE ClassItems(t, b.p, cr_union_interval(cr, a.c, b.c), unicode)

ClassMember(t, p, cr, a, unicode) ==
  IF a.c < 0 THEN RxErr(p)
  ELSE IF At(t, a.p) # "-" \/ At(t, a.p + 1) = "]" THEN ClassAlone(t, cr, a, unicode)
  ELSE IF a.c = RxClass THEN (IF unicode THEN RxErr(p) ELSE ClassAlone(t, cr, a, unicode))
  ELSE ClassInterval(t, p, cr, a, get_class_atom(t, a.p + 1, TRUE, unicode), unicode)

ClassItems(t, p, cr, unicode) ==
  IF At(t, p) = "]" THEN [c |-> 0, cr |-> cr, p |-> p + 1]
  ELSE ClassMember(t, p, cr, get_class_atom(t, p, TRUE, unicode), unicode)

(* re_parse_char_class: p is at the opening bracket.                        *)
FoldClass(items, i) == IF i THEN [items EXCEPT !.cr = cr_canonicalize(@)] ELSE items
InvertClass(items, neg) == IF neg THEN [items EXCEPT !.cr = cr_invert(@)] ELSE items

re_parse_char_class(t, p, f) ==
  LET neg == At(t, p + 1) = "^"
  IN InvertClass(FoldClass(ClassItems(t, IF neg THEN p + 2 ELSE p + 1, <<>>, f.u), f.i), neg)

----------------------------------------------------------------------------
(* re_parse_group_name: p is after the angle bracket.  ok is FALSE for a    *)
(* malformed name.                                                          *)
RECURSIVE NameFrom(_, _, _, _)
NameChar(t, q, name, code, unicode) ==
  IF code \in (65..90) \cup (97..122) \cup {36, 95} \/ (name # <<>> /\ code \in 48..57)
  THEN NameFrom(t, q, Append(name, code), unicode)
  ELSE [ok |-> FALSE, name |-> <<>>, p |-> q]

NameEscape(t, name, esc, unicode) == NameChar(t, esc.p, name, esc.c, unicode)

NameFrom(t, p, name, unicode) ==
  LET c == At(t, p)
  IN CASE c = ">" -> [ok |-> name # <<>>, name |-> name, p |-> p + 1]
       [] c = "\\" /\ At(t, p + 1) = "u" -> NameEscape(t, name, lre_parse_escape(t, p + 1, unicode), unicode)
       [] c = "\\" /\ At(t, p + 1) # "u" -> [ok |-> FALSE, name |-> <<>>, p |-> p]
       [] c \notin {">", "\\"} -> NameChar(t, p + 1, name, RxCodes[c], unicode)

re_parse_group_name(t, p, unicode) == NameFrom(t, p, <<>>, unicode)

(* re_parse_captures: the whole pattern is scanned for groups.  Without a   *)
(* name the result is the number of captures; with one, the index of the    *)
(* group of that name, or -1.  After a name has been read the scan goes on  *)
(* one character too far: p is left after the closing bracket and the loop  *)
(* advances it again.                                                       *)
RECURSIVE ClassEnd(_, _)
ClassEnd(t, p) == IF p > Len(t) \/ t[p] = "]" THEN p ELSE ClassEnd(t, IF t[p] = "\\" THEN p + 2 ELSE p + 1)

RECURSIVE CapturesFrom(_, _, _, _, _)
NamedGroup(t, p) == t[p] = "(" /\ At(t, p + 1) = "?" /\ At(t, p + 2) = "<" /\ At(t, p + 3) \notin {"=", "!"}

CaptureNamed(t, p, name, unicode, r, g) ==
  IF g.ok /\ g.name = name THEN r
  ELSE CapturesFrom(t, IF g.ok THEN g.p + 1 ELSE p + 4, name, unicode, [k |-> r.k + 1, named |-> TRUE])

CapturesFrom(t, p, name, unicode, r) ==
  LET Go(q, n, named) == CapturesFrom(t, q, name, unicode, [k |-> r.k + n, named |-> r.named \/ named])
  IN IF p > Len(t) THEN (IF name = <<>> THEN r ELSE [r EXCEPT !.k = -1])
     ELSE IF NamedGroup(t, p) /\ name # <<>>
     THEN CaptureNamed(t, p, name, unicode, r, re_parse_group_name(t, p + 3, unicode))
     ELSE LET group == t[p] = "(" /\ (At(t, p + 1) # "?" \/ NamedGroup(t, p))
              q == CASE t[p] = "\\" -> p + 2
                     [] t[p] = "[" -> ClassEnd(t, p + 1) + 1
                     [] t[p] \notin {"\\", "["} -> p + 1
          IN Go(q, IF group THEN 1 ELSE 0, NamedGroup(t, p))

re_parse_captures(t, name, unicode) == CapturesFrom(t, 1, name, unicode, [k |-> 1, named |-> FALSE])

re_count_captures(t, unicode) == re_parse_captures(t, <<>>, unicode).k

re_has_named_captures(t, unicode) == re_parse_captures(t, <<>>, unicode).named

(* find_group_name: among the groups already parsed.                        *)
find_group_name(names, name) ==
  IF \E k \in 1..Len(names) : names[k] = name
  THEN CHOOSE k \in 1..Len(names) : names[k] = name /\ \A j \in 1..(k - 1) : names[j] # name
  ELSE -1
----------------------------------------------------------------------------
(* Emitting code.                                                           *)
Ins(op) == [op |-> op, v |-> 0]
Ins1(op, v) == [op |-> op, v |-> v]
Put(s, ins) == [s EXCEPT !.code = @ \o ins]
Insert(code, k, ins) == SubSeq(code, 1, k) \o ins \o SubSeq(code, k + 1, Len(code))
RxFail(s) == [s EXCEPT !.err = TRUE]

CharOps == {"char", "range", "range32", "dot", "any"}
StillOps == {"line_start", "line_end", "word_boundary", "not_word_boundary"}
QuietOps == StillOps \cup {"push_i32", "push_char_pos", "drop", "prev", "save_start", "save_end",
                          "save_reset", "back_reference", "backward_back_reference"}

(* re_check_advance: 1 when the code always moves forward, 0 when it may    *)
(* not, -1 when it refers back to a capture it makes itself.                *)
re_check_advance(code) ==
  LET Operands(ops) == {code[i].v : i \in {i \in 1..Len(code) : code[i].op \in ops}}
      resets == {i \in 1..Len(code) : code[i].op = "save_reset"}
      made == Operands({"save_start", "save_end"}) \cup
              UNION {code[i].v[1]..(code[i].v[2] - 1) : i \in resets}
      loud == {i \in 1..Len(code) : code[i].op \notin QuietOps}
      first == CHOOSE i \in loud : \A j \in loud : i <= j
  IN IF made \cap Operands({"back_reference", "backward_back_reference"}) # {} THEN -1
     ELSE IF loud # {} /\ code[first].op \in CharOps THEN 1 ELSE 0

(* A plausible slip: an atom of several characters counted as one.          *)
CountsOne(code) ==
  IF \/ \E i \in 1..Len(code) : code[i].op \notin CharOps \cup StillOps
     \/ \A i \in 1..Len(code) : code[i].op \notin CharOps
  THEN -1 ELSE 1

(* re_is_simple_quantifier: the number of characters of an atom without     *)
(* captures and jumps, -1 for any other.                                    *)
re_is_simple_quantifier(code) ==
  IF \E i \in 1..Len(code) : code[i].op \notin CharOps \cup StillOps THEN -1
  ELSE Cardinality({i \in 1..Len(code) : code[i].op \in CharOps})

(* The second half of re_parse_term: the code of a quantified atom.  at is  *)
(* where the atom starts, lc the number of captures before it.              *)
EmitQuantifier(s, at, lc, min, max, greedy) ==
  LET pre == SubSeq(s.code, 1, at)
      atom == SubSeq(s.code, at + 1, Len(s.code))
      len == Len(atom)
      simple == re_is_simple_quantifier(atom)
      check == greedy /\ re_check_advance(atom) = 0
      z == IF check THEN 1 ELSE 0
      Split(n) == Ins1(IF greedy THEN "split_next_first" ELSE "split_goto_first", n)
      reset == IF min = 0 /\ lc # s.cc THEN <<Ins1("save_reset", <<lc, s.cc - 1>>)>> ELSE <<>>
      star == <<Split(len + 1 + z)>> \o (IF check THEN <<Ins("push_char_pos")>> ELSE <<>>) \o atom
              \o <<Ins1(IF check THEN "bne_char_pos" ELSE "goto", -(len + 2 + z))>>
      UpTo(n) == <<Ins1("push_i32", n), Split(len + 1)>> \o atom \o <<Ins1("loop", -(len + 2)), Ins("drop")>>
      Times(n) == IF n = 1 THEN atom
                  ELSE <<Ins1("push_i32", n)>> \o atom \o <<Ins1("loop", -(len + 1)), Ins("drop")>>
      code ==
        CASE greedy /\ max > 0 /\ simple > 0 ->
               <<[op |-> "simple_greedy_quant", v |-> len + 1, min |-> min, max |-> max, n |-> simple]>>
               \o atom \o <<Ins("match")>>
          [] min = 0 /\ ~(greedy /\ max > 0 /\ simple > 0) ->
               reset \o (CASE max = 0 -> <<>>
                          [] max = 1 -> <<Split(len)>> \o atom
                          [] max = RxInf -> star
                          [] max \notin {0, 1, RxInf} -> UpTo(max))
          [] min > 0 /\ ~(greedy /\ max > 0 /\ simple > 0) ->
               IF min = 1 /\ max = RxInf /\ ~check
               THEN atom \o <<Ins1(IF greedy THEN "split_goto_first" ELSE "split_next_first", -(len + 1))>>
               ELSE Times(min) \o (IF max = RxInf THEN star
                                   ELSE IF max > min THEN UpTo(max - min) ELSE <<>>)
  IN [s EXCEPT !.code = pre \o code]

(* The quantifier in the text at p, if there is one.                        *)
NoQuantifier(kind) == [kind |-> kind, min |-> 0, max |-> 0, greedy |-> TRUE, p |-> 0]
Quantifier(t, min, max, q) == [kind |-> "some", min |-> min, max |-> max, greedy |-> At(t, q) # "?",
                               p |-> IF At(t, q) = "?" THEN q + 1 ELSE q]
QuantifierTo(t, lo, hi) ==
  IF lo.v < 0 \/ hi.v < lo.v \/ At(t, hi.p) # "}" THEN NoQuantifier("error")
  ELSE Quantifier(t, lo.v, hi.v, hi.p + 1)
QuantifierFrom(t, lo) ==
  QuantifierTo(t, lo, IF At(t, lo.p) # "," THEN lo
                      ELSE IF Digit(At(t, lo.p + 1)) THEN parse_digits(t, lo.p + 1)
                      ELSE [v |-> RxInf, p |-> lo.p + 1])

QuantifierAt(t, p, unicode) ==
  LET c == At(t, p)
  IN CASE c = "*" -> Quantifier(t, 0, RxInf, p + 1)
       [] c = "+" -> Quantifier(t, 1, RxInf, p + 1)
       [] c = "?" -> Quantifier(t, 0, 1, p + 1)
       [] c = "{" /\ ~Digit(At(t, p + 1)) -> NoQuantifier(IF unicode THEN "error" ELSE "none")
       [] c = "{" /\ Digit(At(t, p + 1)) -> QuantifierFrom(t, parse_digits(t, p + 1))
       [] OTHER -> NoQuantifier("none")

(* "\1" to "\9" when there is no such capture: an octal escape, or the      *)
(* digit itself (Annex B).  q is the position of the first digit.           *)
LegacyOctal(t, q) ==
  LET D(p) == RxCodes[At(t, p)] - 48
      v0 == IF D(q) <= 3 THEN D(q) ELSE 0
      q0 == IF D(q) <= 3 THEN q + 1 ELSE q
      n == IF ~Octal(At(t, q0)) THEN 0 ELSE IF ~Octal(At(t, q0 + 1)) THEN 1 ELSE 2
  IN IF D(q) > 7 THEN [c |-> RxCodes[t[q]], p |-> q + 1]
     ELSE [c |-> CASE n = 0 -> v0
                   [] n = 1 -> v0 * 8 + D(q0)
                   [] n = 2 -> (v0 * 8 + D(q0)) * 8 + D(q0 + 1),
           p |-> q0 + n]

----------------------------------------------------------------------------
(* An atom: the state after it, and whether a quantifier may follow.        *)
Atom(s, quantifiable) == [s |-> s, q |-> quantifiable]

CharAtom(s, ins, p, back) ==
  LET prev == IF back THEN <<Ins("prev")>> ELSE <<>>
  IN Atom([Put(s, prev \o <<ins>> \o prev) EXCEPT !.p = p], TRUE)

CharIns(c, f) == Ins1("char", IF f.i THEN lre_canonicalize(c, f.u) ELSE c)

EmitClassAtom(s, a, back, f) ==
  IF a.c < 0 THEN Atom(RxFail(s), FALSE)
  ELSE CharAtom(s, IF a.c = RxClass THEN re_emit_range(a.cr) ELSE CharIns(a.c, f), a.p, back)

ClassAtom(t, s, back, f) == EmitClassAtom(s, get_class_atom(t, s.p, FALSE, f.u), back, f)

(* What is inside a pair of parentheses, and the parenthesis that closes.   *)
Closed(t, d) == IF d.err \/ At(t, d.p) # ")" THEN RxFail(d) ELSE [d EXCEPT !.p = @ + 1]
Inside(t, s, p, back, f) == Closed(t, re_parse_disjunction(t, [s EXCEPT !.p = p], back, f))

EndLook(d, pos) == IF d.err THEN d ELSE [Put(d, <<Ins("match")>>) EXCEPT !.code[pos].v = Len(d.code) + 1 - pos]
Lookaround(t, s, p, behind, neg, f) ==
  Atom(EndLook(Inside(t, Put(s, <<Ins(IF neg THEN "negative_lookahead" ELSE "lookahead")>>), p, behind, f),
               Len(s.code) + 1),
       ~f.u /\ ~behind)

EndCapture(d, k, back) == IF d.err THEN d ELSE Put(d, <<Ins1(IF back THEN "save_start" ELSE "save_end", k)>>)
Capture(t, s, p, name, back, f) ==
  IF s.cc >= RxCaptureMax THEN Atom(RxFail(s), FALSE)
  ELSE LET s1 == [Put(s, <<Ins1(IF back THEN "save_end" ELSE "save_start", s.cc)>>)
                    EXCEPT !.cc = @ + 1, !.names = Append(@, name)]
       IN Atom(EndCapture(Inside(t, s1, p, back, f), s.cc, back), TRUE)

NamedCapture(t, s, g, back, f) ==
  IF ~g.ok \/ find_group_name(s.names, g.name) > 0 THEN Atom(RxFail(s), FALSE)
  ELSE Capture(t, s, g.p, g.name, back, f)

Group(t, s, back, f) ==
  LET p == s.p
      c1 == At(t, p + 1)
      c2 == At(t, p + 2)
      c3 == At(t, p + 3)
  IN CASE c1 # "?" -> Capture(t, s, p + 1, <<>>, back, f)
       [] c1 = "?" /\ c2 = ":" -> Atom(Inside(t, s, p + 3, back, f), TRUE)
       [] c1 = "?" /\ c2 \in {"=", "!"} -> Lookaround(t, s, p + 3, FALSE, c2 = "!", f)
       [] c1 = "?" /\ c2 = "<" /\ c3 \in {"=", "!"} -> Lookaround(t, s, p + 4, TRUE, c3 = "!", f)
       [] c1 = "?" /\ c2 = "<" /\ c3 \notin {"=", "!"} ->
            NamedCapture(t, s, re_parse_group_name(t, p + 3, f.u), back, f)
       [] c1 = "?" /\ c2 \notin {":", "=", "!", "<"} -> Atom(RxFail(s), FALSE)

BackReference(s, k, p, back) ==
  Atom([Put(s, <<Ins1(IF back THEN "backward_back_reference" ELSE "back_reference", k)>>) EXCEPT !.p = p], TRUE)

(* The group of a name: one parsed already, or one still to come; -1 if none. *)
GroupNamed(t, s, g, f) ==
  LET here == find_group_name(s.names, g.name)
  IN IF ~g.ok THEN -1 ELSE IF here >= 0 THEN here ELSE re_parse_captures(t, g.name, f.u).k

ReferTo(t, s, k, p, back, f) ==
  IF k >= 0 THEN BackReference(s, k, p, back)
  ELSE IF f.u \/ re_has_named_captures(t, f.u) THEN Atom(RxFail(s), FALSE)
  ELSE ClassAtom(t, s, back, f)

ReferByName(t, s, g, back, f) == ReferTo(t, s, GroupNamed(t, s, g, f), g.p, back, f)

NamedReference(t, s, back, f) ==
  IF At(t, s.p + 2) = "<" THEN ReferByName(t, s, re_parse_group_name(t, s.p + 3, f.u), back, f)
  ELSE ReferTo(t, s, -1, 0, back, f)

EmitChar(s, o, back, f) == CharAtom(s, CharIns(o.c, f), o.p, back)

ReferByNumber(t, s, d, back, f) ==
  IF d.v >= 0 /\ (d.v < s.cc \/ d.v < re_count_captures(t, f.u)) THEN BackReference(s, d.v, d.p, back)
  ELSE IF f.u THEN Atom(RxFail(s), FALSE)
  ELSE EmitChar(s, LegacyOctal(t, s.p + 1), back, f)

NumberReference(t, s, back, f) == ReferByNumber(t, s, parse_digits(t, s.p + 1), back, f)

(* "\0": no decimal digit may follow in Unicode mode, up to two octal ones  *)
(* may otherwise.                                                           *)
ZeroEscape(t, s, back, f) ==
  LET D(p) == RxCodes[At(t, p)] - 48
      n == IF ~Octal(At(t, s.p + 2)) THEN 0 ELSE IF ~Octal(At(t, s.p + 3)) THEN 1 ELSE 2
      c == CASE n = 0 -> 0 [] n = 1 -> D(s.p + 2) [] n = 2 -> D(s.p + 2) * 8 + D(s.p + 3)
  IN IF f.u /\ Digit(At(t, s.p + 2)) THEN Atom(RxFail(s), FALSE)
     ELSE CharAtom(s, CharIns(IF f.u THEN 0 ELSE c, f), s.p + 2 + (IF f.u THEN 0 ELSE n), back)

EmitClass(s, cls, back) ==
  IF cls.c < 0 THEN Atom(RxFail(s), FALSE) ELSE CharAtom(s, re_emit_range(cls.cr), cls.p, back)

ParseAtom(t, s, back, f) ==
  LET c == At(t, s.p)
      e == At(t, s.p + 1)
      Still(op, n) == Atom([Put(s, <<Ins(op)>>) EXCEPT !.p = @ + n], FALSE)
  IN CASE c = "^" -> Still("line_start", 1)
       [] c = "$" -> Still("line_end", 1)
       [] c = "." -> CharAtom(s, Ins(IF f.s THEN "any" ELSE "dot"), s.p + 1, back)
       [] c = "{" /\ ~Digit(e) -> IF f.u THEN Atom(RxFail(s), FALSE) ELSE ClassAtom(t, s, back, f)
       [] c \in {"*", "+", "?"} \/ (c = "{" /\ Digit(e)) -> Atom(RxFail(s), FALSE)
       [] c = "(" -> Group(t, s, back, f)
       [] c = "\\" /\ e \in {"b", "B"} -> Still(IF e = "b" THEN "word_boundary" ELSE "not_word_boundary", 2)
       [] c = "\\" /\ e = "k" -> NamedReference(t, s, back, f)
       [] c = "\\" /\ e = "0" -> ZeroEscape(t, s, back, f)
       [] c = "\\" /\ Digit(e) /\ e # "0" -> NumberReference(t, s, back, f)
       [] c = "[" -> EmitClass(s, re_parse_char_class(t, s.p, f), back)
       [] c \in {"]", "}"} -> IF f.u THEN Atom(RxFail(s), FALSE) ELSE ClassAtom(t, s, back, f)
       [] OTHER -> ClassAtom(t, s, back, f)

(* The quantifier q that follows the atom a; s is the state before the atom. *)
AddQuantifier(s, a, q) ==
  CASE a.s.err \/ ~a.q \/ q.kind = "none" -> a.s
    [] ~a.s.err /\ a.q /\ q.kind = "error" -> RxFail(a.s)
    [] ~a.s.err /\ a.q /\ q.kind = "some" ->
         [EmitQuantifier(a.s, Len(s.code), s.cc, q.min, q.max, q.greedy) EXCEPT !.p = q.p]

QuantifierOf(t, s, a, f) == AddQuantifier(s, a, QuantifierAt(t, a.s.p, f.u))

re_parse_term(t, s, back, f) == QuantifierOf(t, s, ParseAtom(t, s, back, f), f)

(* Terms up to a "|" or ")"; looking backward each one goes before the ones *)
(* already emitted.                                                         *)
RECURSIVE AlternativeFrom(_, _, _, _, _)
AfterTerm(t, s, r, start, back, f) ==
  LET n == Len(s.code)
      moved == SubSeq(r.code, 1, start) \o SubSeq(r.code, n + 1, Len(r.code)) \o SubSeq(r.code, start + 1, n)
  IN IF r.err THEN r
     ELSE AlternativeFrom(t, IF back THEN [r EXCEPT !.code = moved] ELSE r, start, back, f)

AlternativeFrom(t, s, start, back, f) ==
  IF At(t, s.p) \in {"", "|", ")"} THEN s
  ELSE AfterTerm(t, s, re_parse_term(t, s, back, f), start, back, f)

re_parse_alternative(t, s, back, f) == AlternativeFrom(t, s, Len(s.code), back, f)

RECURSIVE DisjunctionFrom(_, _, _, _, _)
PatchGoto(r, pos) == IF r.err THEN r ELSE [r EXCEPT !.code[pos].v = Len(r.code) - pos]

DisjunctionFrom(t, s, start, back, f) ==
  IF s.err \/ At(t, s.p) # "|" THEN s
  ELSE LET len == Len(s.code) - start
           code == Insert(s.code, start, <<Ins1("split_next_first", len + 1)>>) \o <<Ins("goto")>>
       IN DisjunctionFrom(t, PatchGoto(re_parse_alternative(t, [s EXCEPT !.p = @ + 1, !.code = code], back, f),
                                       Len(code)), start, back, f)

re_parse_disjunction(t, s, back, f) ==
  DisjunctionFrom(t, re_parse_alternative(t, s, back, f), Len(s.code), back, f)

(* re_compute_stack_size: "the control flow is recursive so the analysis can   *)
(* be linear".                                                              *)
re_compute_stack_size(code) ==
  LET Step(r, ins) ==
        CASE ins.op \in {"push_i32", "push_char_pos"} ->
               [n |-> r.n + 1, max |-> IF r.n + 1 > r.max THEN r.n + 1 ELSE r.max]
          [] ins.op \in {"drop", "bne_char_pos"} -> [r EXCEPT !.n = @ - 1]
          [] ins.op \notin {"push_i32", "push_char_pos", "drop", "bne_char_pos"} -> r
  IN FoldLeft(Step, [n |-> 0, max |-> 0], code).max

RxProgram(d, len) ==
  LET code == d.code \o <<Ins1("save_end", 0), Ins("match")>>
      stack == re_compute_stack_size(code)
  IN IF d.err \/ d.p <= len \/ stack > RxStackMax
     THEN [ok |-> FALSE, code |-> <<>>, captures |-> 0, stack |-> 0, names |-> <<>>]
     ELSE [ok |-> TRUE, code |-> code, captures |-> d.cc, stack |-> stack, names |-> d.names]

(* lre_compile.  Unless sticky, the program starts with a loop that tries   *)
(* every position.                                                          *)
lre_compile(t, f) ==
  LET search == IF f.y THEN <<>>
                ELSE <<Ins1("split_goto_first", 2), Ins("any"), Ins1("goto", -3)>>
      s0 == [p |-> 1, code |-> search \o <<Ins1("save_start", 0)>>, cc |-> 1, names |-> <<>>, err |-> FALSE]
  IN RxProgram(re_parse_disjunction(t, s0, FALSE, f), Len(t))

-----------------------------------------------------------------------------
(* What a regular expression means in ECMAScript (21.2.2 of ES2019), and    *)
(* how one is written.  A disjunction is a sequence of alternatives, an     *)
(* alternative a sequence of terms.  The matchers of the standard, which    *)
(* take a continuation, are given here by the list of their successes in    *)
(* the order in which the continuation would be tried.                      *)
(*                                                                          *)
(* A subject is the sequence of its characters; a position counts the       *)
(* characters before it.  Captures are a function from group numbers to     *)
(* <<start, end>>, or <<>> for an undefined capture.                        *)

(* Terms.  A leaf carries its text and what it accepts.                     *)
RtChar(text, code) == [k |-> "char", text |-> text, v |-> code]
RtClass(text, neg, runs) == [k |-> "class", text |-> text, neg |-> neg, v |-> runs]
RtStill(kind) == [k |-> kind]
RtGroup(n, d) == [k |-> "group", n |-> n, name |-> <<>>, d |-> d]
RtNamed(n, name, d) == [k |-> "group", n |-> n, name |-> name, d |-> d]
RtNon(d) == [k |-> "non", d |-> d]
RtLook(d, behind, neg) == [k |-> "look", d |-> d, behind |-> behind, neg |-> neg]
RtRef(text, n) == [k |-> "ref", text |-> text, n |-> n]
RtRep(t, min, max, greedy, text) == [k |-> "rep", d |-> <<<<t>>>>, min |-> min, max |-> max,
                                     greedy |-> greedy, text |-> text]
RtInf == 1000

(* The text of a term.                                                      *)
RECURSIVE RtText(_)
RtTextSeq(alt) == FlattenSeq([i \in 1..Len(alt) |-> RtText(alt[i])])
RtTextDisj(d) ==
  RtTextSeq(d[1]) \o FlattenSeq([i \in 1..(Len(d) - 1) |-> <<"|">> \o RtTextSeq(d[i + 1])])
RtText(t) ==
  CASE t.k \in {"char", "class", "ref"} -> t.text
    [] t.k = "dot" -> <<".">>
    [] t.k = "bol" -> <<"^">>
    [] t.k = "eol" -> <<"$">>
    [] t.k = "wordb" -> <<"\\", "b">>
    [] t.k = "nwordb" -> <<"\\", "B">>
    [] t.k = "group" -> <<"(">> \o (IF t.name = <<>> THEN <<>> ELSE <<"?", "<">> \o t.name \o <<">">>)
                        \o RtTextDisj(t.d) \o <<")">>
    [] t.k = "non" -> <<"(", "?", ":">> \o RtTextDisj(t.d) \o <<")">>
    [] t.k = "look" -> <<"(", "?">> \o (IF t.behind THEN <<"<">> ELSE <<>>)
                       \o <<IF t.neg THEN "!" ELSE "=">> \o RtTextDisj(t.d) \o <<")">>
    [] t.k = "rep" -> RtTextDisj(t.d) \o t.text \o (IF t.greedy THEN <<>> ELSE <<"?">>)

(* The numbers of the groups of a disjunction.                              *)
RECURSIVE RtGroups(_)
RtGroups(d) ==
  LET Of(t) == (IF t.k = "group" THEN {t.n} ELSE {}) \cup (IF "d" \in DOMAIN t THEN RtGroups(t.d) ELSE {})
  IN UNION {UNION {Of(d[i][j]) : j \in 1..Len(d[i])} : i \in 1..Len(d)}

----------------------------------------------------------------------------
RtLineEnd(c) == c \in {10, 13, 8232, 8233}
RtWord(c) == c \in (48..57) \cup (65..90) \cup (97..122) \cup {95}
RtCanon(c, f) == IF f.i /\ c \in 97..122 THEN c - 32 ELSE c
RtSame(a, b, f) == RtCanon(a, f) = RtCanon(b, f)

RtInRuns(runs, c) == \E r \in 1..Len(runs) : c >= runs[r][1] /\ c <= runs[r][2]
RtOtherCase(c) == IF c \in 65..90 THEN c + 32 ELSE IF c \in 97..122 THEN c - 32 ELSE c

(* Does a leaf accept the character?                                        *)
RtAccepts(t, c, f) ==
  CASE t.k = "char" -> RtSame(t.v, c, f)
    [] t.k = "class" -> t.neg # (RtInRuns(t.v, c) \/ (f.i /\ RtInRuns(t.v, RtOtherCase(c))))
    [] t.k = "dot" -> f.s \/ ~RtLineEnd(c)

RtHolds(t, u, e, f) ==
  LET before == e > 0 /\ RtWord(u[e])
      after == e < Len(u) /\ RtWord(u[e + 1])
  IN CASE t.k = "bol" -> e = 0 \/ (f.m /\ RtLineEnd(u[e]))
       [] t.k = "eol" -> e = Len(u) \/ (f.m /\ RtLineEnd(u[e + 1]))
       [] t.k = "wordb" -> before # after
       [] t.k = "nwordb" -> before = after

(* The successes of a term, an alternative and a disjunction from state x.  *)
RECURSIVE RtTerm(_, _, _, _, _)
RECURSIVE RtSeq(_, _, _, _, _)
RECURSIVE RtRepeat(_, _, _, _, _, _, _)

RECURSIVE RtSeqAll(_, _, _, _, _)
RtSeqAll(alt, xs, u, back, f) ==
  IF xs = <<>> THEN <<>> ELSE RtSeq(alt, xs[1], u, back, f) \o RtSeqAll(alt, Tail(xs), u, back, f)

RtSeq(alt, x, u, back, f) ==
  IF alt = <<>> THEN <<x>>
  ELSE IF back THEN RtSeqAll(Front(alt), RtTerm(Last(alt), x, u, back, f), u, back, f)
  ELSE RtSeqAll(Tail(alt), RtTerm(alt[1], x, u, back, f), u, back, f)

RtDisj(d, x, u, back, f) == FlattenSeq([i \in 1..Len(d) |-> RtSeq(d[i], x, u, back, f)])

(* RepeatMatcher: every iteration starts with the captures of the atom      *)
(* undefined; an optional iteration that matches nothing is refused.        *)
RECURSIVE RtAgain(_, _, _, _, _, _, _, _)
RtAgain(t, min, max, x, ys, u, back, f) ==
  LET Down(n) == IF n = RtInf \/ n = 0 THEN n ELSE n - 1
      here == IF min = 0 /\ ys[1].e = x.e THEN <<>>
              ELSE RtRepeat(t, Down(min), Down(max), ys[1], u, back, f)
  IN IF ys = <<>> THEN <<>> ELSE here \o RtAgain(t, min, max, x, Tail(ys), u, back, f)

RtRepeat(t, min, max, x, u, back, f) ==
  LET groups == RtGroups(t.d)
      x0 == [x EXCEPT !.cap = [n \in DOMAIN @ |-> IF n \in groups THEN <<>> ELSE @[n]]]
      more == RtAgain(t, min, max, x, RtDisj(t.d, x0, u, back, f), u, back, f)
  IN CASE max = 0 -> <<x>>
       [] max > 0 /\ min > 0 -> more
       [] max > 0 /\ min = 0 /\ t.greedy -> more \o <<x>>
       [] max > 0 /\ min = 0 /\ ~t.greedy -> <<x>> \o more

RtTerm(t, x, u, back, f) ==
  LET next == IF back THEN x.e - 1 ELSE x.e + 1
      charAt == IF back THEN x.e ELSE x.e + 1
  IN CASE t.k \in {"char", "class", "dot"} ->
            IF charAt \in 1..Len(u) /\ RtAccepts(t, u[charAt], f) THEN <<[x EXCEPT !.e = next]>> ELSE <<>>
       [] t.k \in {"bol", "eol", "wordb", "nwordb"} -> IF RtHolds(t, u, x.e, f) THEN <<x>> ELSE <<>>
       [] t.k = "non" -> RtDisj(t.d, x, u, back, f)
       [] t.k = "group" ->
            LET ys == RtDisj(t.d, x, u, back, f)
            IN [i \in 1..Len(ys) |->
                  [ys[i] EXCEPT !.cap[t.n] = IF back THEN <<ys[i].e, x.e>> ELSE <<x.e, ys[i].e>>]]
       [] t.k = "look" ->
            LET r == RtDisj(t.d, x, u, t.behind, f)
            IN IF t.neg THEN (IF r = <<>> THEN <<x>> ELSE <<>>)
               ELSE IF r = <<>> THEN <<>> ELSE <<[x EXCEPT !.cap = r[1].cap]>>
       [] t.k = "ref" ->
            LET c == x.cap[t.n]
                len == c[2] - c[1]
                from == IF back THEN x.e - len ELSE x.e
            IN IF c = <<>> THEN <<x>>
               ELSE IF from >= 0 /\ from + len <= Len(u)
                       /\ \A i \in 1..len : RtSame(u[c[1] + i], u[from + i], f)
               THEN <<[x EXCEPT !.e = IF back THEN from ELSE from + len]>> ELSE <<>>
       [] t.k = "rep" -> RtRepeat(t, t.min, t.max, x, u, back, f)

(* RegExpBuiltinExec: the first success at the first position that has one. *)
(* Group 0 is the whole match; no match at all is the empty function.       *)
RtFirst(i, xs) == IF xs = <<>> THEN <<>> ELSE [xs[1].cap EXCEPT ![0] = <<i, xs[1].e>>]
RtFind(d, u, at, f) ==
  LET At1(i) == RtFirst(i, RtDisj(d, [e |-> i, cap |-> [n \in {0} \cup RtGroups(d) |-> <<>>]], u, FALSE, f))
      tried == IF f.y THEN {at} ELSE at..Len(u)
      found == [i \in tried |-> At1(i)]
  IN IF \A i \in tried : found[i] = <<>> THEN <<>>
     ELSE found[CHOOSE i \in tried : found[i] # <<>> /\ \A j \in tried : j < i => found[j] = <<>>]

-----------------------------------------------------------------------------
(* The regular expression executor of libregexp.c (lre_exec_backtrack): a   *)
(* machine with a program counter, a position in the subject, the captures, *)
(* a small stack for counters and positions, and a stack of saved states to *)
(* go back to.  One action per group of instructions; a failure returns to  *)
(* the last saved state within the same step.                               *)
(*                                                                          *)
(* A call is a pattern (as a syntax tree, from which the text that is       *)
(* compiled is printed), flags, a subject in code units, a start, and       *)
(* whether the text is malformed.                                           *)

CONSTANTS RxMaxSteps   \* more instructions than any of the calls needs

VARIABLES rxCall,   \* the call being executed, <<>> before it
          rxProg,   \* the program lre_compile made of it
          rx        \* the state of lre_exec_backtrack

rxVars == <<rxCall, rxProg, rx>>

RxIdle == [run |-> "idle", pc |-> 0, c |-> 0, cap |-> <<>>, st |-> <<>>, ss |-> <<>>, steps |-> 0]

----------------------------------------------------------------------------
(* GET_CHAR, PREV_CHAR and the like: the character at a position and the    *)
(* position after it, between the bounds the code passes.  In Unicode mode  *)
(* a surrogate pair is one character.                                       *)
GetChar(u, i, end, f) ==
  IF f.u /\ HighSurrogate(u[i + 1]) /\ i + 1 < end /\ LowSurrogate(u[i + 2])
  THEN [c |-> Pair(u[i + 1], u[i + 2]), i |-> i + 2]
  ELSE [c |-> u[i + 1], i |-> i + 1]

GetPrevChar(u, i, start, f) ==
  IF f.u /\ LowSurrogate(u[i]) /\ i - 1 > start /\ HighSurrogate(u[i - 1])
  THEN [c |-> Pair(u[i - 1], u[i]), i |-> i - 2]
  ELSE [c |-> u[i], i |-> i - 1]

RxCanon(c, f) == IF f.i THEN lre_canonicalize(c, f.u) ELSE c

is_line_terminator(c) == c \in {10, 13, 8232, 8233}
is_word_char(c) == c \in (48..57) \cup (97..122) \cup (65..90) \cup {95}

RxWordBoundary(u, i, f) ==
  LET before == i > 0 /\ is_word_char(GetPrevChar(u, i, 0, f).c)
      after == i < Len(u) /\ is_word_char(GetChar(u, i, Len(u), f).c)
  IN before # after

RxPrev(u, i, f) == IF i = 0 THEN -1 ELSE GetPrevChar(u, i, 0, f).i

(* The instructions that look at the subject and change nothing else: the   *)
(* position after them, or -1 for no match.                                 *)
RxTest(ins, u, i, f) ==
  LET n == Len(u)
      g == GetChar(u, i, n, f)
      Take(ok) == IF i < n /\ ok THEN g.i ELSE -1
      Stay(ok) == IF ok THEN i ELSE -1
  IN CASE ins.op = "char" -> Take(i < n => RxCanon(g.c, f) = ins.v)
       [] ins.op \in {"range", "range32"} -> Take(i < n => InRange(ins, RxCanon(g.c, f)))
       [] ins.op = "dot" -> Take(i < n => ~is_line_terminator(g.c))
       [] ins.op = "any" -> Take(TRUE)
       [] ins.op = "prev" -> RxPrev(u, i, f)
       [] ins.op = "line_start" -> Stay(i = 0 \/ (f.m /\ is_line_terminator(GetPrevChar(u, i, 0, f).c)))
       [] ins.op = "line_end" -> Stay(i = n \/ (f.m /\ is_line_terminator(g.c)))
       [] ins.op = "word_boundary" -> Stay(RxWordBoundary(u, i, f))
       [] ins.op = "not_word_boundary" -> Stay(~RxWordBoundary(u, i, f))

RxTestOps == CharOps \cup StillOps \cup {"prev"}

(* push_state.                                                              *)
push_state(m, type, pc, count) ==
  [m EXCEPT !.ss = Append(@, [type |-> type, pc |-> pc, c |-> m.c, cap |-> m.cap, st |-> m.st,
                              count |-> count])]

(* Back over n characters.                                                  *)
RECURSIVE RxBack(_, _, _, _)
RxBack(u, i, n, f) == IF n = 0 THEN i ELSE RxBack(u, GetPrevChar(u, i, 0, f).i, n - 1, f)

(* "recurse:" with the outcome of what was being tried: saved states are    *)
(* popped until one can go on.                                              *)
RECURSIVE RxRecurse(_, _, _, _, _)
RxRecurse(m, ret, code, u, f) ==
  LET rs == Last(m.ss)
      below == Front(m.ss)
      Pop(cap) == [m EXCEPT !.cap = cap, !.pc = rs.pc, !.c = rs.c, !.st = rs.st, !.ss = below]
      back == RxBack(u, rs.c, code[rs.pc].n, f)
      Shorter == [Pop(rs.cap) EXCEPT
                    !.pc = rs.pc + 1 + code[rs.pc].v,
                    !.c = back,
                    !.ss = IF rs.count = 1 THEN below ELSE Append(below, [rs EXCEPT !.c = back, !.count = @ - 1])]
      Drop(r) == RxRecurse([m EXCEPT !.ss = below], r, code, u, f)
  IN IF m.ss = <<>> THEN [m EXCEPT !.run = IF ret THEN "match" ELSE "none"]
     ELSE CASE rs.type = "split" -> IF ret THEN Drop(ret) ELSE Pop(rs.cap)
            [] rs.type = "greedy" -> IF ret THEN Drop(ret) ELSE Shorter
            [] rs.type = "look" -> IF ret THEN Pop(m.cap) ELSE Drop(FALSE)
            [] rs.type = "neglook" -> IF ret THEN Drop(FALSE) ELSE Pop(rs.cap)

no_match(m, code, u, f) == RxRecurse(m, FALSE, code, u, f)

(* The inner call of REOP_simple_greedy_quant: the atom, up to its match.   *)
RECURSIVE RxAtom(_, _, _, _, _)
RxAtom(pc, code, u, i, f) ==
  IF code[pc].op = "match" THEN i
  ELSE LET j == RxTest(code[pc], u, i, f) IN IF j < 0 THEN -1 ELSE RxAtom(pc + 1, code, u, j, f)

RECURSIVE RxTimes(_, _, _, _, _, _)
RxTimes(q, pc, code, u, i, f) ==
  LET j == RxAtom(pc + 1, code, u, i, f)
  IN IF j < 0 \/ (q >= code[pc].max /\ code[pc].max # RxInf) THEN [q |-> q, i |-> i]
     ELSE RxTimes(q + 1, pc, code, u, j, f)

(* REOP_back_reference: the captured characters again.                      *)
RECURSIVE RxRepeats(_, _, _, _, _)
RxRepeats(u, k, end, i, f) ==
  LET a == GetChar(u, k, end, f)
      b == GetChar(u, i, Len(u), f)
  IN IF k >= end THEN i
     ELSE IF i >= Len(u) \/ RxCanon(a.c, f) # RxCanon(b.c, f) THEN -1
     ELSE RxRepeats(u, a.i, end, b.i, f)

RECURSIVE RxRepeatsBack(_, _, _, _, _)
RxRepeatsBack(u, k, start, i, f) ==
  LET a == GetPrevChar(u, k, start, f)
      b == GetPrevChar(u, i, 0, f)
  IN IF k <= start THEN i
     ELSE IF i = 0 \/ RxCanon(a.c, f) # RxCanon(b.c, f) THEN -1
     ELSE RxRepeatsBack(u, a.i, start, b.i, f)

----------------------------------------------------------------------------
RxInit(call) == rxCall = call /\ rxProg = <<>> /\ rx = RxIdle

(* lre_compile and lre_exec: no capture is set, nothing is saved.           *)
lre_exec ==
  /\ rx.run = "idle"
  /\ rxProg' = lre_compile(RtTextDisj(rxCall.d), rxCall.f)
  /\ rx' = IF rxProg'.ok
           THEN [RxIdle EXCEPT !.run = "run", !.pc = 1, !.c = rxCall.at,
                               !.cap = [k \in 0..(2 * rxProg'.captures - 1) |-> -1]]
           ELSE [RxIdle EXCEPT !.run = "error"]
  /\ UNCHANGED rxCall

RxOp(ops) == rx.run = "run" /\ rxProg.code[rx.pc].op \in ops
RxIns == rxProg.code[rx.pc]
RxGo(m) == rx' = [m EXCEPT !.steps = @ + 1] /\ UNCHANGED <<rxCall, rxProg>>
RxFailed == no_match(rx, rxProg.code, rxCall.u, rxCall.f)
RxNext1 == [rx EXCEPT !.pc = @ + 1]
RxJump == [rx EXCEPT !.pc = @ + 1 + RxIns.v]

ReMatch == RxOp({"match"}) /\ RxGo(RxRecurse(rx, TRUE, rxProg.code, rxCall.u, rxCall.f))

ReTest ==
  /\ RxOp(RxTestOps)
  /\ LET i == RxTest(RxIns, rxCall.u, rx.c, rxCall.f)
     IN RxGo(IF i < 0 THEN RxFailed ELSE [RxNext1 EXCEPT !.c = i])

ReSplit ==
  /\ RxOp({"split_goto_first", "split_next_first"})
  /\ RxGo(IF RxIns.op = "split_next_first"
          THEN [push_state(rx, "split", RxJump.pc, 0) EXCEPT !.pc = @ + 1]
          ELSE [push_state(rx, "split", rx.pc + 1, 0) EXCEPT !.pc = RxJump.pc])

ReLookahead ==
  /\ RxOp({"lookahead", "negative_lookahead"})
  /\ RxGo([push_state(rx, IF RxIns.op = "lookahead" THEN "look" ELSE "neglook", RxJump.pc, 0)
             EXCEPT !.pc = @ + 1])

ReGoto == RxOp({"goto"}) /\ RxGo(RxJump)

ReSave ==
  /\ RxOp({"save_start", "save_end"})
  /\ RxGo([RxNext1 EXCEPT !.cap[2 * RxIns.v + (IF RxIns.op = "save_end" THEN 1 ELSE 0)] = rx.c])

ReSaveReset ==
  /\ RxOp({"save_reset"})
  /\ LET gone == (2 * RxIns.v[1])..(2 * RxIns.v[2] + 1)
     IN RxGo([RxNext1 EXCEPT !.cap = [k \in DOMAIN @ |-> IF k \in gone THEN -1 ELSE @[k]]])

RePush ==
  /\ RxOp({"push_i32", "push_char_pos"})
  /\ RxGo([RxNext1 EXCEPT !.st = Append(@, IF RxIns.op = "push_i32" THEN RxIns.v ELSE rx.c)])

ReDrop == RxOp({"drop"}) /\ RxGo([RxNext1 EXCEPT !.st = Front(@)])

ReLoop ==
  /\ RxOp({"loop"})
  /\ LET n == Last(rx.st) - 1
     IN RxGo([rx EXCEPT !.st = Append(Front(@), n), !.pc = IF n # 0 THEN RxJump.pc ELSE @ + 1])

ReBneCharPos ==
  /\ RxOp({"bne_char_pos"})
  /\ RxGo([rx EXCEPT !.st = Front(@), !.pc = IF Last(rx.st) # rx.c THEN RxJump.pc ELSE @ + 1])

ReBackReference ==
  /\ RxOp({"back_reference", "backward_back_reference"})
  /\ LET s == rx.cap[2 * RxIns.v]
         e == rx.cap[2 * RxIns.v + 1]
         i == IF RxIns.op = "back_reference" THEN RxRepeats(rxCall.u, s, e, rx.c, rxCall.f)
              ELSE RxRepeatsBack(rxCall.u, e, s, rx.c, rxCall.f)
     IN RxGo(IF s < 0 \/ e < 0 THEN RxNext1
             ELSE IF i < 0 THEN RxFailed ELSE [RxNext1 EXCEPT !.c = i])

ReGreedyQuant ==
  /\ RxOp({"simple_greedy_quant"})
  /\ LET r == RxTimes(0, rx.pc, rxProg.code, rxCall.u, rx.c, rxCall.f)
         m == [rx EXCEPT !.c = r.i]
         saved == IF r.q > RxIns.min THEN push_state(m, "greedy", rx.pc, r.q - RxIns.min) ELSE m
     IN RxGo(IF r.q < RxIns.min THEN RxFailed ELSE [saved EXCEPT !.pc = RxJump.pc])

RxNext == \/ lre_exec \/ ReMatch \/ ReTest \/ ReSplit \/ ReLookahead \/ ReGoto \/ ReSave \/ ReSaveReset
          \/ RePush \/ ReDrop \/ ReLoop \/ ReBneCharPos \/ ReBackReference \/ ReGreedyQuant


----------------------------------------------------------------------------
(* The characters of the subject and the code units before the k-th.        *)
RECURSIVE RxChars(_, _, _)
RxChars(u, i, f) ==
  IF i >= Len(u) THEN <<>>
  ELSE LET g == GetChar(u, i, Len(u), f) IN <<[c |-> g.c, i |-> g.i]>> \o RxChars(u, g.i, f)

(* What the language says the call returns, in code units.                  *)
RxUnit(chars, k) == IF k = 0 THEN 0 ELSE chars[k].i
RxInUnits(r, chars) ==
  [n \in DOMAIN r |-> IF r[n] = <<>> THEN <<-1, -1>> ELSE <<RxUnit(chars, r[n][1]), RxUnit(chars, r[n][2])>>]
RxFound(call, chars) ==
  RxInUnits(RtFind(call.d, [k \in 1..Len(chars) |-> chars[k].c],
                   CHOOSE k \in 0..Len(chars) : RxUnit(chars, k) = call.at, call.f), chars)
RxExpected(call) == RxFound(call, RxChars(call.u, 0, call.f))

(* The match is want, or there is none and want is empty.                    *)
FoundAs(want) ==
  /\ (rx.run = "match") <=> (DOMAIN want # {})
  /\ rx.run = "match" => \A n \in DOMAIN want : want[n] = <<rx.cap[2 * n], rx.cap[2 * n + 1]>>

(* The result of a finished call is the one the language gives: the same    *)
(* match at the same place with the same captures, or none; and exactly the *)
(* malformed patterns are refused.                                          *)
MatchesAsTheLanguage ==
  rx.run \in {"match", "none", "error"} =>
    /\ (rx.run = "error") <=> rxCall.bad
    /\ rx.run # "error" => FoundAs(RxExpected(rxCall))

(* The stack never outgrows the size re_compute_stack_size found in one pass   *)
(* over the code (the space lre_exec allocates for it and push_state for    *)
(* every copy), an instruction that takes from it finds something there,    *)
(* and a match leaves it empty.                                             *)
RegexpStackFits ==
  rx.run # "idle" =>
  /\ Len(rx.st) <= rxProg.stack
  /\ RxOp({"drop", "loop", "bne_char_pos"}) => rx.st # <<>>
  /\ rx.run = "match" => rx.st = <<>>

(* Every execution comes to an end: no call runs for more instructions than *)
(* the bound, which a loop that makes no progress would pass.               *)
MatchingEnds == rx.steps <= RxMaxSteps

\* lre_compile and lre_exec find the match of the language, within the stack that
\* was sized for it, in a bounded number of steps.
RegexpRight == MatchesAsTheLanguage /\ RegexpStackFits /\ MatchingEnds
=============================================================================
