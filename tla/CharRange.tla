------------------------------ MODULE CharRange ------------------------------
(****************************************************************************)
(* Sets of characters as libunicode.c and libregexp.c represent them: a     *)
(* sorted list of points, the even positions where a run of members starts  *)
(* and the odd ones where it ends.  The last run may end at UINT32_MAX,     *)
(* which stands for "every character above".  The regular expression        *)
(* compiler emits such a list as the operand of REOP_range (16-bit bounds,  *)
(* 0xffff meaning infinity) or REOP_range32, and the executor searches it   *)
(* by bisection.                                                            *)
(****************************************************************************)
EXTENDS Integers, Sequences, SequencesExt, FiniteSets

(* UINT32_MAX; the largest integer of the model checker stands for it.      *)
CrMax == 2147483647

----------------------------------------------------------------------------
(* cr_compress: empty runs are removed, runs that touch are joined.         *)
RECURSIVE RunEnd(_, _)
RunEnd(pt, j) == IF j + 3 <= Len(pt) /\ pt[j + 1] = pt[j + 2] THEN RunEnd(pt, j + 2) ELSE j

RECURSIVE Compressed(_, _)
Compressed(pt, i) ==
  IF i + 1 > Len(pt) THEN <<>>
  ELSE IF pt[i] = pt[i + 1] THEN Compressed(pt, i + 2)
  ELSE LET j == RunEnd(pt, i) IN <<pt[i], pt[j + 1]>> \o Compressed(pt, j + 2)

cr_compress(pt) == Compressed(pt, 1)

(* cr_op: the points of both lists in increasing order; a point is kept     *)
(* where the result's membership changes.                                   *)
OpIsIn(op, i, j) ==
  CASE op = "union" -> i % 2 = 1 \/ j % 2 = 1
    [] op = "inter" -> i % 2 = 1 /\ j % 2 = 1
    [] op = "xor" -> i % 2 # j % 2

RECURSIVE MergePoints(_, _, _, _, _, _)
MergePoints(a, b, i, j, op, out) ==
  IF i = Len(a) /\ j = Len(b) THEN out
  ELSE LET fromA == i < Len(a) /\ (j < Len(b) => a[i + 1] <= b[j + 1])
           fromB == j < Len(b) /\ (i < Len(a) => b[j + 1] <= a[i + 1])
           i1 == IF fromA THEN i + 1 ELSE i
           j1 == IF fromB THEN j + 1 ELSE j
           v == IF fromA THEN a[i1] ELSE b[j1]
           changes == OpIsIn(op, i1, j1) # (Len(out) % 2 = 1)
       IN MergePoints(a, b, i1, j1, op, IF changes THEN Append(out, v) ELSE out)

cr_op(a, b, op) == cr_compress(MergePoints(a, b, 0, 0, op, <<>>))

cr_union1(a, b) == cr_op(a, b, "union")

cr_union_interval(a, c1, c2) == cr_union1(a, <<c1, c2 + 1>>)

(* cr_invert: a point below and one above, so that every point changes      *)
(* parity.                                                                  *)
cr_invert(a) == cr_compress(<<0>> \o a \o <<CrMax>>)

----------------------------------------------------------------------------
(* libregexp.c: the predefined classes and the case of letters.             *)
ClassTable(c) ==
  CASE c \in {"d", "D"} -> <<48, 58>>
    [] c \in {"w", "W"} -> <<48, 58, 65, 91, 95, 96, 97, 123>>
    [] c \in {"s", "S"} -> <<9, 14, 32, 33, 160, 161, 5760, 5761, 8192, 8203,
                             8232, 8234, 8239, 8240, 8287, 8288, 12288, 12289,
                             65279, 65280>>

cr_init_char_range(c) ==
  IF c \in {"D", "W", "S"} THEN cr_invert(ClassTable(c)) ELSE ClassTable(c)

(* The letters of the set are added in upper case; "for simplicity we keep  *)
(* the lower case ranges".                                                  *)
cr_canonicalize(a) ==
  LET lower == cr_op(a, <<97, 123>>, "inter")
  IN cr_union1(a, [i \in 1..Len(lower) |-> lower[i] - 32])

(* lre_canonicalize for characters below 128.                               *)
lre_canonicalize(c, isUtf16) ==
  IF isUtf16 THEN (IF c \in 65..90 THEN c + 32 ELSE c)
             ELSE (IF c \in 97..122 THEN c - 32 ELSE c)

lre_is_space(c) ==
  \E k \in 1..10 : LET s == ClassTable("s") IN s[2 * k - 1] <= c /\ c < s[2 * k]

----------------------------------------------------------------------------
(* re_emit_range: the instruction that tests for membership.  Bounds are    *)
(* inclusive in the instruction.                                            *)
re_emit_range(a) ==
  LET last == a[Len(a)]
      high == IF last = CrMax THEN a[Len(a) - 1] ELSE last
      Bounds(top) == [k \in 1..(Len(a) \div 2) |->
                        <<a[2 * k - 1], IF a[2 * k] = CrMax THEN top ELSE a[2 * k] - 1>>]
  IN IF a = <<>> THEN [op |-> "char", v |-> -1]
     ELSE IF high <= 65535 THEN [op |-> "range", v |-> Bounds(65535)]
     ELSE [op |-> "range32", v |-> Bounds(CrMax - 1)]

(* REOP_range, REOP_range32: bisection over the runs.                       *)
RECURSIVE Bisect(_, _, _, _)
Bisect(v, c, lo, hi) ==
  /\ lo <= hi
  /\ LET k == ((lo - 1 + hi - 1) \div 2) + 1
     IN IF c < v[k][1] THEN Bisect(v, c, lo, k - 1)
        ELSE IF c > v[k][2] THEN Bisect(v, c, k + 1, hi)
        ELSE TRUE

InRange(ins, c) ==
  LET v == ins.v
      n == Len(v)
  IN CASE ins.op = "char" -> c = ins.v
       [] ins.op = "range" ->
            /\ c >= v[1][1]
            /\ \/ c >= 65535 /\ v[n][2] = 65535
               \/ c <= v[n][2] /\ Bisect(v, c, 1, n)
       [] ins.op = "range32" -> c >= v[1][1] /\ c <= v[n][2] /\ Bisect(v, c, 1, n)

----------------------------------------------------------------------------
(* What the lists mean.                                                     *)
Member(a, c) == \E k \in 1..(Len(a) \div 2) : a[2 * k - 1] <= c /\ c < a[2 * k]

(* Sorted, no empty run, no two runs that touch: one list per set.          *)
Canonical(a) == Len(a) % 2 = 0 /\ \A i \in 1..(Len(a) - 1) : a[i] < a[i + 1]

(* The three operations give the canonical list of the union, intersection, *)
(* symmetric difference and complement of the sets, and the emitted         *)
(* instruction accepts exactly the members.                                 *)
CrRight(a, b, op, chars) ==
  LET r == cr_op(a, b, op)
      inv == cr_invert(a)
  IN /\ Canonical(r) /\ Canonical(inv)
     /\ \A c \in chars :
          /\ Member(r, c) <=> OpIsIn(op, IF Member(a, c) THEN 1 ELSE 0, IF Member(b, c) THEN 1 ELSE 0)
          /\ Member(inv, c) <=> ~Member(a, c)
          /\ Member(r, c) <=> InRange(re_emit_range(r), c)
          /\ Member(inv, c) <=> InRange(re_emit_range(inv), c)

(* With the ignore-case flag a class accepts a letter exactly when it holds *)
(* the letter in one of its two cases.                                      *)
CrCaseRight(a, chars) ==
  LET r == cr_canonicalize(a)
      Other(c) == IF c \in 65..90 THEN c + 32 ELSE IF c \in 97..122 THEN c - 32 ELSE c
  IN \A c \in chars :
       InRange(re_emit_range(r), lre_canonicalize(c, FALSE)) <=> Member(a, c) \/ Member(a, Other(c))
=============================================================================
