--------------------------- MODULE ResolveLabels ----------------------------
(****************************************************************************)
(* The last passes of the bytecode compiler of quickjs.c:                   *)
(* resolve_variables (its rewriting of jumps and dead code) and             *)
(* resolve_labels (peephole optimisations, short opcodes, jump layout), and *)
(* an interpreter of the opcodes to compare the code before and after.      *)
(*                                                                          *)
(* Code is a sequence of instructions [op, a], where a is a tuple: a label  *)
(* or a number <<n>>, a variable slot <<"loc", n>>, an atom <<"atom", s>>.  *)
(* The opcodes get_loc, get_arg and get_var_ref are one opcode "get" with   *)
(* three kinds of slot, likewise "put" and "set".  Short forms of an opcode *)
(* are the same opcode with a smaller size.                                 *)
(****************************************************************************)
EXTENDS Integers, Sequences, FiniteSets, SequencesExt

CONSTANTS
  Near,       \* one more than the largest int8_t (128)
  Far,        \* one more than the largest int16_t (32768)
  Hops        \* jumps that find_jump_target follows (10)

I(op, a) == [op |-> op, a |-> a]
I0(op) == I(op, <<>>)

Conds == {"if_false", "if_true"}
Jumps == Conds \cup {"goto", "gosub", "catch"}
Negated(op) == IF op = "if_false" THEN "if_true" ELSE "if_false"

Size(op) ==
  CASE op \in Jumps \cup {"label", "line_num", "push_i32", "push_atom_value", "get_field", "put_field",
                          "put_var", "put_var_strict", "set_name"} -> 5
    [] op \in {"get", "put", "set", "call", "tail_call"} -> 3
    [] op \in {"inc_loc", "dec_loc", "add_loc"} -> 2
    [] OTHER -> 1

RECURSIVE BytePos(_, _)
BytePos(code, i) == IF i = 1 THEN 0 ELSE BytePos(code, i - 1) + Size(code[i - 1].op)

IndexOfLabel(code, l) == CHOOSE k \in 1..Len(code) : code[k] = I("label", <<l>>)
LabelsOf(code) == {code[k].a[1] : k \in {j \in 1..Len(code) : code[j].op = "label"}}

----------------------------------------------------------------------------
(* code_match: the instructions from i on, line numbers aside, have the     *)
(* given opcodes; a pattern is <<opcodes>> or <<opcodes, argument>>.  The   *)
(* matched instructions are in ins.                                         *)
No == [ok |-> FALSE, pos |-> 0, ins |-> <<>>]

RECURSIVE code_match(_, _, _)
code_match(code, i, pats) ==
  IF pats = <<>> THEN [ok |-> TRUE, pos |-> i, ins |-> <<>>]
  ELSE IF i > Len(code) THEN No
  ELSE IF code[i].op = "line_num" THEN code_match(code, i + 1, pats)
  ELSE IF code[i].op \notin pats[1][1] \/ (Len(pats[1]) = 2 /\ code[i].a # pats[1][2]) THEN No
  ELSE LET r == code_match(code, i + 1, Tail(pats))
       IN IF r.ok THEN [r EXCEPT !.ins = <<code[i]>> \o @] ELSE No

Of(op) == <<{op}>>

RECURSIVE code_has_label(_, _, _)
code_has_label(code, i, l) ==
  IF i > Len(code) THEN FALSE
  ELSE CASE code[i].op = "line_num" -> code_has_label(code, i + 1, l)
         [] code[i].op = "label" -> code[i].a[1] = l \/ code_has_label(code, i + 1, l)
         [] code[i].op = "goto" -> code[i].a[1] = l
         [] OTHER -> FALSE

(* The state of a pass: position, output, label reference counts, whether   *)
(* an assertion failed.                                                     *)
update_label(st, l, delta) ==
  [st EXCEPT !.refs[l] = @ + delta, !.failed = @ \/ st.refs[l] + delta < 0]

(* Is an emitted jump waiting for the label?                                *)
HasReloc(st, l) == st.addr[l] = -1 /\ \E k \in 1..Len(st.jumps) : st.jumps[k].label = l

RECURSIVE skip_dead_code(_, _)
skip_dead_code(code, st) ==
  LET ins == code[st.i]
      next == [st EXCEPT !.i = @ + 1]
  IN IF st.i > Len(code) THEN st
     ELSE IF ins.op = "label"
     THEN IF st.refs[ins.a[1]] > 0 THEN st
          ELSE skip_dead_code(code, [next EXCEPT !.failed = @ \/ HasReloc(st, ins.a[1])])
     ELSE skip_dead_code(code, IF ins.op \in Jumps THEN update_label(next, ins.a[1], -1) ELSE next)

----------------------------------------------------------------------------
(* resolve_variables.                                                       *)
RECURSIVE LabelPos(_, _, _)
LabelPos(code, i, n) ==
  CASE code[i].op \in {"line_num", "label"} -> LabelPos(code, i + 1, n)
    [] code[i].op = "goto" /\ n > 1 -> LabelPos(code, IndexOfLabel(code, code[i].a[1]), n - 1)
    [] OTHER -> i

get_label_pos(code, l) == LabelPos(code, IndexOfLabel(code, l), 20)

(* Where the value that a chain of dup, test, drop tests ends up.           *)
RECURSIVE EndOfTests(_, _, _)
EndOfTests(code, op, l) ==
  LET p == get_label_pos(code, l)
      m == code_match(code, p, <<Of("dup"), Of(op), Of("drop")>>)
  IN IF m.ok THEN EndOfTests(code, op, m.ins[2].a[1]) ELSE p

Keep(st, ins) == [st EXCEPT !.out = Append(@, ins)]
Ends == {"goto", "tail_call", "return", "return_undef", "throw", "ret"}

RECURSIVE Pass2(_, _)
Pass2(code, st) ==
  LET ins == code[st.i]
      next == [st EXCEPT !.i = @ + 1]
      arr == code_match(code, st.i + 1, <<<<{"put_array_el", "put_ref_value"}>>, Of("drop")>>)
      test == code_match(code, st.i + 1, <<<<Conds>>, Of("drop")>>)
      end == EndOfTests(code, test.ins[1].op, test.ins[1].a[1])
      last == code_match(code, end, <<Of(test.ins[1].op)>>)
  IN IF st.i > Len(code) THEN st
     ELSE Pass2(code,
       CASE ins.op = "gosub" /\ code_match(code, IndexOfLabel(code, ins.a[1]) + 1, <<Of("ret")>>).ok ->
              update_label(next, ins.a[1], -1)
         [] ins.op = "insert3" /\ arr.ok -> Keep([st EXCEPT !.i = arr.pos], arr.ins[1])
         [] ins.op \in Ends -> skip_dead_code(code, Keep(next, ins))
         [] ins.op = "set_name" /\ ins.a = <<"atom", "">> -> next
         [] ins.op = "dup" /\ test.ok /\ last.ok ->
              Keep(update_label(update_label([st EXCEPT !.i = test.pos], test.ins[1].a[1], -1), last.ins[1].a[1], 1),
                   last.ins[1])
         [] ins.op = "nop" -> next
         [] OTHER -> Keep(next, ins))

RefCounts(code) ==
  [l \in LabelsOf(code) |-> Cardinality({k \in 1..Len(code) : code[k].op \in Jumps /\ code[k].a[1] = l})]

resolve_variables(code) ==
  Pass2(code, [i |-> 1, out |-> <<>>, refs |-> RefCounts(code), failed |-> FALSE,
               addr |-> [l \in LabelsOf(code) |-> -1], jumps |-> <<>>])

----------------------------------------------------------------------------
(* resolve_labels.  An output instruction has its size, and a jump the      *)
(* label it goes to; jumps is jump_slots, addr the label addresses.         *)
Put(st, op, a, size) ==
  [st EXCEPT !.out = Append(@, [op |-> op, a |-> a, size |-> size]), !.size = @ + size]

FitsNear(d) == -Near <= d /\ d < Near
FitsFar(d) == -Far <= d /\ d < Far
FitsIn(d, size) == CASE size = 1 -> FitsNear(d) [] size = 2 -> FitsFar(d) [] OTHER -> TRUE

push_short_int(st, n) ==
  Put(st, "push_i32", <<n>>, IF n \in -1..7 THEN 1 ELSE IF n \in -128..127 THEN 2 ELSE IF n \in -32768..32767 THEN 3 ELSE 5)

put_short_code(st, op, a) ==
  LET n == a[Len(a)]
  IN Put(st, op, a, IF n < 4 /\ op # "tail_call" THEN 1
                    ELSE IF n < 256 /\ op \in {"get", "put", "set"} /\ a[1] = "loc" THEN 2 ELSE 3)

(* The label that jumps to l may go to instead, and the opcode found there. *)
RECURSIVE Follow(_, _, _, _)
Follow(code, l, i, n) ==
  CASE code[i].op \in {"line_num", "label"} -> Follow(code, l, i + 1, n)
    [] code[i].op = "goto" ->
         LET l2 == code[i].a[1]
         IN IF n = 1 THEN [label |-> l2, op |-> "goto"] ELSE Follow(code, l2, IndexOfLabel(code, l2), n - 1)
    [] code[i].op = "drop" ->
         LET after == {k \in (i + 1)..Len(code) : code[k].op # "drop" /\ \A j \in i..(k - 1) : code[j].op = "drop"}
         IN [label |-> l, op |-> IF \E k \in after : code[k].op = "return_undef" THEN "return_undef" ELSE "drop"]
    [] OTHER -> [label |-> l, op |-> code[i].op]

FindTarget(code, l) == Follow(code, l, IndexOfLabel(code, l), Hops)

find_jump_target(code, st, l) == update_label(update_label(st, l, -1), FindTarget(code, l).label, 1)

(* The distance estimate for a label still ahead: in the input code.        *)
Ahead(code, st, at, l) == BytePos(code, IndexOfLabel(code, l)) + 5 - BytePos(code, at) - 1

(* has_label: emit a jump, in the shortest form that is known to fit.       *)
HasLabel(code, st, at, op, l) ==
  LET st1 == IF op = "goto" THEN skip_dead_code(code, st) ELSE st
      diff == IF st.addr[l] = -1 THEN Ahead(code, st, at, l) ELSE st.addr[l] - st.size - 1
      near == IF st.addr[l] = -1 THEN diff < Near ELSE FitsNear(diff)
      far == IF st.addr[l] = -1 THEN diff < Far ELSE FitsFar(diff)
      size == IF near /\ op \in Conds \cup {"goto"} THEN 1 ELSE IF far /\ op = "goto" THEN 2 ELSE 4
  IN [Put(st1, op, <<l>>, size + 1) EXCEPT
        !.jumps = Append(@, [op |-> op, size |-> size, pos |-> st.size + 1, label |-> l, k |-> Len(st.out) + 1])]

(* has_goto.                                                                *)
HasGoto(code, st, at, l) ==
  LET t == FindTarget(code, l)
      st1 == find_jump_target(code, st, l)
  IN IF code_has_label(code, st.i, t.label) THEN update_label(st1, t.label, -1)
     ELSE IF t.op \in {"return", "return_undef", "throw"}
     THEN skip_dead_code(code, Put(update_label(st1, t.label, -1), t.op, <<>>, 1))
     ELSE HasLabel(code, st1, at, "goto", t.label)

(* has_constant_test: what a test of a known value becomes.                 *)
ConstantTest(code, st, at, m, val) ==
  LET op == m.ins[1].op
      l == m.ins[1].a[1]
      st1 == [st EXCEPT !.i = m.pos]
  IN IF val = (op = "if_true") THEN HasGoto(code, st1, at, l) ELSE update_label(st1, l, -1)

IfCase(code, st, at, op, l) ==
  LET t == FindTarget(code, l)
      st1 == find_jump_target(code, st, l)
      g == code_match(code, st.i, <<Of("goto")>>)
  IN IF code_has_label(code, st.i, t.label) THEN Put(update_label(st1, t.label, -1), "drop", <<>>, 1)
     ELSE IF g.ok /\ code_has_label(code, g.pos, t.label)
     THEN HasLabel(code, update_label([st1 EXCEPT !.i = g.pos], t.label, -1), at, Negated(op), g.ins[1].a[1])
     ELSE HasLabel(code, st1, at, op, t.label)

(* OP_label: the address is known, and every waiting jump must reach it.    *)
LabelCase(st, l) ==
  [st EXCEPT !.addr[l] = st.size,
             !.failed = @ \/ st.addr[l] # -1
                          \/ \E k \in 1..Len(st.jumps) :
                               st.jumps[k].label = l /\ ~FitsIn(st.size - st.jumps[k].pos, st.jumps[k].size)]

(* null and undefined before a comparison or a test.                        *)
NullCase(code, st, at, op, no) ==
  LET is == IF op = "null" THEN "is_null" ELSE "is_undefined"
      eq == code_match(code, st.i, <<Of("strict_eq")>>)
      neq == code_match(code, st.i, <<Of("strict_neq"), <<Conds>>>>)
      test == code_match(code, st.i, <<<<Conds>>>>)
      drop == code_match(code, st.i, <<Of("drop")>>)
      ret == code_match(code, st.i, <<Of("return")>>)
  IN IF op = "undefined" /\ drop.ok THEN [st EXCEPT !.i = drop.pos]
     ELSE IF op = "undefined" /\ ret.ok THEN Put([st EXCEPT !.i = ret.pos], "return_undef", <<>>, 1)
     ELSE IF eq.ok THEN Put([st EXCEPT !.i = eq.pos], is, <<>>, 1)
     ELSE IF neq.ok
     THEN HasLabel(code, Put([st EXCEPT !.i = neq.pos], is, <<>>, 1), at, Negated(neq.ins[2].op), neq.ins[2].a[1])
     ELSE IF test.ok THEN ConstantTest(code, st, at, test, FALSE)
     ELSE no

IntCase(code, st, at, n) ==
  LET neg == code_match(code, st.i, <<Of("neg")>>)
      negdrop == code_match(code, st.i, <<Of("neg"), Of("drop")>>)
      drop == code_match(code, st.i, <<Of("drop")>>)
      test == code_match(code, st.i, <<<<Conds>>>>)
  IN IF n # 0 /\ negdrop.ok THEN [st EXCEPT !.i = negdrop.pos]
     ELSE IF n # 0 /\ neg.ok THEN push_short_int([st EXCEPT !.i = neg.pos], -n)
     ELSE IF drop.ok THEN [st EXCEPT !.i = drop.pos]
     ELSE IF test.ok THEN ConstantTest(code, st, at, test, n # 0)
     ELSE push_short_int(st, n)

AtomCase(code, st, a, no) ==
  LET drop == code_match(code, st.i, <<Of("drop")>>)
  IN IF drop.ok THEN [st EXCEPT !.i = drop.pos]
     ELSE IF a = <<"atom", "">> THEN Put(st, "push_atom_value", a, 1) ELSE no

SimpleData(code, i) ==
  \/ code_match(code, i, <<Of("get"), Of("put_array_el")>>).ok
  \/ code_match(code, i, <<<<{"push_i32", "push_atom_value", "undefined", "null", "push_true", "push_false"}>>,
                           Of("put_array_el")>>).ok

(* dup put_x [drop [get_x]].                                                *)
DupCase(code, st, no) ==
  LET m == code_match(code, st.i, <<Of("put")>>)
      slot == m.ins[1].a
      drop == code_match(code, m.pos, <<Of("drop")>>)
      again == code_match(code, drop.pos, <<<<{"get"}, slot>>>>)
  IN IF ~m.ok THEN no
     ELSE IF ~drop.ok THEN put_short_code([st EXCEPT !.i = m.pos], "set", slot)
     ELSE IF ~again.ok THEN put_short_code([st EXCEPT !.i = drop.pos], "put", slot)
     ELSE put_short_code([st EXCEPT !.i = again.pos], "set", slot)

(* get_loc: increments and additions to a local variable in place.          *)
GetLocCase(code, st, slot, no) ==
  LET n == slot[2]
      inc == code_match(code, st.i, <<<<{"post_dec", "post_inc"}>>, <<{"put"}, slot>>, Of("drop")>>)
      inc2 == code_match(code, st.i, <<<<{"dec", "inc"}>>, Of("dup"), <<{"put"}, slot>>, Of("drop")>>)
      add == code_match(code, st.i, <<<<{"push_atom_value", "push_i32", "get"}>>, Of("add"), Of("dup"),
                                      <<{"put"}, slot>>, Of("drop")>>)
      IncOp(op) == IF op \in {"inc", "post_inc"} THEN "inc_loc" ELSE "dec_loc"
      PutSimple(s, x) == CASE x.op = "push_i32" -> push_short_int(s, x.a[1])
                           [] x.op = "get" -> put_short_code(s, "get", x.a)
                           [] OTHER -> Put(s, x.op, x.a, IF x.a = <<"atom", "">> THEN 1 ELSE 5)
  IN IF n >= 256 THEN no
     ELSE IF inc.ok THEN Put([st EXCEPT !.i = inc.pos], IncOp(inc.ins[1].op), slot, 2)
     ELSE IF inc2.ok THEN Put([st EXCEPT !.i = inc2.pos], IncOp(inc2.ins[1].op), slot, 2)
     ELSE IF add.ok THEN Put(PutSimple([st EXCEPT !.i = add.pos], add.ins[1]), "add_loc", slot, 2)
     ELSE put_short_code(st, "get", slot)

PutCase(code, st, slot) ==
  LET m == code_match(code, st.i, <<<<{"get"}, slot>>>>)
  IN IF m.ok THEN put_short_code([st EXCEPT !.i = m.pos], "set", slot) ELSE put_short_code(st, "put", slot)

PostCase(code, st, op, no) ==
  LET inc == IF op = "post_inc" THEN "inc" ELSE "dec"
      m == code_match(code, st.i, <<Of("put"), Of("drop")>>)
      again == code_match(code, m.pos, <<<<{"get"}, m.ins[1].a>>>>)
      f == code_match(code, st.i, <<Of("perm3"), <<{"put_field", "put_var_strict"}>>, Of("drop")>>)
      e == code_match(code, st.i, <<Of("perm4"), Of("put_array_el"), Of("drop")>>)
  IN IF m.ok
     THEN IF again.ok THEN put_short_code(Put([st EXCEPT !.i = again.pos], inc, <<>>, 1), "set", m.ins[1].a)
          ELSE put_short_code(Put([st EXCEPT !.i = m.pos], inc, <<>>, 1), "put", m.ins[1].a)
     ELSE IF f.ok THEN Put(Put([st EXCEPT !.i = f.pos], inc, <<>>, 1), f.ins[2].op, f.ins[2].a, 5)
     ELSE IF e.ok THEN Put(Put([st EXCEPT !.i = e.pos], inc, <<>>, 1), "put_array_el", <<>>, 1)
     ELSE no

TypeofCase(code, st, at, no) ==
  LET m == code_match(code, st.i, <<Of("push_atom_value"), <<{"strict_eq", "strict_neq", "eq", "neq"}>>>>)
      type == m.ins[1].a[2]
      eq == m.ins[2].op \in {"strict_eq", "eq"}
      is == IF type = "undefined" THEN "is_undefined" ELSE "is_function"
      st1 == [st EXCEPT !.i = m.pos]
      test == code_match(code, m.pos, <<Of("if_false")>>)
  IN IF ~m.ok THEN no
     ELSE IF type \in {"undefined", "function"} /\ eq THEN Put(st1, is, <<>>, 1)
     ELSE IF type \in {"undefined", "function"} /\ test.ok
     THEN HasLabel(code, Put([st EXCEPT !.i = test.pos], is, <<>>, 1), at, "if_true", test.ins[1].a[1])
     ELSE IF type = "undefined" THEN Put(Put(st1, "undefined", <<>>, 1), "strict_neq", <<>>, 1)
     ELSE no

RECURSIVE Pass3(_, _)
Pass3(code, st0) ==
  LET at == st0.i
      ins == code[at]
      op == ins.op
      st == [st0 EXCEPT !.i = @ + 1]
      no == Put(st, op, ins.a, Size(op))           \* no_change
      Skip(s) == skip_dead_code(code, s)
      ret == code_match(code, at + 1, <<Of("return")>>)
      undef == code_match(code, at + 1, <<Of("return_undef")>>)
      test == code_match(code, at + 1, <<<<Conds>>>>)
      ins2 == code_match(code, at + 1, <<<<{"put_field", "put_var_strict"}>>, Of("drop")>>)
  IN IF at > Len(code) THEN st0
     ELSE Pass3(code,
       CASE op = "line_num" -> st
         [] op = "label" -> LabelCase(st, ins.a[1])
         [] op = "call" /\ ret.ok -> Skip(put_short_code([st EXCEPT !.i = ret.pos], "tail_call", ins.a))
         [] op = "call" /\ ~ret.ok -> put_short_code(st, op, ins.a)
         [] op \in {"return", "return_undef", "throw"} -> Skip(no)
         [] op = "goto" -> HasGoto(code, st, at, ins.a[1])
         [] op \in {"gosub", "catch"} -> HasLabel(code, st, at, op, ins.a[1])
         [] op \in Conds -> IfCase(code, st, at, op, ins.a[1])
         [] op = "drop" -> IF undef.ok THEN st ELSE no
         [] op \in {"null", "undefined"} -> NullCase(code, st, at, op, no)
         [] op \in {"push_false", "push_true"} ->
              IF test.ok THEN ConstantTest(code, st, at, test, op = "push_true") ELSE no
         [] op = "push_i32" -> IntCase(code, st, at, ins.a[1])
         [] op = "get_field" -> IF ins.a = <<"atom", "length">> THEN Put(st, "get_field", ins.a, 1) ELSE no
         [] op = "push_atom_value" -> AtomCase(code, st, ins.a, no)
         [] op \in {"to_propkey", "to_propkey2"} -> IF SimpleData(code, at + 1) THEN st ELSE no
         [] op = "insert2" -> IF ins2.ok THEN Put([st EXCEPT !.i = ins2.pos], ins2.ins[1].op, ins2.ins[1].a, 5) ELSE no
         [] op = "dup" -> DupCase(code, st, no)
         [] op = "get" /\ ins.a[1] = "loc" -> GetLocCase(code, st, ins.a, no)
         [] op = "get" /\ ins.a[1] # "loc" -> put_short_code(st, op, ins.a)
         [] op = "put" -> PutCase(code, st, ins.a)
         [] op \in {"post_inc", "post_dec"} -> PostCase(code, st, op, no)
         [] op = "typeof" -> TypeofCase(code, st, at, no)
         [] OTHER -> no)

(* The last loop: jumps that reach get shorter, one at a time; what lies    *)
(* behind moves down.                                                       *)
Shrunk(jp, diff) ==
  LET delta == IF jp.size = 2 THEN 1 ELSE 3
  IN IF jp.op \notin Conds \cup {"goto"} \/ jp.size = 1 THEN jp.size
     ELSE IF diff >= -Near /\ diff <= Near - 1 + delta THEN 1
     ELSE IF FitsFar(diff) /\ jp.op = "goto" THEN 2 ELSE jp.size

(* A plausible slip: the labels behind a shortened jump stay where they are *)
(* when they are close.                                                     *)
MovesFar(st, i, size) ==
  LET jp == st.jumps[i]
      delta == jp.size - size
  IN [st EXCEPT !.out[jp.k].size = size + 1,
                !.size = @ - delta,
                !.addr = [l \in DOMAIN @ |-> IF @[l] > jp.pos + 4 THEN @[l] - delta ELSE @[l]],
                !.jumps = [k \in 1..Len(@) |-> IF k = i THEN [@[k] EXCEPT !.size = size]
                                               ELSE IF k > i /\ @[k].pos > jp.pos THEN [@[k] EXCEPT !.pos = @ - delta]
                                               ELSE @[k]]]

Shorten(st, i, size) ==
  LET jp == st.jumps[i]
      delta == jp.size - size
  IN [st EXCEPT !.out[jp.k].size = size + 1,
                !.size = @ - delta,
                !.addr = [l \in DOMAIN @ |-> IF @[l] > jp.pos THEN @[l] - delta ELSE @[l]],
                !.jumps = [k \in 1..Len(@) |-> IF k = i THEN [@[k] EXCEPT !.size = size]
                                               ELSE IF k > i /\ @[k].pos > jp.pos THEN [@[k] EXCEPT !.pos = @ - delta]
                                               ELSE @[k]]]

RECURSIVE ShortenAll(_, _)
ShortenAll(st, i) ==
  IF i > Len(st.jumps) THEN st
  ELSE LET jp == st.jumps[i]
           size == Shrunk(jp, st.addr[jp.label] - jp.pos)
       IN ShortenAll(IF size < jp.size THEN Shorten(st, i, size) ELSE st, i + 1)

Wrapped(d, size) ==
  CASE size = 1 -> ((d + Near) % (2 * Near)) - Near
    [] size = 2 -> ((d + Far) % (2 * Far)) - Far
    [] OTHER -> d

(* The finished code: bytes from 0 on, jumps with their offsets.            *)
Patched(st) ==
  [st EXCEPT !.out = [k \in 1..Len(@) |->
     IF @[k].op \in Jumps
     THEN LET jp == CHOOSE j \in ToSet(st.jumps) : j.k = k
          IN [@[k] EXCEPT !.a = <<Wrapped(st.addr[jp.label] - jp.pos, jp.size)>>]
     ELSE @[k]]]

(* The check at the end: no jump waits for a label.                         *)
MissingLabel(st) == \E l \in DOMAIN st.addr : HasReloc(st, l)

resolve_labels(p2) ==
  LET st == Pass3(p2.out, [p2 EXCEPT !.i = 1, !.out = <<>>] @@ [size |-> 0])
  IN IF st.failed \/ MissingLabel(st) THEN [st EXCEPT !.failed = TRUE]
     ELSE Patched(ShortenAll(st, 1))

----------------------------------------------------------------------------
(* What the opcodes do, on values <<kind, datum>>: "i" numbers, "s"         *)
(* strings, "b" booleans, "u" undefined, "n" null, "f" functions, "o"       *)
(* objects, "r" what a call returns, "c" catch offsets.  A machine has the  *)
(* position, the stack, the variables, the number of calls, the effects     *)
(* seen so far, and whether it has stopped.                                 *)
Und == <<"u", 0>>
Bool(b) == <<"b", IF b THEN 1 ELSE 0>>
Truth(v, seed) ==
  CASE v[1] \in {"i", "b"} -> v[2] # 0
    [] v[1] = "s" -> v[2] # ""
    [] v[1] \in {"u", "n", "nan"} -> FALSE
    [] v[1] = "r" -> seed[((v[2] - 1) % Len(seed)) + 1]
    [] OTHER -> TRUE
TypeOf(v) ==
  CASE v[1] = "u" -> <<"s", "undefined">>
    [] v[1] = "f" -> <<"s", "function">>
    [] v[1] = "s" -> <<"s", "string">>
    [] OTHER -> <<"s", "other">>
AddTo(v, n) == IF v[1] = "i" THEN <<"i", v[2] + n>> ELSE <<"nan", 0>>
ToNumber(v) == IF v[1] = "i" THEN v ELSE <<"nan", 0>>
Neg(v) == IF v[1] = "i" THEN (IF v[2] = 0 THEN <<"-0", 0>> ELSE <<"i", -v[2]>>) ELSE <<"nan", 0>>
Sum2(v, w) == IF v[1] = "i" /\ w[1] = "i" THEN <<"i", v[2] + w[2]>> ELSE <<"sum", <<v, w>>>>

(* The conversion of a property key; that of an object runs its toString,   *)
(* which may assign the variable touched.                                   *)
ToKey(m, v, touched) ==
  IF v[1] # "o" THEN [m |-> m, key |-> v]
  ELSE [m |-> [m EXCEPT !.effects = Append(@, <<"key", v>>),
                        !.vars = IF touched \in DOMAIN @ THEN [@ EXCEPT ![touched] = <<"i", 99>>] ELSE @],
        key |-> <<"k", v>>]

RECURSIVE Unwound(_, _, _)
Unwound(m, stack, v) ==
  IF stack = <<>> THEN [m EXCEPT !.effects = Append(@, <<"throw", v>>), !.halt = TRUE]
  ELSE IF Last(stack)[1] = "c" THEN [m EXCEPT !.pc = Last(stack)[2], !.stack = Append(Front(stack), v)]
  ELSE Unwound(m, Front(stack), v)

Top(m, k) == m.stack[Len(m.stack) + 1 - k]
Under(m, k) == SubSeq(m.stack, 1, Len(m.stack) - k)
Go(m, stack) == [m EXCEPT !.pc = @ + 1, !.stack = stack]
Effect(m, stack, e) == [Go(m, stack) EXCEPT !.effects = Append(@, e)]
Stop(m, e) == [m EXCEPT !.effects = Append(@, e), !.halt = TRUE]

(* Constants.                                                               *)
Constants == {"push_i32", "push_atom_value", "undefined", "null", "push_true", "push_false"}
Constant(ins) ==
  CASE ins.op = "push_i32" -> <<"i", ins.a[1]>>
    [] ins.op = "push_atom_value" -> <<"s", ins.a[2]>>
    [] ins.op = "undefined" -> Und
    [] ins.op = "null" -> <<"n", 0>>
    [] OTHER -> Bool(ins.op = "push_true")

(* Stack shuffles.                                                          *)
Shuffles == {"drop", "dup", "insert2", "insert3", "perm3", "perm4"}
Shuffled(m, op) ==
  CASE op = "drop" -> Under(m, 1)
    [] op = "dup" -> Append(m.stack, Top(m, 1))
    [] op = "insert2" -> Under(m, 2) \o <<Top(m, 1), Top(m, 2), Top(m, 1)>>
    [] op = "insert3" -> Under(m, 3) \o <<Top(m, 1), Top(m, 3), Top(m, 2), Top(m, 1)>>
    [] op = "perm3" -> Under(m, 3) \o <<Top(m, 2), Top(m, 3), Top(m, 1)>>
    [] OTHER -> Under(m, 4) \o <<Top(m, 2), Top(m, 4), Top(m, 3), Top(m, 1)>>

(* Variables.                                                               *)
Variables == {"get", "put", "set", "inc_loc", "dec_loc", "add_loc"}
Vary(m, ins) ==
  LET v == m.vars[ins.a]
      Assign(stack, w) == [Go(m, stack) EXCEPT !.vars[ins.a] = w]
  IN CASE ins.op = "get" -> Go(m, Append(m.stack, v))
       [] ins.op = "put" -> Assign(Under(m, 1), Top(m, 1))
       [] ins.op = "set" -> Assign(m.stack, Top(m, 1))
       [] ins.op = "inc_loc" -> Assign(m.stack, AddTo(v, 1))
       [] ins.op = "dec_loc" -> Assign(m.stack, AddTo(v, -1))
       [] OTHER -> Assign(Under(m, 1), Sum2(v, Top(m, 1)))

(* Operators on one value: what replaces it.                                *)
Unaries == {"neg", "inc", "dec", "post_inc", "post_dec", "typeof", "is_null", "is_undefined", "is_function", "get_field"}
Unary(ins, v) ==
  CASE ins.op = "neg" -> <<Neg(v)>>
    [] ins.op = "inc" -> <<AddTo(v, 1)>>
    [] ins.op = "dec" -> <<AddTo(v, -1)>>
    [] ins.op = "post_inc" -> <<ToNumber(v), AddTo(v, 1)>>
    [] ins.op = "post_dec" -> <<ToNumber(v), AddTo(v, -1)>>
    [] ins.op = "typeof" -> <<TypeOf(v)>>
    [] ins.op = "is_null" -> <<Bool(v[1] = "n")>>
    [] ins.op = "is_undefined" -> <<Bool(v[1] = "u")>>
    [] ins.op = "is_function" -> <<Bool(v[1] = "f")>>
    [] OTHER -> <<<<"field", <<v, ins.a>>>>>>

Binaries == {"add", "strict_eq", "eq", "strict_neq", "neq"}
Binary(op, v, w) ==
  CASE op = "add" -> Sum2(v, w) [] op \in {"strict_eq", "eq"} -> Bool(v = w) [] OTHER -> Bool(v # w)

(* Stores, which are seen from outside.                                     *)
Stores == {"put_var", "put_field", "put_var_strict", "put_array_el"}
Store(m, op, touched) ==
  LET key == ToKey(m, Top(m, 2), touched)
  IN CASE op = "put_var" -> Effect(m, Under(m, 1), <<op, Top(m, 1)>>)
       [] op = "put_array_el" -> Effect(key.m, Under(m, 3), <<op, Top(m, 3), key.key, Top(m, 1)>>)
       [] OTHER -> Effect(m, Under(m, 2), <<op, Top(m, 2), Top(m, 1)>>)

Calls == {"call", "tail_call"}
Call(m, op, argc) ==
  LET called == <<"call", SubSeq(m.stack, Len(m.stack) - argc, Len(m.stack))>>
      result == <<"r", m.calls + 1>>
  IN IF op = "call" THEN [Effect(m, Append(Under(m, argc + 1), result), called) EXCEPT !.calls = @ + 1]
     ELSE [m EXCEPT !.effects = @ \o <<called, <<"return", result>>>>, !.halt = TRUE]

(* Jumps, to target.                                                        *)
Jump(m, op, target, seed) ==
  LET To(stack) == [m EXCEPT !.pc = target, !.stack = stack]
  IN CASE op = "goto" -> To(m.stack)
       [] op = "catch" -> Go(m, Append(m.stack, <<"c", target>>))
       [] op = "gosub" -> To(Append(m.stack, <<"at", m.pc + 1>>))
       [] Truth(Top(m, 1), seed) = (op = "if_true") -> To(Under(m, 1))
       [] OTHER -> Go(m, Under(m, 1))

(* One instruction.                                                         *)
Exec(m, ins, target, seed, touched) ==
  LET op == ins.op
      key == ToKey(m, Top(m, 1), touched)
  IN CASE op \in {"label", "line_num", "set_name", "nop"} -> Go(m, m.stack)
       [] op \in Constants -> Go(m, Append(m.stack, Constant(ins)))
       [] op \in Shuffles -> Go(m, Shuffled(m, op))
       [] op \in Variables -> Vary(m, ins)
       [] op \in Unaries -> Go(m, Under(m, 1) \o Unary(ins, Top(m, 1)))
       [] op \in Binaries -> Go(m, Append(Under(m, 2), Binary(op, Top(m, 2), Top(m, 1))))
       [] op \in {"to_propkey", "to_propkey2"} -> Go(key.m, Append(Under(m, 1), key.key))
       [] op \in Stores -> Store(m, op, touched)
       [] op \in Calls -> Call(m, op, ins.a[1])
       [] op \in Jumps -> Jump(m, op, target, seed)
       [] op = "ret" -> [m EXCEPT !.pc = Top(m, 1)[2], !.stack = Under(m, 1)]
       [] op = "return" -> Stop(m, <<"return", Top(m, 1)>>)
       [] op = "return_undef" -> Stop(m, <<"return", Und>>)
       [] op = "throw" -> Unwound(m, Under(m, 1), Top(m, 1))

RECURSIVE Run(_, _, _, _, _, _)
Run(code, targets, m, seed, touched, steps) ==
  IF m.halt \/ steps = 0 THEN m
  ELSE IF m.pc \notin 1..Len(code) THEN [m EXCEPT !.effects = Append(@, <<"lost">>), !.halt = TRUE]
  ELSE Run(code, targets, Exec(m, code[m.pc], targets[m.pc], seed, touched), seed, touched, steps - 1)

Start(vars) == [pc |-> 1, stack |-> <<>>, vars |-> vars, calls |-> 0, effects |-> <<>>, halt |-> FALSE]

TargetsIn(code) == [k \in 1..Len(code) |-> IF code[k].op \in Jumps THEN IndexOfLabel(code, code[k].a[1]) ELSE 0]

(* In finished code a jump goes to the byte its offset says.                *)
RECURSIVE Starts(_, _)
Starts(out, k) == IF k > Len(out) THEN <<>> ELSE
  LET rest == Starts(out, k + 1) IN <<0>> \o [j \in 1..Len(rest) |-> rest[j] + out[k].size]

TargetsOut(out) ==
  LET starts == Starts(out, 1)
      At(byte) == {j \in 1..Len(out) : starts[j] = byte}
  IN [k \in 1..Len(out) |->
        IF out[k].op \in Jumps /\ At(starts[k] + 1 + out[k].a[1]) # {}
        THEN CHOOSE j \in At(starts[k] + 1 + out[k].a[1]) : TRUE ELSE 0]

(* The compiler's output for a function body.                               *)
Compiled(code) == resolve_labels(resolve_variables(code))

(* Compiled code has the effects of the code it is made from: the same in   *)
(* the same order up to the end, or as far as the run is followed.          *)
SameEffects(code, envs, seeds, touched, steps) ==
  LET out == Compiled(code).out
      before == TargetsIn(code)
      after == TargetsOut(out)
  IN \A vars \in envs, seed \in seeds :
       LET a == Run(code, before, Start(vars), seed, touched, steps)
           b == Run(out, after, Start(vars), seed, touched, steps)
       IN IF a.halt THEN b.halt /\ b.effects = a.effects
          ELSE Len(b.effects) >= Len(a.effects) /\ SubSeq(b.effects, 1, Len(a.effects)) = a.effects

(* No assertion of the two passes fails, and there is a slot of jump_slots  *)
(* for every jump (resolve_variables counts them, resolve_labels fills).    *)
Assembles(code) ==
  LET p2 == resolve_variables(code)
      c == resolve_labels(p2)
  IN ~c.failed /\ Len(c.jumps) <= Cardinality({k \in 1..Len(p2.out) : p2.out[k].op \in Jumps})

-----------------------------------------------------------------------------
(* Function bodies for the two passes of ResolveLabels, as the parser emits   *)
(* them, and an instance for TLC that compiles them one at a time.            *)

CONSTANT LoopDepths    \* how many blocks a loop is nested around

VARIABLES q,           \* the function body, <<>> before there is one
          answered     \* it has been compiled

L(l) == <<I("label", <<l>>)>>
J(op, l) == <<I(op, <<l>>)>>
A0 == <<"arg", 0>>
L0 == <<"loc", 0>>
L1 == <<"loc", 1>>
R0 == <<"ref", 0>>
Get(x) == <<I("get", x)>>
PutV(x) == <<I("put", x)>>
N(n) == <<I("push_i32", <<n>>)>>
At(s) == <<I("push_atom_value", <<"atom", s>>)>>
O(op) == <<I0(op)>>
Atom(op, s) == <<I(op, <<"atom", s>>)>>
CallF == Get(A0) \o <<I("call", <<0>>)>>
Ev(k) == N(k) \o Atom("put_var", "x")
Ret == O("return_undef")
Lines == <<I("line_num", <<7>>)>>

\* Control flow: three steps, two labels, then an end
Steps == {Ev(1), Ret}
         \cup {J("goto", l) : l \in 1..2}
         \cup {CallF \o J(op, l) : op \in Conds, l \in 1..2}
         \cup {O("push_true") \o J("if_false", l) : l \in 1..2}
         \cup {O("null") \o J("if_false", 2)}
First == {Ev(1), J("goto", 1), J("goto", 2), CallF \o J("if_true", 1), CallF \o J("if_false", 2)}
Third == {Ev(1), Ret, J("goto", 1), J("goto", 2), CallF \o J("if_true", 2), CallF \o J("if_false", 1),
      O("null") \o J("if_false", 2)}
Flow == [k : {"flow"}, a : First, b : Steps, c : Third, at : (0..3) \X (0..3)]
FlowCode(p) ==
  LET lab(i) == (IF p.at[1] = i THEN L(1) ELSE <<>>) \o (IF p.at[2] = i THEN L(2) ELSE <<>>)
  IN Ev(0) \o lab(0) \o p.a \o lab(1) \o p.b \o lab(2) \o p.c \o lab(3) \o Ev(9) \o Ret

\* Tests: a chain of && and ||, and where it ends
TestCases == [k : {"test"}, o1 : Conds, o2 : Conds, o3 : Conds, far : BOOLEAN, dup2 : BOOLEAN, via : BOOLEAN]
TestCode(p) ==
  CallF \o O("dup") \o J(p.o1, 1) \o O("drop") \o Lines \o CallF
  \o (IF p.dup2 THEN O("dup") \o J(p.o2, IF p.far THEN 2 ELSE 1) \o O("drop") \o CallF ELSE <<>>)
  \o (IF p.via THEN J("goto", 1) \o L(1) \o J("goto", 2) ELSE L(1)) \o L(2) \o J(p.o3, 3)
  \o Ev(1) \o L(3) \o Ev(2) \o Ret

\* A try statement: try, catch, finally
Bodies == {<<>>, CallF \o O("drop"), CallF \o O("throw"), CallF \o J("if_true", 4) \o Ev(4)}
Finals == {<<>>, Ev(5), Ev(5) \o CallF \o J("if_true", 5) \o Ev(6) \o L(5)}
Tries == [k : {"try"}, body : Bodies, fin : Finals, after : {Ev(7), J("goto", 3), <<>>}]
TryCode(p) ==
  J("catch", 1) \o p.body \o L(4) \o O("drop") \o J("gosub", 2) \o p.after \o J("goto", 3)
  \o L(1) \o J("gosub", 2) \o O("throw") \o L(2) \o p.fin \o O("ret") \o L(3) \o Ev(8) \o Ret

\* Straight code: a stretch that peephole rules look for, reached in two ways
Slots == {L0, L1, A0, R0}
See(x) == Get(x) \o Atom("put_var", "x")
SeeTop == Atom("put_var", "x")
Frag(pre, mid, post) == [pre |-> pre, mid |-> mid, post |-> post]
Simple == {N(2), At("t"), At(""), Get(L1), Get(A0), Get(R0)}
Frags ==
  {Frag(<<>>, Get(x) \o O(op) \o PutV(y) \o O("drop"), See(L0) \o See(L1)) :
     x \in {L0, R0}, y \in {L0, L1, R0}, op \in {"post_inc", "post_dec"}}
  \cup {Frag(<<>>, Get(L0) \o O(op) \o O("dup") \o PutV(y) \o O("drop"), See(L0) \o See(L1)) : y \in {L0, L1},
        op \in {"inc", "dec"}}
  \cup {Frag(<<>>, Get(L0) \o s \o O("add") \o O("dup") \o PutV(y) \o O("drop"), See(L0) \o See(L1)) : s \in Simple,
        y \in {L0, L1}}
  \cup {Frag(CallF, O("dup") \o PutV(x) \o (IF d THEN O("drop") \o Get(y) ELSE <<>>), SeeTop \o See(L0) \o See(A0)) :
          x \in {L0, A0}, y \in {L0, L1, A0}, d \in BOOLEAN}
  \cup {Frag(CallF, PutV(x) \o Get(y), SeeTop \o See(L0) \o See(L1)) : x \in {L0, L1, R0}, y \in {L0, L1, R0}}
  \cup {Frag(CallF \o Get(L0), O(op) \o PutV(x) \o O("drop") \o Get(y), SeeTop \o SeeTop \o See(L0)) :
          op \in {"post_inc", "post_dec"}, x \in {L0, A0}, y \in {L0, A0}}
  \cup {Frag(CallF \o Get(L0), O("insert2") \o Atom(op, "p") \o d, Get(L1) \o SeeTop) :
          op \in {"put_field", "put_var_strict"}, d \in {O("drop"), SeeTop}}
  \cup {Frag(CallF \o Get(L1) \o Get(L0), O("insert3") \o O("put_array_el") \o d, Get(L1) \o SeeTop) : d \in {O("drop"), SeeTop}}
  \cup {Frag(CallF \o Get(L0), O(op) \o O("perm3") \o Atom("put_field", "p") \o d, <<>>) :
          op \in {"post_inc", "post_dec"}, d \in {O("drop"), SeeTop}}
  \cup {Frag(CallF \o Get(L1) \o Get(L0), O("post_inc") \o O("perm4") \o O("put_array_el") \o d, <<>>) : d \in {O("drop"),
        SeeTop}}
  \cup {Frag(Get(L0), O("typeof") \o At(t) \o O(op), d) :
          t \in {"undefined", "function", "string"}, op \in {"strict_eq", "strict_neq", "eq", "neq"},
          d \in {SeeTop, J("if_false", 9), J("if_true", 9)}}
  \cup {Frag(Get(L0), O(v) \o O(op), d) : v \in {"null", "undefined"}, op \in {"strict_eq", "strict_neq"},
          d \in {SeeTop, J("if_false", 9), J("if_true", 9)}}
  \cup {Frag(<<>>, s \o d, <<>>) : s \in {N(0), N(3), At(""), At("t"), O("undefined"), O("null"), O("push_true"),
        O("push_false")},
          d \in {SeeTop, O("drop"), J("if_false", 9), J("if_true", 9), O("return")}}
  \cup {Frag(<<>>, N(n) \o O("neg") \o d, <<>>) : n \in {0, 1, 300}, d \in {SeeTop, O("drop"), J("if_false", 9),
        Atom("get_field", "length") \o SeeTop}}
  \cup {Frag(CallF \o Get(v), O("to_propkey2") \o s \o O("put_array_el"), See(R0)) : v \in {L1, A0}, s \in Simple
        \cup {CallF, O("null")}}
  \cup {Frag(Get(A0), Get(L0) \o <<I("call", <<1>>)>> \o d, <<>>) : d \in {O("return"), O("drop") \o Ret, SeeTop,
        O("drop") \o O("drop") \o Ret}}

Straight == [k : {"straight"}, f : Frags, cut : 0..6, how : {"join", "line", "none"}]
StraightCode(p) ==
  LET m == p.f.mid
      c == IF p.cut > Len(m) THEN Len(m) ELSE p.cut
      m1 == SubSeq(m, 1, c)
      m2 == SubSeq(m, c + 1, Len(m))
      body == CASE p.how = "none" -> p.f.pre \o m
                [] p.how = "line" -> p.f.pre \o m1 \o Lines \o m2
                [] OTHER -> CallF \o J("if_false", 7) \o p.f.pre \o m1 \o J("goto", 8) \o L(7) \o p.f.pre \o m1 \o L(8) \o m2
  IN body \o p.f.post \o Ev(1) \o L(9) \o Ev(2) \o Ret

\* A loop around n blocks, each left by the break in the one inside it: a cycle
\* of n + 1 gotos.
Loops == [k : {"loop"}, n : LoopDepths]
LoopCode(p) ==
  FlattenSeq([i \in 1..p.n + 1 |-> L(i) \o J("goto", (i % (p.n + 1)) + 1)]) \o Ev(9) \o Ret

CodeOf(p) ==
  CASE p.k = "loop" -> LoopCode(p) [] p.k = "flow" -> FlowCode(p) [] p.k = "test" -> TestCode(p)
    [] p.k = "try" -> TryCode(p) [] OTHER -> StraightCode(p)

Vars(a, b, c, d) == L0 :> a @@ L1 :> b @@ A0 :> c @@ R0 :> d
Envs(p) ==
  IF p.k = "straight"
  THEN {Vars(<<"i", 0>>, <<"i", 5>>, <<"f", 0>>, <<"i", 3>>), Vars(<<"s", "t">>, <<"o", 1>>, <<"f", 0>>, <<"s", "z">>),
        Vars(Und, <<"s", "y">>, <<"f", 1>>, <<"n", 0>>), Vars(<<"f", 2>>, <<"n", 0>>, <<"f", 1>>, <<"n", 0>>), Vars(<<"n",
              0>>, <<"n", 0>>, <<"f", 1>>, <<"n", 0>>)}
  ELSE {Vars(<<"i", 0>>, <<"i", 5>>, <<"f", 0>>, <<"i", 3>>)}
Seeds(p) == CASE p.k = "straight" -> {<<TRUE>>, <<FALSE>>}
      [] OTHER -> {<<TRUE>>, <<FALSE>>, <<TRUE, FALSE>>, <<FALSE, TRUE>>}

LbInit == q = <<>> /\ answered = FALSE

LbAsk ==
  /\ q = <<>>
  /\ \/ q' \in Flow
     \/ q' \in TestCases
     \/ q' \in Tries
     \/ q' \in Loops
     \/ q' \in Straight /\ q'.cut <= Len(q'.f.mid) /\ (q'.how = "none" => q'.cut = 0)
  /\ UNCHANGED answered
LbAnswer == q # <<>> /\ ~answered /\ answered' = TRUE /\ UNCHANGED q
LbSpec == LbInit /\ [][LbAsk \/ LbAnswer]_<<q, answered>>

LbKinds == {"flow", "test", "try", "loop", "straight"}

\* The code the two passes make of a function body has the effects of the body
\* for every value of its variables tried and every outcome of its calls
\* (resolve_variables, resolve_labels).
OptimisedSame == q # <<>> /\ q.k \in LbKinds => SameEffects(CodeOf(q), Envs(q), Seeds(q), <<>>, 30)

\* No function body makes an assertion of the passes fail: at the end every
\* label some jump refers to has a position, the operand of a shortened jump
\* fits, and jump_slots has room for every jump (resolve_labels).
AssemblesAll == q # <<>> /\ q.k \in LbKinds => Assembles(CodeOf(q))
=============================================================================
