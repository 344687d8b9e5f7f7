---------------------------- MODULE Expressions -----------------------------
(***************************************************************************)
(* The expression parser of quickjs.c, which emits bytecode for a stack     *)
(* machine as it goes, and the instructions it emits.  An expression that   *)
(* turns out to be the target of an assignment, a call or delete is         *)
(* recognised by the last instruction emitted (get_prev_opcode), which is   *)
(* then taken back or patched; operands are shuffled into place by insert,  *)
(* perm and dup instructions.                                               *)
(*                                                                          *)
(* Tokens are strings.  A value is the history of the computation that made *)
(* it, a sequence of strings in postfix order, so that two values are equal *)
(* only if they were computed in the same way; the log has the operations   *)
(* seen from outside (reading and writing of variables and properties,      *)
(* conversions to property keys and numbers, calls) in their order.         *)
(***************************************************************************)
EXTENDS Integers, Sequences, SequencesExt

Idents == {"a", "b", "f", "this", "home_object"}
Numbers == {"1"}

-----------------------------------------------------------------------------
(* The state of the parser: the tokens left, the code, the next label.       *)

Start(ts) == [ts |-> ts, code |-> <<>>, n |-> 1, ok |-> TRUE]
Tok(p) == IF p.ts = <<>> THEN "eof" ELSE Head(p.ts)
next_token(p) == [p EXCEPT !.ts = Tail(@)]
Fail(p) == [p EXCEPT !.ok = FALSE]
Then(p, F(_)) == IF p.ok THEN F(p) ELSE p
js_parse_expect(p, t) == IF ~p.ok THEN p ELSE IF Tok(p) = t THEN next_token(p) ELSE Fail(p)

\* s is the name operand, l the label, n the count.
Ins(o, s, l, n) == [op |-> o, s |-> s, l |-> l, n |-> n]
Op(o) == Ins(o, "", 0, 0)
emit(p, is) == IF p.ok THEN [p EXCEPT !.code = @ \o is] ELSE p
emit_op(p, o) == emit(p, <<Op(o)>>)
emit_goto(p, o, l) == emit(p, <<Ins(o, "", l, 0)>>)
emit_label(p, l) == emit(p, <<Ins("label", "", l, 0)>>)

\* last_opcode_pos = -1: the instruction nop hides what comes before it.
ForgetLast(p) == emit_op(p, "nop")
get_prev_opcode(p) == IF p.code = <<>> THEN Op("nop") ELSE Last(p.code)
SetLast(p, is) == [p EXCEPT !.code = Front(@) \o is]

-----------------------------------------------------------------------------
(* Assignment targets.                                                       *)

\* The lvalue is the last instruction; with keep its value is loaded too.
get_lvalue(p, keep) ==
  IF ~p.ok THEN [p |-> p, lv |-> Op("nop")]
  ELSE
  LET last == get_prev_opcode(p)
      ref == Ins("make_ref", last.s, 0, 0)
      code == CASE last.op = "scope_get_var" -> <<ref>> \o (IF keep THEN <<Op("get_ref_value")>> ELSE <<>>)
                [] last.op = "get_field" -> IF keep THEN <<[last EXCEPT !.op = "get_field2"]>> ELSE <<>>
                [] last.op = "get_array_el" ->
                     <<Op("to_propkey2")>> \o (IF keep THEN <<Op("dup2"), last>> ELSE <<>>)
                [] last.op = "get_super_value" ->
                     <<Op("to_propkey")>> \o (IF keep THEN <<Op("dup3"), last>> ELSE <<>>)
      bad == \/ last.op \notin {"scope_get_var", "get_field", "get_array_el", "get_super_value"}
             \/ last.op = "scope_get_var" /\ last.s = "this"
  IN [p |-> IF bad THEN Fail(p) ELSE SetLast(p, code), lv |-> last]

\* A change of put_lvalue: the old value of a postfix operator is left below.
KeepsOperandBelow(p, lv, special) ==
  IF ~p.ok THEN p
  ELSE CASE lv.op = "get_field" -> emit(p, <<Op("insert2"), [lv EXCEPT !.op = "put_field"]>>)
         [] lv.op = "get_array_el" -> emit(p, <<Op("insert3"), Op("put_array_el")>>)
         [] lv.op = "scope_get_var" -> emit(p, <<Op("insert3"), Op("put_ref_value")>>)
         [] lv.op = "get_super_value" -> emit(p, <<Op("insert4"), Op("put_super_value")>>)

\* Stores the top of the stack and keeps the value of the expression: the value
\* stored, or with special (postfix ++) the one below it.
put_lvalue(p, lv, special) ==
  LET keep(n) == Op(CASE n = 1 -> IF special THEN "perm3" ELSE "insert2"
                      [] n = 2 -> IF special THEN "perm4" ELSE "insert3"
                      [] n = 3 -> IF special THEN "perm5" ELSE "insert4")
  IN IF ~p.ok THEN p
     ELSE CASE lv.op = "get_field" -> emit(p, <<keep(1), [lv EXCEPT !.op = "put_field"]>>)
            [] lv.op = "get_array_el" -> emit(p, <<keep(2), Op("put_array_el")>>)
            [] lv.op = "scope_get_var" -> emit(p, <<keep(2), Op("put_ref_value")>>)
            [] lv.op = "get_super_value" -> emit(p, <<keep(3), Op("put_super_value")>>)

-----------------------------------------------------------------------------
(* The parser.                                                               *)

RECURSIVE js_parse_expr(_)
RECURSIVE js_parse_assign_expr(_)
RECURSIVE js_parse_postfix_expr(_, _)
RECURSIVE js_parse_unary(_, _)
RECURSIVE js_parse_expr_binary(_, _)
RECURSIVE js_parse_logical_and_or(_, _)
RECURSIVE BinaryRest(_, _)
RECURSIVE Climb(_, _, _)
RECURSIVE LogicalRest(_, _, _)
RECURSIVE Postfix(_, _, _)
RECURSIVE Arguments(_, _, _)

\* The arguments of a call: pushed one by one until the first spread, which
\* gathers them in an array.
Arguments(p, count, spread) ==
  IF ~p.ok \/ Tok(p) = ")" THEN [p |-> next_token(p), count |-> count, spread |-> spread]
  ELSE LET dots == Tok(p) = "..."
           q == IF dots /\ ~spread
                THEN emit(p, <<Ins("array_from", "", 0, count), Ins("push_i32", "", 0, count)>>) ELSE p
           a == js_parse_assign_expr(IF dots THEN next_token(q) ELSE q)
           e == IF dots THEN emit_op(a, "append")
                ELSE IF spread THEN emit(a, <<Op("define_array_el"), Op("inc_index")>>) ELSE a
           r == IF e.ok /\ Tok(e) # ")" THEN js_parse_expect(e, ",") ELSE e
       IN Arguments(r, IF dots \/ spread THEN count ELSE count + 1, dots \/ spread)

\* A call whose callee has just been emitted; type is "normal" or "new".
FunctionCall(p0, type) ==
  LET last == get_prev_opcode(p0)
      method == type = "normal" /\ last.op \in {"get_field", "get_array_el", "get_super_value"}
      p == IF type = "new" THEN emit_op(p0, "dup")
           ELSE IF last.op = "get_field" THEN SetLast(p0, <<[last EXCEPT !.op = "get_field2"]>>)
           ELSE IF last.op = "get_array_el" THEN SetLast(p0, <<Op("get_array_el2")>>)
           ELSE IF last.op = "get_super_value" THEN SetLast(p0, <<Op("get_array_el")>>)
           ELSE p0
      args == Arguments(next_token(p), 0, FALSE)
  IN emit(args.p,
       IF args.spread
       THEN <<Op("drop")>> \o (IF method \/ type = "new" THEN <<Op("perm3")>> ELSE <<Op("undefined"), Op("swap")>>)
            \o <<Ins("apply", "", 0, IF type = "new" THEN 1 ELSE 0)>>
       ELSE <<Ins(IF method THEN "call_method" ELSE IF type = "new" THEN "call_constructor" ELSE "call",
                  "", 0, args.count)>>)

\* What may follow a primary expression; paren says whether a call may.
Postfix(p, paren, type) ==
  IF ~p.ok THEN p
  ELSE CASE Tok(p) = "(" /\ paren -> Postfix(FunctionCall(p, type), TRUE, "normal")
         [] Tok(p) = "." -> LET q == next_token(p)
                            IN Postfix(IF Tok(q) \notin Idents THEN Fail(q)
                                       ELSE IF get_prev_opcode(p).op = "get_super"
                                       THEN emit(next_token(q), <<Ins("push", Tok(q), 0, 0), Op("get_super_value")>>)
                                       ELSE emit(next_token(q), <<Ins("get_field", Tok(q), 0, 0)>>), paren, type)
         [] Tok(p) = "[" -> LET super == get_prev_opcode(p).op = "get_super"
                                q == js_parse_expect(js_parse_expr(next_token(p)), "]")
                            IN Postfix(emit_op(q, IF super THEN "get_super_value" ELSE "get_array_el"), paren, type)
         [] Tok(p) = "++" -> LET g == get_lvalue(p, TRUE)
                             IN Postfix(Then(emit_op(g.p, "post_inc"),
                                             LAMBDA q : next_token(put_lvalue(q, g.lv, TRUE))), paren, type)
         [] OTHER -> p

js_parse_postfix_expr(p, paren) ==
  LET t == Tok(p)
      q == next_token(p)
  IN CASE t \in Numbers -> Postfix(emit(q, <<Ins("push", t, 0, 0)>>), paren, "normal")
       [] t \in Idents -> Postfix(emit(q, <<Ins("scope_get_var", t, 0, 0)>>), paren, "normal")
       [] t = "(" -> Postfix(js_parse_expect(js_parse_expr(q), ")"), paren, "normal")
       [] t = "super" -> IF Tok(q) \notin {".", "["} THEN Fail(q)
                         ELSE Postfix(emit(q, <<Ins("scope_get_var", "this", 0, 0),
                                                Ins("scope_get_var", "home_object", 0, 0), Op("get_super")>>),
                                      paren, "normal")
       [] t = "new" -> LET c == js_parse_postfix_expr(q, FALSE)
                       IN IF c.ok /\ Tok(c) # "("
                          THEN Postfix(emit(c, <<Op("dup"), Ins("call_constructor", "", 0, 0)>>), TRUE, "normal")
                          ELSE Postfix(c, TRUE, "new")
       [] OTHER -> Fail(p)

js_parse_delete(p) ==
  LET q == js_parse_unary(p, -1)
      last == get_prev_opcode(q)
  IN IF ~q.ok THEN q
     ELSE CASE last.op = "get_field" -> SetLast(q, <<Ins("push", last.s, 0, 0), Op("delete")>>)
            [] last.op = "get_array_el" -> SetLast(q, <<Op("delete")>>)
            [] last.op = "scope_get_var" /\ last.s # "this" -> SetLast(q, <<[last EXCEPT !.op = "delete_var"]>>)
            [] last.op = "get_super_value" -> emit_op(q, "throw_delete_super")
            [] OTHER -> emit(q, <<Op("drop"), Ins("push", "true", 0, 0)>>)

UnaryOps == [x \in {"-", "!", "void"} |->
  CASE x = "-" -> <<Op("neg")>> [] x = "!" -> <<Op("lnot")>> [] x = "void" -> <<Op("drop"), Op("undefined")>>]

\* pow is the exponentiation_flag: 1 if ** may follow, -1 if it is an error,
\* 0 if the caller looks for it.
js_parse_unary(p, pow) ==
  LET t == Tok(p)
      plain == t \notin DOMAIN UnaryOps \cup {"typeof", "delete"}
      u == CASE t \in DOMAIN UnaryOps -> emit(js_parse_unary(next_token(p), -1), UnaryOps[t])
             [] t = "++" -> LET g == get_lvalue(js_parse_unary(next_token(p), 0), TRUE)
                            IN put_lvalue(emit_op(g.p, "inc"), g.lv, FALSE)
             [] t = "typeof" -> Then(js_parse_unary(next_token(p), -1), LAMBDA q :
                                  LET last == get_prev_opcode(q)
                                  IN emit_op(IF last.op # "scope_get_var" THEN q
                                             ELSE SetLast(q, <<[last EXCEPT !.op = "get_var_undef"]>>), "typeof"))
             [] t = "delete" -> js_parse_delete(next_token(p))
             [] OTHER -> js_parse_postfix_expr(p, TRUE)
  IN IF ~u.ok \/ ~plain \/ pow = 0 \/ Tok(u) # "**" THEN u
     ELSE IF pow < 0 THEN Fail(u)
     ELSE emit_op(js_parse_unary(next_token(u), 1), "**")

\* The operators of each level, from the one that binds most.
Binary == <<{"*", "/", "%"}, {"+", "-"}, {"<<", ">>", ">>>"}, {"<", ">", "<=", ">=", "instanceof", "in"},
            {"==", "!=", "===", "!=="}, {"&"}, {"^"}, {"|"}>>

BinaryRest(p, level) ==
  IF ~p.ok \/ Tok(p) \notin Binary[level] THEN p
  ELSE BinaryRest(emit_op(js_parse_expr_binary(next_token(p), level - 1), Tok(p)), level)

\* The levels from one to the next, once the operand of the lowest is parsed.
Climb(p, from, level) ==
  IF ~p.ok \/ \A l \in from..level : Tok(p) \notin Binary[l] THEN p
  ELSE Climb(BinaryRest(p, from), from + 1, level)

js_parse_expr_binary(p, level) == Climb(js_parse_unary(p, 1), 1, level)

LogicalOperand(p, op) == IF op = "&&" THEN js_parse_expr_binary(p, 8) ELSE js_parse_logical_and_or(p, "&&")

\* Every operand jumps to the one label l behind the last of them.
LogicalRest(p, op, l) ==
  IF ~p.ok \/ Tok(p) # op THEN emit_label(p, l)
  ELSE LET q == emit_op(emit_goto(emit_op(next_token(p), "dup"), IF op = "&&" THEN "if_false" ELSE "if_true", l), "drop")
       IN LogicalRest(LogicalOperand(q, op), op, l)

js_parse_logical_and_or(p, op) ==
  LET q == LogicalOperand(p, op)
  IN IF q.ok /\ Tok(q) = op THEN LogicalRest([q EXCEPT !.n = @ + 1], op, q.n) ELSE q

js_parse_cond_expr(p) ==
  LET c == js_parse_logical_and_or(p, "||")
      l == c.n
      yes == js_parse_assign_expr(emit_goto([next_token(c) EXCEPT !.n = @ + 2], "if_false", l))
      no == js_parse_assign_expr(emit_label(emit_goto(js_parse_expect(yes, ":"), "goto", l + 1), l))
  IN IF ~c.ok \/ Tok(c) # "?" THEN c ELSE IF ~yes.ok THEN yes ELSE emit_label(no, l + 1)

AssignOps == [x \in {"*=", "+=", "<<=", "**="} |->
  CASE x = "*=" -> "*" [] x = "+=" -> "+" [] x = "<<=" -> "<<" [] x = "**=" -> "**"]

js_parse_assign_expr(p) ==
  LET c == js_parse_cond_expr(p)
      op == Tok(c)
      g == get_lvalue(c, op # "=")
      rhs == js_parse_assign_expr(next_token(g.p))
  IN IF ~c.ok \/ op \notin {"="} \cup DOMAIN AssignOps THEN c
     ELSE IF ~g.p.ok THEN g.p
     ELSE put_lvalue(IF op = "=" THEN rhs ELSE emit_op(rhs, AssignOps[op]), g.lv, FALSE)

RECURSIVE CommaRest(_)
CommaRest(p) ==
  IF ~p.ok \/ Tok(p) # "," THEN p
  ELSE CommaRest(ForgetLast(js_parse_assign_expr(emit_op(next_token(p), "drop"))))

js_parse_expr(p) == CommaRest(js_parse_assign_expr(p))

-----------------------------------------------------------------------------
(* The instructions.  m has the stack (top last) and the log.                *)

Falsy(v) == v = <<"f">>
RECURSIVE Truthy(_)
Truthy(v) == IF v # <<>> /\ Last(v) = "!" THEN ~Truthy(Front(v)) ELSE ~Falsy(v)

IsKey(v) == Last(v) = "key" \/ v[1] = "'"
Note(m, e) == [m EXCEPT !.log = Append(@, e)]
ToKey(m, v) == IF IsKey(v) THEN [m |-> m, v |-> v] ELSE [m |-> Note(m, <<"key">> \o v), v |-> Append(v, "key")]
Name(s) == <<"'", s>>

\* The slot i from the top, and the stack without its n topmost slots.
At(st, i) == st[Len(st) + 1 - i]
Cut(st, n) == SubSeq(st, 1, Len(st) - n)

\* The instructions that only move stack slots: how many they take, and which
\* of them (counted from the top) they leave.
Shuffles ==
  [x \in {"drop", "dup", "dup2", "dup3", "insert2", "insert3", "insert4", "perm3", "perm4", "perm5", "swap", "nop", "label"} |->
     CASE x = "drop" -> [n |-> 1, to |-> <<>>]
       [] x = "dup" -> [n |-> 1, to |-> <<1, 1>>]
       [] x = "dup2" -> [n |-> 2, to |-> <<2, 1, 2, 1>>]
       [] x = "dup3" -> [n |-> 3, to |-> <<3, 2, 1, 3, 2, 1>>]
       [] x = "insert2" -> [n |-> 2, to |-> <<1, 2, 1>>]
       [] x = "insert3" -> [n |-> 3, to |-> <<1, 3, 2, 1>>]
       [] x = "insert4" -> [n |-> 4, to |-> <<1, 4, 3, 2, 1>>]
       [] x = "perm3" -> [n |-> 3, to |-> <<2, 3, 1>>]
       [] x = "perm4" -> [n |-> 4, to |-> <<2, 4, 3, 1>>]
       [] x = "perm5" -> [n |-> 5, to |-> <<2, 5, 4, 3, 1>>]
       [] x = "swap" -> [n |-> 2, to |-> <<1, 2>>]
       [] OTHER -> [n |-> 0, to |-> <<>>]]

Shuffle(st, sh) == Cut(st, sh.n) \o [i \in DOMAIN sh.to |-> At(st, sh.to[i])]

Replace(m, n, v) == [m EXCEPT !.st = Append(Cut(@, n), v)]
Apply(f, this, args, how) == <<how>> \o f \o this \o FlattenSeq(args)

\* Reading property k of o (receiver r) and writing it.
GetProp(m, n, o, k, r) ==
  LET q == ToKey(m, k) IN Replace(Note(q.m, <<"get">> \o o \o q.v \o r), n, o \o q.v \o r \o <<"get">>)

SetProp(m, n, o, k, r, v) ==
  LET q == ToKey(m, k) IN [Note(q.m, <<"set">> \o o \o q.v \o r \o v) EXCEPT !.st = Cut(@, n)]

Call(m, n, f, this, args, how) ==
  Replace(Note(m, Apply(f, this, args, how)), n, Append(Apply(f, this, args, how), "result"))

\* Variables, and references to them on the stack.
Variables(m, i) ==
  LET t(k) == At(m.st, k)
  IN CASE i.op \in {"scope_get_var", "get_var_undef"} ->
            Replace(IF i.s = "home_object" THEN m ELSE Note(m, <<i.op, i.s>>), 0, <<i.s>>)
       [] i.op = "delete_var" -> Replace(Note(m, <<i.op, i.s>>), 0, <<"deleted", i.s>>)
       [] i.op = "make_ref" -> [Note(m, <<"resolve", i.s>>) EXCEPT !.st = @ \o <<<<"ref">>, <<i.s>>>>]
       [] i.op = "get_ref_value" -> Replace(Note(m, <<"scope_get_var">> \o t(1)), 0, t(1))
       [] i.op = "put_ref_value" -> [Note(m, <<"put_var">> \o t(2) \o t(1)) EXCEPT !.st = Cut(@, 3)]

Properties(m, i) ==
  LET t(k) == At(m.st, k)
      key == ToKey(m, t(1))
  IN CASE i.op = "get_super" -> Replace(m, 1, Append(t(1), "proto"))
       [] i.op = "get_field" -> GetProp(m, 1, t(1), Name(i.s), t(1))
       [] i.op = "get_field2" -> GetProp(m, 0, t(1), Name(i.s), t(1))
       [] i.op = "get_array_el" -> GetProp(m, 2, t(2), t(1), t(2))
       [] i.op = "get_array_el2" -> GetProp(m, 1, t(2), t(1), t(2))
       [] i.op = "get_super_value" -> GetProp(m, 3, t(2), t(1), t(3))
       [] i.op = "put_field" -> SetProp(m, 2, t(2), Name(i.s), t(2), t(1))
       [] i.op = "put_array_el" -> SetProp(m, 3, t(3), t(2), t(3), t(1))
       [] i.op = "put_super_value" -> SetProp(m, 4, t(3), t(2), t(4), t(1))
       [] i.op \in {"to_propkey", "to_propkey2"} -> Replace(key.m, 1, key.v)
       [] i.op = "delete" -> Replace(Note(key.m, <<"delete">> \o t(2) \o key.v), 2, <<"deleted">> \o t(2) \o key.v)

\* Calls, and the array in which a spread gathers their arguments.
Calls(m, i) ==
  LET t(k) == At(m.st, k)
      args == [k \in 1..i.n |-> At(m.st, i.n + 1 - k)]
  IN CASE i.op = "array_from" -> [m EXCEPT !.st = Append(Cut(@, i.n), <<"array">> \o FlattenSeq(args))]
       [] i.op = "push_i32" -> Replace(m, 0, <<"index">>)
       [] i.op = "append" -> [Note(m, <<"spread">> \o t(1)) EXCEPT !.st =
                                Cut(@, 3) \o <<t(3) \o <<"...">> \o t(1), t(2)>>]
       [] i.op = "define_array_el" -> [m EXCEPT !.st = Cut(@, 3) \o <<t(3) \o t(1), t(2)>>]
       [] i.op = "inc_index" -> m
       [] i.op = "call" -> Call(m, i.n + 1, t(i.n + 1), <<"undefined">>, args, "call")
       [] i.op = "call_method" -> Call(m, i.n + 2, t(i.n + 1), t(i.n + 2), args, "call")
       [] i.op = "call_constructor" -> Call(m, i.n + 2, t(i.n + 2), t(i.n + 1), args, "new")
       [] i.op = "apply" -> Call(m, 3, t(3), t(2), <<Tail(t(1))>>, IF i.n = 1 THEN "new" ELSE "call")

Operators(m, i) ==
  LET t(k) == At(m.st, k)
  IN CASE i.op = "push" -> Replace(m, 0, IF i.s \in Numbers \cup {"true"} THEN <<i.s>> ELSE Name(i.s))
       [] i.op = "undefined" -> Replace(m, 0, <<"undefined">>)
       [] i.op = "post_inc" -> [Note(m, <<"number">> \o t(1)) EXCEPT !.st =
                                  Cut(@, 1) \o <<Append(t(1), "number"), t(1) \o <<"number", "1", "+">>>>]
       [] i.op = "inc" -> Replace(Note(m, <<"number">> \o t(1)), 1, t(1) \o <<"number", "1", "+">>)
       [] i.op = "lnot" -> Replace(m, 1, Append(t(1), "!"))
       [] i.op \in {"neg", "typeof"} -> Replace(Note(m, <<i.op>> \o t(1)), 1, Append(t(1), i.op))
       [] OTHER -> Replace(Note(m, <<i.op>> \o t(2) \o t(1)), 2, t(2) \o t(1) \o <<i.op>>)

\* One instruction that does not jump.
Execute(m, i) ==
  CASE i.op \in DOMAIN Shuffles -> [m EXCEPT !.st = Shuffle(m.st, Shuffles[i.op])]
    [] i.op \in {"scope_get_var", "get_var_undef", "delete_var", "make_ref", "get_ref_value", "put_ref_value"} -> Variables(m, i)
    [] i.op \in {"get_super", "get_field", "get_field2", "get_array_el", "get_array_el2", "get_super_value", "put_field",
                 "put_array_el", "put_super_value", "to_propkey", "to_propkey2", "delete"} -> Properties(m, i)
    [] i.op \in {"array_from", "push_i32", "append", "define_array_el", "inc_index", "call", "call_method",
                 "call_constructor", "apply"} -> Calls(m, i)
    [] OTHER -> Operators(m, i)

Target(code, l) == CHOOSE i \in DOMAIN code : code[i] = Ins("label", "", l, 0)

RECURSIVE Run(_, _, _)
Run(code, pc, m) ==
  IF pc > Len(code) THEN m
  ELSE LET i == code[pc]
       IN CASE i.op = "goto" -> Run(code, Target(code, i.l), m)
            [] i.op \in {"if_true", "if_false"} ->
                 Run(code, IF Truthy(At(m.st, 1)) = (i.op = "if_true") THEN Target(code, i.l) ELSE pc + 1,
                     [m EXCEPT !.st = Cut(@, 1)])
            [] i.op = "throw_delete_super" -> [m EXCEPT !.st = <<>>]
            [] OTHER -> Run(code, pc + 1, Execute(m, i))

\* Parse and run: the stack at the end and the log, or a SyntaxError.
EvalTokens(ts) ==
  LET p == js_parse_expr(Start(ts))
  IN IF ~p.ok \/ p.ts # <<>> THEN [ok |-> FALSE, st |-> <<>>, log |-> <<>>]
     ELSE LET m == Run(p.code, 1, [st |-> <<>>, log |-> <<>>]) IN [ok |-> TRUE, st |-> m.st, log |-> m.log]

-----------------------------------------------------------------------------
(* The reference: expressions as trees, how they are written with no more     *)
(* parentheses than the grammar of the language needs, and what they mean.   *)

Node(k, s, es) == [k |-> k, s |-> s, es |-> es]
Var(s) == Node("var", s, <<>>)
Field(e, s) == Node("field", s, <<e>>)
Index(e, x) == Node("index", "", <<e, x>>)
SuperField(s) == Node("super_field", s, <<>>)
SuperIndex(x) == Node("super_index", "", <<x>>)
CallOf(f, args) == Node("call", "", <<f>> \o args)
NewOf(f, args) == Node("new", "", <<f>> \o args)
BareNew(f) == Node("new0", "", <<f>>)
Spread(e) == Node("spread", "", <<e>>)
Unary(op, e) == Node("unary", op, <<e>>)
Update(k, e) == Node(k, "", <<e>>)
BinaryOf(op, a, b) == Node("binary", op, <<a, b>>)
Cond(a, b, c) == Node("cond", "", <<a, b, c>>)
Assign(op, a, b) == Node("assign", op, <<a, b>>)
Comma(a, b) == Node("comma", "", <<a, b>>)
Paren(e) == Node("paren", "", <<e>>)

\* The productions of the grammar, from the loosest.
OperatorLevel(op) ==
  CASE op = "||" -> 3 [] op = "&&" -> 4 [] op = "|" -> 5 [] op = "^" -> 6 [] op = "&" -> 7
    [] op \in {"==", "!="} -> 8 [] op \in {"<", "in"} -> 9 [] op \in {"<<", ">>"} -> 10
    [] op \in {"+", "-"} -> 11 [] op \in {"*", "/"} -> 12 [] op = "**" -> 13

RECURSIVE Level(_)
Level(e) ==
  CASE e.k = "comma" -> 0 [] e.k = "assign" -> 1 [] e.k = "cond" -> 2 [] e.k = "binary" -> OperatorLevel(e.s)
    [] e.k = "unary" -> 14 [] e.k \in {"pre", "post"} -> 15 [] e.k = "new0" -> 16 [] e.k = "call" -> 17
    [] e.k \in {"field", "index"} -> IF Level(e.es[1]) = 17 THEN 17 ELSE 18
    [] e.k \in {"super_field", "super_index", "new"} -> 18 [] OTHER -> 19

RECURSIVE Write(_, _)
Write(e, least) ==
  LET W(i, l) == Write(e.es[i], l)
      Args == <<"(">> \o FlattenSeq([i \in 1..Len(e.es) - 1 |-> (IF i = 1 THEN <<>> ELSE <<",">>) \o W(i + 1, 1)]) \o <<")">>
      ts == CASE e.k = "var" -> <<e.s>>
              [] e.k = "field" -> W(1, 17) \o <<".", e.s>>
              [] e.k = "index" -> W(1, 17) \o <<"[">> \o W(2, 0) \o <<"]">>
              [] e.k = "super_field" -> <<"super", ".", e.s>>
              [] e.k = "super_index" -> <<"super", "[">> \o W(1, 0) \o <<"]">>
              [] e.k = "call" -> W(1, 17) \o Args
              [] e.k = "new" -> <<"new">> \o W(1, 18) \o Args
              [] e.k = "new0" -> <<"new">> \o W(1, IF e.es[1].k = "new0" THEN 16 ELSE 18)
              [] e.k = "spread" -> <<"...">> \o W(1, 1)
              [] e.k = "unary" -> <<e.s>> \o W(1, 14)
              [] e.k = "pre" -> <<"++">> \o W(1, 14)
              [] e.k = "post" -> W(1, 16) \o <<"++">>
              [] e.k = "binary" -> IF e.s = "**" THEN W(1, 15) \o <<e.s>> \o W(2, 13)
                                   ELSE W(1, Level(e)) \o <<e.s>> \o W(2, Level(e) + 1)
              [] e.k = "cond" -> W(1, 3) \o <<"?">> \o W(2, 1) \o <<":">> \o W(3, 1)
              [] e.k = "assign" -> W(1, 16) \o <<e.s>> \o W(2, 1)
              [] e.k = "comma" -> W(1, 0) \o <<",">> \o W(2, 1)
              [] e.k = "paren" -> <<"(">> \o W(1, 0) \o <<")">>
  IN IF Level(e) >= least THEN ts ELSE <<"(">> \o ts \o <<")">>

\* Only references may be assigned to.
RECURSIVE IsTarget(_)
IsTarget(e) == \/ e.k = "var" /\ e.s \notin Numbers \cup {"this"}
               \/ e.k \in {"field", "index", "super_field", "super_index"}
               \/ e.k = "paren" /\ IsTarget(e.es[1])

RECURSIVE Legal(_)
Legal(e) == /\ e.k \in {"pre", "post", "assign"} => IsTarget(e.es[1])
            /\ \A i \in DOMAIN e.es : Legal(e.es[i])

\* x is [log, v]; a reference also has its base o, key k and receiver r.
RECURSIVE Evaluate(_, _)
RECURSIVE EvaluateArgs(_, _, _)
RECURSIVE Bare(_)
Bare(e) == IF e.k = "paren" THEN Bare(e.es[1]) ELSE e

Out(log, v) == [log |-> log, v |-> v]
Key(log, v) == IF IsKey(v) THEN Out(log, v) ELSE Out(Append(log, <<"key">> \o v), Append(v, "key"))

\* The reference that e denotes, if it denotes one; a variable has no base.
IsProperty(e) == e.k \in {"field", "index", "super_field", "super_index"}
Reference(e, log) ==
  LET home == <<"home_object", "proto">>
      this == Evaluate(Var("this"), log)
      base == Evaluate(e.es[1], log)
      inner == Evaluate(e.es[Len(e.es)], IF e.k = "index" THEN base.log ELSE this.log)
      key == Key(inner.log, inner.v)
      ref(l, o, k, r) == [log |-> l, o |-> o, k |-> k, r |-> r]
  IN CASE e.k = "var" -> ref(Append(log, <<"resolve", e.s>>), <<>>, <<e.s>>, <<>>)
       [] e.k = "field" -> ref(base.log, base.v, Name(e.s), base.v)
       [] e.k = "index" -> ref(key.log, base.v, key.v, base.v)
       [] e.k = "super_field" -> ref(this.log, home, Name(e.s), this.v)
       [] e.k = "super_index" -> ref(key.log, home, key.v, this.v)

GetValue(r, log) ==
  IF r.o = <<>> THEN Out(Append(log, <<"scope_get_var">> \o r.k), r.k)
  ELSE Out(Append(log, <<"get">> \o r.o \o r.k \o r.r), r.o \o r.k \o r.r \o <<"get">>)
PutValue(r, log, v) ==
  Append(log, IF r.o = <<>> THEN <<"put_var">> \o r.k \o v ELSE <<"set">> \o r.o \o r.k \o r.r \o v)

EvaluateArgs(es, log, acc) ==
  IF es = <<>> THEN Out(log, acc)
  ELSE LET spread == Head(es).k = "spread"
           x == Evaluate(IF spread THEN Head(es).es[1] ELSE Head(es), log)
       IN EvaluateArgs(Tail(es), IF spread THEN Append(x.log, <<"spread">> \o x.v) ELSE x.log,
                       Append(acc, (IF spread THEN <<"...">> ELSE <<>>) \o x.v))

Operate(op, log, x, y) == Out(Append(log, <<op>> \o x \o y), x \o y \o <<op>>)

Evaluate(e, log) ==
  LET sub(i, l) == Evaluate(e.es[i], l)
      target == Bare(e.es[1])
      r == Reference(target, log)
      old == GetValue(r, r.log)
      number == Append(old.log, <<"number">> \o old.v)
      plus == old.v \o <<"number", "1", "+">>
      x == sub(1, log)
  IN CASE e.k = "var" -> Out(IF e.s \in Numbers THEN log ELSE Append(log, <<"scope_get_var", e.s>>), <<e.s>>)
       [] e.k = "paren" -> x
       [] IsProperty(e) -> LET p == Reference(e, log) IN GetValue(p, p.log)
       [] e.k = "call" -> LET f == IF IsProperty(target) THEN old ELSE x
                              this == IF IsProperty(target) THEN r.r ELSE <<"undefined">>
                              args == EvaluateArgs(Tail(e.es), f.log, <<>>)
                              c == Apply(f.v, this, args.v, "call")
                          IN Out(Append(args.log, c), Append(c, "result"))
       [] e.k \in {"new", "new0"} -> LET args == EvaluateArgs(Tail(e.es), x.log, <<>>)
                                         c == Apply(x.v, x.v, args.v, "new")
                                     IN Out(Append(args.log, c), Append(c, "result"))
       [] e.k = "pre" -> Out(PutValue(r, number, plus), plus)
       [] e.k = "post" -> Out(PutValue(r, number, plus), Append(old.v, "number"))
       [] e.k = "unary" /\ e.s = "!" -> Out(x.log, Append(x.v, "!"))
       [] e.k = "unary" /\ e.s = "-" -> Out(Append(x.log, <<"neg">> \o x.v), Append(x.v, "neg"))
       [] e.k = "unary" /\ e.s = "void" -> Out(x.log, <<"undefined">>)
       [] e.k = "unary" /\ e.s = "typeof" ->
            LET free == target.k = "var" /\ target.s \notin Numbers
                y == IF free THEN Out(Append(log, <<"get_var_undef", target.s>>), <<target.s>>) ELSE x
            IN Out(Append(y.log, <<"typeof">> \o y.v), Append(y.v, "typeof"))
       [] e.k = "unary" /\ e.s = "delete" ->
            CASE target.k = "var" /\ target.s \notin Numbers \cup {"this"} ->
                   Out(Append(log, <<"delete_var", target.s>>), <<"deleted", target.s>>)
              [] IsProperty(target) -> Out(Append(r.log, <<"delete">> \o r.o \o r.k), <<"deleted">> \o r.o \o r.k)
              [] OTHER -> Out(x.log, <<"true">>)
       [] e.k = "binary" /\ e.s = "&&" -> IF Truthy(x.v) THEN sub(2, x.log) ELSE x
       [] e.k = "binary" /\ e.s = "||" -> IF Truthy(x.v) THEN x ELSE sub(2, x.log)
       [] e.k = "binary" -> LET y == sub(2, x.log) IN Operate(e.s, y.log, x.v, y.v)
       [] e.k = "cond" -> IF Truthy(x.v) THEN sub(2, x.log) ELSE sub(3, x.log)
       [] e.k = "comma" -> sub(2, x.log)
       [] e.k = "assign" /\ e.s = "=" -> LET y == sub(2, r.log) IN Out(PutValue(r, y.log, y.v), y.v)
       [] e.k = "assign" -> LET y == sub(2, old.log)
                                z == Operate(AssignOps[e.s], y.log, old.v, y.v)
                            IN Out(PutValue(r, z.log, z.v), z.v)

\* The code of the text of e does what e means, and leaves one value.
ExpressionRight(e, got) ==
  LET want == Evaluate(e, <<>>)
  IN IF Legal(e) THEN got.ok /\ got.st = <<want.v>> /\ got.log = want.log ELSE ~got.ok

-----------------------------------------------------------------------------
(* Expressions for the parser of Expressions: every form around every other. *)

L0 == {Var("a"), Var("f"), Var("1"), Var("this")}
S0 == {SuperField("a")}
Some == {Var("a"), Var("f")}
Ops == {"**", "*", "-", "<<", "<", "==", "&", "^", "|", "&&", "||"}
Over(E, R) ==
  {Field(e, "b") : e \in E} \cup {Index(e, x) : e \in E, x \in R} \cup {Index(x, e) : e \in E, x \in R}
  \cup {SuperIndex(e) : e \in E}
  \cup {CallOf(e, <<>>) : e \in E} \cup {CallOf(x, <<e>>) : e \in E, x \in R}
  \cup {CallOf(x, <<e, Spread(x), x>>) : e \in E, x \in R} \cup {CallOf(e, <<Spread(x)>>) : e \in E, x \in R}
  \cup {NewOf(e, <<x>>) : e \in E, x \in R} \cup {NewOf(x, <<Spread(e)>>) : e \in E, x \in R} \cup {BareNew(e) : e \in E}
  \cup {Unary(op, e) : op \in {"-", "!", "void", "typeof", "delete"}, e \in E}
  \cup {Update(k, e) : k \in {"pre", "post"}, e \in E}
  \cup {BinaryOf(op, e, x) : op \in Ops, e \in E, x \in R} \cup {BinaryOf(op, x, e) : op \in Ops, e \in E, x \in R}
  \cup {Cond(e, x, Var("b")) : e \in E, x \in R} \cup {Cond(x, e, Var("b")) : e \in E, x \in R}
  \cup {Cond(x, Var("b"), e) : e \in E, x \in R}
  \cup {Assign(op, e, x) : op \in {"=", "+="}, e \in E, x \in R} \cup {Assign(op, x, e) : op \in {"=", "+="}, e \in E, x \in R}
  \cup {Comma(e, x) : e \in E, x \in R} \cup {Comma(x, e) : e \in E, x \in R}
  \cup {Paren(e) : e \in E}
E1 == Over(L0 \cup S0, Some)
E2 == Over(E1, {Var("f")})
\* Forms that the compiler takes in another way than the grammar has them: a call
\* or a delete of a super property, and a constructor call inside a constructor
\* call without arguments.
RECURSIVE TakenApart(_)
TakenApart(e) ==
                \/ e.k = "call" /\ Bare(e.es[1]).k \in {"super_field", "super_index"}
                \/ e.k = "unary" /\ e.s = "delete" /\ Bare(e.es[1]).k \in {"super_field", "super_index"}
                \/ e.k \in {"new", "new0"} /\ e.es[1].k = "new"
                \/ e.k = "post" /\ e.es[1].k = "new0"
                \/ \E i \in DOMAIN e.es : TakenApart(e.es[i])
AskExpr(Ask(_)) == \E e \in E1 \cup E2 : ~TakenApart(e) /\ Ask([k |-> "expr", e |-> e])
=============================================================================
