----------------------------- MODULE Statements -----------------------------
(***************************************************************************)
(* The statement compiler of quickjs.c: js_parse_statement_or_decl emits    *)
(* bytecode while it parses, with a chain of BlockEnv records (top_break)   *)
(* that says what a jump out of the statement has to undo.  A statement is  *)
(* a record whose field k names its kind; expressions are abstracted to an  *)
(* effect with an identity, a value, or a condition whose outcome the       *)
(* environment decides.  The code is a sequence of instructions in which    *)
(* labels stand for themselves, as before resolve_labels.  Every expression *)
(* also makes a closure (fclosure) over a variable of each open scope.      *)
(*                                                                          *)
(* Run, below, is the meaning ECMAScript gives to the same statement; the   *)
(* machine after it executes the code.                                    *)
(***************************************************************************)
EXTENDS Integers, Sequences, SequencesExt

-----------------------------------------------------------------------------
(* Statements.  Bodies of try, catch and finally are sequences (blocks); a   *)
(* missing catch or finally is <<>>, a present one <<block>>.                *)

Effect(i) == [k |-> "expr", v |-> i]
ThrowStmt(i) == [k |-> "throw", v |-> i]
\* Return(0) is a return without a value.
Return(i) == [k |-> "return", v |-> i]
Break(l) == [k |-> "break", name |-> l]
Continue(l) == [k |-> "continue", name |-> l]
Block(ss) == [k |-> "block", ss |-> ss]
If(a, b) == [k |-> "if", yes |-> a, no |-> b]
While(s) == [k |-> "while", body |-> s]
DoWhile(s) == [k |-> "do", body |-> s]
For(s) == [k |-> "for", body |-> s]
ForIn(n, s) == [k |-> "forin", n |-> n, body |-> s]
ForOf(n, how, s) == [k |-> "forof", n |-> n, how |-> how, body |-> s]
\* A case clause has its values vs (case 1: case 2: ...) and body; the default
\* clause has no values.
Switch(v, cs) == [k |-> "switch", v |-> v, cases |-> cs]
Try(b, c, f) == [k |-> "try", b |-> b, c |-> c, f |-> f]
Labelled(l, s) == [k |-> "label", name |-> l, body |-> s]

Loops == {"while", "do", "for", "forin", "forof"}

-----------------------------------------------------------------------------
(* Instructions: l is the label operand, v the value or scope operand.       *)

Instr(o, l, v) == [op |-> o, l |-> l, v |-> v]
Op(o) == Instr(o, 0, 0)
Goto(o, l) == Instr(o, l, 0)
Label(l) == Instr("label", l, 0)

\* One level of the BlockEnv chain; a label it does not have is -1.  scope is
\* the number of scopes open around it.
push_break_entry(name, brk, cont, drop, scope) ==
  [name |-> name, brk |-> brk, cont |-> cont, drop |-> drop, fin |-> -1, iter |-> FALSE, scope |-> scope]

\* sc is the sequence of the scopes that are open, innermost last.
push_scope(id) == <<Instr("enter_scope", 0, id)>>

close_scopes(sc, stop) ==
  [i \in 1..(Len(sc) - stop) |-> Instr("leave_scope", 0, sc[Len(sc) + 1 - i])]

pop_scope(id) == <<Instr("leave_scope", 0, id)>>

Repeat(ins, n) == [i \in 1..n |-> ins]

\* A change of UndoBlock: an iterator is dropped, not closed.
ForgetsIterator(be) ==
  Repeat(Op("drop"), be.drop)
    \o (IF be.fin = -1 THEN <<>> ELSE <<Op("undefined"), Goto("gosub", be.fin), Op("drop")>>)

\* What a jump that leaves be behind has to undo.
UndoBlock(be) ==
  (IF be.iter THEN <<Op("iterator_close")>> ELSE <<>>)
    \o Repeat(Op("drop"), IF be.iter THEN be.drop - 3 ELSE be.drop)
    \o (IF be.fin = -1 THEN <<>> ELSE <<Op("undefined"), Goto("gosub", be.fin), Op("drop")>>)

RECURSIVE emit_break(_, _, _, _)
emit_break(env, sc, name, is_cont) ==
  IF env = <<>> THEN <<Op("syntax_error")>>
  ELSE LET top == Head(env)
           target == IF is_cont THEN top.cont ELSE top.brk
       IN close_scopes(sc, top.scope)
          \o IF target # -1 /\ name \in {"", top.name}
             THEN <<Goto("goto", target)>>
             ELSE UndoBlock(top) \o emit_break(Tail(env), SubSeq(sc, 1, top.scope), name, is_cont)

\* A return through the blocks of env.  With hasval the stack top is the value
\* to return; drop counts the slots below it that are to go before the next
\* finally block runs.
RECURSIVE ReturnThrough(_, _, _)
ReturnThrough(env, drop, hasval) ==
  IF env = <<>> THEN <<Op(IF hasval THEN "return" ELSE "return_undef")>>
  ELSE LET top == Head(env)
           close == IF ~top.iter THEN <<>>
                    ELSE (IF hasval THEN <<>> ELSE <<Op("undefined")>>)
                         \o <<Op("iterator_close_return"), Op("iterator_close")>>
           has == hasval \/ top.iter
           d == (IF top.iter THEN -3 ELSE drop) + top.drop
       IN IF top.fin = -1 THEN close \o ReturnThrough(Tail(env), d, has)
          ELSE close \o Repeat(Op(IF has THEN "nip" ELSE "drop"), d) \o (IF has THEN <<>> ELSE <<Op("undefined")>>)
               \o <<Goto("gosub", top.fin)>> \o ReturnThrough(Tail(env), 0, TRUE)

emit_return(env, hasval) == ReturnThrough(env, 0, hasval)

js_is_live_code(code) ==
  code = <<>> \/ Last(code).op \notin {"return", "return_undef", "throw", "goto", "ret"}

-----------------------------------------------------------------------------
(* The compiler: Compile(s, env, sc, n) is the code of s under the BlockEnv   *)
(* chain env, inside the scopes sc, with n the next free number for a label   *)
(* or a scope, and the next free number after it.                             *)

Emit(c, n) == [code |-> c, n |-> n]

RECURSIVE Compile(_, _, _, _)
RECURSIVE CompileAll(_, _, _, _)
RECURSIVE CompileCases(_, _, _, _, _)

CompileAll(ss, env, sc, n) ==
  IF ss = <<>> THEN Emit(<<>>, n)
  ELSE LET a == Compile(Head(ss), env, sc, n)
           b == CompileAll(Tail(ss), env, sc, a.n)
       IN Emit(a.code \o b.code, b.n)

js_parse_block(ss, env, sc, n) ==
  IF ss = <<>> THEN Emit(<<>>, n)
  ELSE LET b == CompileAll(ss, env, Append(sc, n), n + 1)
       IN Emit(push_scope(n) \o b.code \o pop_scope(n), b.n)

CompileLabelled(s, env, sc, n) ==
  LET b == Compile(s.body, <<push_break_entry(s.name, n, -1, 0, Len(sc))>> \o env, sc, n + 1)
  IN Emit(b.code \o <<Label(n)>>, b.n)

CompileIf(s, env, sc, n) ==
  LET a == Compile(s.yes, env, Append(sc, n), n + 3)
      b == Compile(s.no, env, Append(sc, n), a.n)
  IN Emit(push_scope(n) \o <<Op("cond"), Goto("if_false", n + 1)>> \o a.code
          \o <<Goto("goto", n + 2), Label(n + 1)>> \o b.code \o <<Label(n + 2)>> \o pop_scope(n), b.n)

CompileWhile(s, name, env, sc, n) ==
  LET b == Compile(s.body, <<push_break_entry(name, n + 1, n, 0, Len(sc))>> \o env, sc, n + 2)
  IN Emit(<<Label(n), Op("cond"), Goto("if_false", n + 1)>> \o b.code \o <<Goto("goto", n), Label(n + 1)>>, b.n)

CompileDo(s, name, env, sc, n) ==
  LET b == Compile(s.body, <<push_break_entry(name, n + 1, n, 0, Len(sc))>> \o env, sc, n + 3)
  IN Emit(<<Label(n + 2)>> \o b.code \o <<Label(n), Op("cond"), Goto("if_true", n + 2), Label(n + 1)>>, b.n)

\* for (let i; cond; i++), with the increment moved behind the body; n is the
\* scope of i, n + 1 label_test, n + 2 label_cont, n + 3 label_body and n + 4
\* label_break.
CompileFor(s, name, env, sc, n) ==
  LET in == Append(sc, n)
      b == Compile(s.body, <<push_break_entry(name, n + 4, n + 2, 0, Len(in))>> \o env, in, n + 5)
      close == close_scopes(in, Len(sc))
  IN Emit(push_scope(n) \o <<Instr("assign", 0, n)>> \o close
          \o <<Label(n + 1), Op("cond"), Goto("if_false", n + 4), Goto("goto", n + 3), Label(n + 3)>> \o b.code \o close
          \o <<Label(n + 2), Instr("assign", 0, n), Goto("goto", n + 1), Label(n + 4)>> \o pop_scope(n), b.n)

\* For-in and for-of: n is label_cont, n + 1 label_body, n + 2 label_break, n + 3
\* label_next, n + 4 label_expr and n + 5 the scope of the loop variable.
ForInOfEntry(of, name, sc, n) ==
  [push_break_entry(name, n + 2, n, IF of THEN 3 ELSE 1, Len(sc)) EXCEPT !.iter = of]

\* The code that stores the next value in the loop variable.
ForInOfNext(n) == <<Label(n + 3), Instr("put_var", 0, n + 5), Goto("goto", n + 1)>>

\* The code that evaluates the expression and starts the enumeration.
ForInOfExpr(s, of, close, n) ==
  <<Label(n + 4), Instr(IF of THEN s.how ELSE "object", 0, s.n)>> \o close
    \o <<Op(IF of THEN "for_of_start" ELSE "for_in_start"), Goto("goto", n)>>

js_parse_for_in_of(s, name, env, sc, n) ==
  LET of == s.k = "forof"
      in == Append(sc, n + 5)
      b == Compile(s.body, <<ForInOfEntry(of, name, sc, n)>> \o env, in, n + 6)
      close == close_scopes(in, Len(sc))
  IN Emit(push_scope(n + 5) \o <<Goto("goto", n + 4)>> \o ForInOfExpr(s, of, close, n) \o ForInOfNext(n)
          \o <<Label(n + 1)>> \o b.code \o close
          \o <<Label(n), Op(IF of THEN "for_of_next" ELSE "for_in_next"), Goto("if_false", n + 3), Op("drop"),
               Label(n + 2), Op(IF of THEN "iterator_close" ELSE "drop")>> \o pop_scope(n + 5), b.n)

\* lcase is the pending label_case, -1 if none.  The dummy label of the default
\* clause is patched once the last label_case is known (CompileSwitch).
CompileCases(cs, lcase, env, sc, n) ==
  IF cs = <<>> THEN [code |-> <<>>, n |-> n, lcase |-> lcase]
  ELSE LET vs == Head(cs).vs
           skip == IF vs # <<>> /\ lcase # -1 THEN <<Goto("goto", n + 1), Label(lcase)>> ELSE <<>>
           equal(i) == <<Op("dup"), Instr("push", 0, vs[i]), Op("strict_eq")>>
           tests == FlattenSeq([i \in 1..(Len(vs) - 1) |-> equal(i) \o <<Goto("if_true", n + 1)>>])
           clause == IF vs = <<>> THEN (IF lcase = -1 THEN <<Goto("goto", n)>> ELSE <<>>) \o <<Op("default")>>
                     ELSE skip \o tests \o equal(Len(vs)) \o <<Goto("if_false", n)>>
                          \o (IF lcase # -1 \/ Len(vs) > 1 THEN <<Label(n + 1)>> ELSE <<>>)
           b == CompileAll(Head(cs).body, env, sc, n + 2)
           rest == CompileCases(Tail(cs), IF vs = <<>> /\ lcase # -1 THEN lcase ELSE n, env, sc, b.n)
       IN [rest EXCEPT !.code = clause \o b.code \o rest.code]

\* n is the scope of the body, n + 1 label_break.
CompileSwitch(s, env, sc, n) ==
  LET in == Append(sc, n)
      b == CompileCases(s.cases, -1, <<push_break_entry("", n + 1, -1, 1, Len(in))>> \o env, in, n + 2)
      patched == [i \in DOMAIN b.code |-> IF b.code[i] = Op("default") THEN Label(b.lcase) ELSE b.code[i]]
      hasDefault == \E i \in DOMAIN s.cases : s.cases[i].vs = <<>>
  IN Emit(<<Instr("push", 0, s.v)>> \o push_scope(n) \o patched
          \o (IF hasDefault \/ b.lcase = -1 THEN <<>> ELSE <<Label(b.lcase)>>)
          \o <<Label(n + 1), Op("drop")>> \o pop_scope(n), b.n)

\* n is label_catch, n + 1 label_catch2, n + 2 label_finally, n + 3 label_end;
\* n + 4 and n + 5 are the scopes of the catch variable and the catch block.
CompileTry(s, env, sc, n) ==
  LET be(drop, fin, scope) == [push_break_entry("", -1, -1, drop, scope) EXCEPT !.fin = fin]
      leave(code) == IF js_is_live_code(code)
                     THEN <<Op("drop"), Op("undefined"), Goto("gosub", n + 2), Op("drop"), Goto("goto", n + 3)>>
                     ELSE <<>>
      in == sc \o <<n + 4, n + 5>>
      b == js_parse_block(s.b, <<be(1, n + 2, Len(sc))>> \o env, sc, n + 6)
      c == IF s.c = <<>> THEN Emit(<<>>, b.n)
           ELSE js_parse_block(s.c[1], <<be(1, n + 2, Len(in))>> \o env, in, b.n)
      caught == c.code \o pop_scope(n + 5) \o pop_scope(n + 4)
      f == IF s.f = <<>> THEN Emit(<<>>, c.n)
           ELSE js_parse_block(s.f[1], <<be(2, -1, Len(sc))>> \o env, sc, c.n)
  IN Emit(<<Goto("catch", n)>> \o b.code \o leave(b.code)
          \o (IF s.c = <<>> THEN <<Label(n)>>
              ELSE push_scope(n + 4) \o <<Label(n), Instr("catch_var", 0, n + 4), Goto("catch", n + 1)>> \o push_scope(n + 5)
                   \o caught \o leave(caught) \o <<Label(n + 1)>>)
          \o <<Goto("gosub", n + 2), Op("throw"), Label(n + 2)>> \o f.code \o <<Op("ret"), Label(n + 3)>>, f.n)

CompileLoop(s, name, env, sc, n) ==
  CASE s.k = "while" -> CompileWhile(s, name, env, sc, n)
    [] s.k = "do" -> CompileDo(s, name, env, sc, n)
    [] s.k = "for" -> CompileFor(s, name, env, sc, n)
    [] s.k \in {"forin", "forof"} -> js_parse_for_in_of(s, name, env, sc, n)

Compile(s, env, sc, n) ==
  CASE s.k = "label" -> IF s.body.k \in Loops THEN CompileLoop(s.body, s.name, env, sc, n)
                        ELSE CompileLabelled(s, env, sc, n)
    [] s.k \in Loops -> CompileLoop(s, "", env, sc, n)
    [] s.k = "expr" -> Emit([i \in DOMAIN sc |-> Instr("fclosure", 0, sc[i])] \o <<Instr("effect", 0, s.v), Op("drop")>>, n)
    [] s.k = "throw" -> Emit(<<Instr("push", 0, s.v), Op("throw")>>, n)
    [] s.k = "return" -> Emit((IF s.v = 0 THEN <<>> ELSE <<Instr("push", 0, s.v)>>) \o emit_return(env, s.v # 0), n)
    [] s.k = "break" -> Emit(emit_break(env, sc, s.name, FALSE), n)
    [] s.k = "continue" -> Emit(emit_break(env, sc, s.name, TRUE), n)
    [] s.k = "block" -> js_parse_block(s.ss, env, sc, n)
    [] s.k = "if" -> CompileIf(s, env, sc, n)
    [] s.k = "switch" -> CompileSwitch(s, env, sc, n)
    [] s.k = "try" -> CompileTry(s, env, sc, n)

\* The code of a function body; js_parse_function_decl2 ends it with
\* emit_return(s, FALSE).  Labels and scopes are numbered from 1.
CompileFunction(ss) == CompileAll(ss, <<>>, <<>>, 1).code \o emit_return(<<>>, FALSE)

-----------------------------------------------------------------------------
(* What ECMAScript says the statements do.  A state st has the events so far  *)
(* and the number of conditions that still come out true; a completion adds   *)
(* its kind c ("normal", "break", "continue", "return", "throw") and its      *)
(* value or target v.                                                         *)

Completion(st, c, v) == [log |-> st.log, left |-> st.left, c |-> c, v |-> v]
Log(st, e) == [st EXCEPT !.log = Append(@, e)]
Normal(st) == Completion(st, "normal", "")
Holds(st) == st.left > 0
Ask(st) == [st EXCEPT !.left = IF @ > 0 THEN @ - 1 ELSE 0]

RECURSIVE Exec(_, _, _)
RECURSIVE ExecAll(_, _)
RECURSIVE Iterate(_, _, _, _)

\* A loop goes on after a normal body and a continue aimed at it.
GoesOn(r, names) == r.c = "normal" \/ (r.c = "continue" /\ r.v \in names)

\* How a loop that has ended completes.
LoopDone(r, names) == IF r.c = "break" /\ r.v \in names THEN Normal(r) ELSE r

ExecAll(ss, st) ==
  IF ss = <<>> THEN Normal(st)
  ELSE LET r == Exec(Head(ss), {}, st) IN IF r.c = "normal" THEN ExecAll(Tail(ss), r) ELSE r

\* IteratorClose: the exception of a throw completion wins over that of return.
CloseIterator(s, r) ==
  LET closed == Log(r, <<"close", s.n>>)
  IN IF s.how = "bad_return" /\ r.c # "throw" THEN Completion(closed, "throw", 99) ELSE closed

\* i counts the elements a for-in or for-of loop has left.
Iterate(s, names, i, st) ==
  IF s.k = "forof" /\ s.how = "bad_next" /\ i = 1 THEN Completion(st, "throw", 98)
  ELSE IF i = 0 THEN Normal(st)
  ELSE LET r == Exec(s.body, {}, st)
       IN IF GoesOn(r, names) THEN Iterate(s, names, i - 1, r)
          ELSE IF s.k = "forof" THEN LoopDone(CloseIterator(s, r), names) ELSE LoopDone(r, names)

RECURSIVE WhileLoop(_, _, _)
WhileLoop(s, names, st) ==
  IF ~Holds(st) THEN Normal(Ask(st))
  ELSE LET r == Exec(s.body, {}, Ask(st))
       IN IF GoesOn(r, names) THEN WhileLoop(s, names, r) ELSE LoopDone(r, names)

\* The clauses from the one selected on, each body falling into the next.
Selected(s) ==
  LET hits == {i \in DOMAIN s.cases : \E j \in DOMAIN s.cases[i].vs : s.cases[i].vs[j] = s.v}
      defaults == {i \in DOMAIN s.cases : s.cases[i].vs = <<>>}
      from == IF hits # {} THEN hits ELSE defaults
  IN IF from = {} THEN <<>>
     ELSE LET i == CHOOSE x \in from : \A y \in from : x <= y
          IN FlattenSeq([j \in 1..(Len(s.cases) + 1 - i) |-> s.cases[i + j - 1].body])

ExecTry(s, st) ==
  LET b == ExecAll(s.b, st)
      c == IF b.c = "throw" /\ s.c # <<>> THEN ExecAll(s.c[1], Log(b, <<"caught", b.v>>)) ELSE b
      f == IF s.f = <<>> THEN Normal(c) ELSE ExecAll(s.f[1], c)
  IN IF f.c = "normal" THEN [c EXCEPT !.log = f.log, !.left = f.left] ELSE f

\* names are the labels of s itself.
Exec(s, names, st) ==
  CASE s.k = "expr" -> Normal(Log(st, <<"effect", s.v>>))
    [] s.k \in {"throw", "return"} -> Completion(st, s.k, s.v)
    [] s.k \in {"break", "continue"} -> Completion(st, s.k, s.name)
    [] s.k = "block" -> ExecAll(s.ss, st)
    [] s.k = "if" -> Exec(IF Holds(st) THEN s.yes ELSE s.no, {}, Ask(st))
    [] s.k \in {"while", "for"} -> WhileLoop(s, names \cup {""}, st)
    [] s.k = "do" -> LET r == Exec(s.body, {}, st)
                     IN IF GoesOn(r, names \cup {""}) THEN WhileLoop(s, names \cup {""}, r)
                        ELSE LoopDone(r, names \cup {""})
    [] s.k \in {"forin", "forof"} -> Iterate(s, names \cup {""}, s.n, st)
    [] s.k = "switch" -> LoopDone(ExecAll(Selected(s), st), {""})
    [] s.k = "try" -> ExecTry(s, st)
    [] s.k = "label" -> LoopDone(Exec(s.body, {s.name}, st), {s.name})

\* The outcome of calling a function with body ss when conds conditions hold.
Meaning(ss, conds) ==
  LET r == ExecAll(ss, [log |-> <<>>, left |-> conds])
  IN [log |-> r.log, c |-> IF r.c = "throw" THEN "throw" ELSE "return", v |-> IF r.c = "normal" THEN 0 ELSE r.v]

-----------------------------------------------------------------------------
(* The part of the interpreter (JS_CallInternal in quickjs.c) that executes *)
(* what the statement compiler emits, one action per instruction, and the   *)
(* unwinding of the stack after an exception; with it the static pass that  *)
(* sizes the stack (compute_stack_size).                                    *)
(*                                                                          *)
(* A program is the body of a function, a sequence of statements.           *)
(* vmCaptured has the scopes whose variable is open, that is, still shared  *)
(* between the frame and a closure.                                         *)

CONSTANTS MaxConds    \* how many conditions come out true

VARIABLES vmBody,     \* the statements of the function
          vmCode,     \* their code, <<>> before js_create_function
          vmLevels,   \* the stack level of every instruction
          vmPc,       \* the next instruction
          vmStack,    \* the operand stack, top last
          vmException,\* the pending exception, 0 if none
          vmLog,      \* the effects so far
          vmLeft,     \* how many conditions still come out true
          vmCaptured, \* the scopes whose variable a closure shares
          vmStale,    \* a variable was assigned while an older closure shared it
          vmResult    \* [c, v] once the function is left, c = "" before
vmVars == <<vmBody, vmCode, vmLevels, vmPc, vmStack, vmException, vmLog, vmLeft, vmCaptured, vmStale, vmResult>>

Value(v) == [t |-> "value", v |-> v, n |-> 0]
Tagged(t, v) == [t |-> t, v |-> v, n |-> 0]
Undef == Tagged("undefined", 0)

-----------------------------------------------------------------------------
(* compute_stack_size: the level of every instruction that can be reached,    *)
(* -1 for the others, or failure.                                             *)

n_pop(o) ==
  CASE o \in {"drop", "if_true", "if_false", "throw", "return", "ret", "for_of_start", "for_in_start", "for_in_next",
              "put_var", "catch_var", "dup"} -> 1
    [] o \in {"nip", "strict_eq"} -> 2
    [] o \in {"for_of_next", "iterator_close"} -> 3
    [] o = "iterator_close_return" -> 4
    [] OTHER -> 0

n_push(o) ==
  CASE o \in {"push", "undefined", "effect", "object", "good", "bad_next", "bad_return", "cond", "catch", "nip",
              "strict_eq", "for_in_start"} -> 1
    [] o = "dup" -> 2
    [] o \in {"for_of_start", "for_in_next"} -> 3
    [] o = "iterator_close_return" -> 4
    [] o = "for_of_next" -> 5
    [] OTHER -> 0

Target(code, l) == CHOOSE i \in DOMAIN code : code[i] = Label(l)

\* The positions that follow position p, with their stack lengths, when the
\* instruction finds len values.
Successors(code, p, len) ==
  LET i == code[p]
      after == len + n_push(i.op) - n_pop(i.op)
      next == <<p + 1, after>>
  IN CASE i.op \in {"return", "return_undef", "throw", "ret"} -> {}
       [] i.op = "goto" -> {<<Target(code, i.l), after>>}
       [] i.op \in {"if_true", "if_false", "catch"} -> {<<Target(code, i.l), after>>, next}
       [] i.op = "gosub" -> {<<Target(code, i.l), after + 1>>, next}
       [] OTHER -> {next}

\* The position is in the code, has one stack length only, and its instruction
\* finds what it pops.
Consistent(code, found, p, len) == p \in DOMAIN code /\ len >= n_pop(code[p].op) /\ \A x \in found : x[1] = p => x[2] = len

\* The C code follows the jumps depth first; whether it fails does not depend
\* on the order.
RECURSIVE compute_stack_size_rec(_, _, _)
compute_stack_size_rec(code, found, new) ==
  IF new = {} THEN [ok |-> TRUE, found |-> found]
  ELSE IF \E x \in new : ~Consistent(code, found \cup new, x[1], x[2]) THEN [ok |-> FALSE, found |-> found]
  ELSE compute_stack_size_rec(code, found \cup new, UNION {Successors(code, x[1], x[2]) : x \in new} \ (found \cup new))

compute_stack_size(code) ==
  LET all == compute_stack_size_rec(code, {}, {<<1, 0>>})
  IN [ok |-> all.ok,
      tab |-> [i \in DOMAIN code |-> IF \E x \in all.found : x[1] = i THEN (CHOOSE x \in all.found : x[1] = i)[2] ELSE -1]]

-----------------------------------------------------------------------------
(* The interpreter.                                                           *)

Cur == vmCode[vmPc]
Running(o) == vmCode # <<>> /\ vmResult.c = "" /\ vmException = 0 /\ Cur.op \in o
Top == Last(vmStack)
Pop(n) == SubSeq(vmStack, 1, Len(vmStack) - n)
Goes(pc, stack) == vmPc' = pc /\ vmStack' = stack
Next1(stack) == Goes(vmPc + 1, stack)
Raises(e, stack) == vmException' = e /\ Goes(vmPc, stack)
Quiet == UNCHANGED <<vmBody, vmCode, vmLevels, vmLog, vmLeft, vmCaptured, vmStale, vmResult>>

VmInit(body) ==
  /\ vmBody = body
  /\ vmCode = <<>> /\ vmLevels = <<>> /\ vmPc = 1 /\ vmStack = <<>> /\ vmException = 0 /\ vmLog = <<>>
  /\ vmLeft = MaxConds /\ vmCaptured = {} /\ vmStale = FALSE /\ vmResult = [c |-> "", v |-> 0]

\* The function is parsed and its stack sized; either may fail, and nothing of
\* it runs then.
js_create_function ==
  /\ vmCode = <<>>
  /\ vmCode' = CompileFunction(vmBody)
  /\ LET size == compute_stack_size(vmCode')
         bad == \E i \in DOMAIN vmCode' : vmCode'[i].op = "syntax_error"
     IN /\ vmLevels' = IF bad THEN <<>> ELSE size.tab
        /\ vmResult' = IF bad THEN [c |-> "SyntaxError", v |-> 0]
                       ELSE IF ~size.ok THEN [c |-> "InternalError", v |-> 0] ELSE vmResult
  /\ UNCHANGED <<vmBody, vmPc, vmStack, vmException, vmLog, vmLeft, vmCaptured, vmStale>>

Push ==
  /\ Running({"push", "undefined", "object", "good", "bad_next", "bad_return", "label"})
  /\ Next1(CASE Cur.op = "push" -> Append(vmStack, Value(Cur.v))
             [] Cur.op = "undefined" -> Append(vmStack, Undef)
             [] Cur.op = "label" -> vmStack
             [] OTHER -> Append(vmStack, [t |-> Cur.op, v |-> Cur.v, n |-> Cur.v]))
  /\ Quiet /\ UNCHANGED vmException

\* An expression: its effect is seen outside.
DoEffect ==
  /\ Running({"effect"})
  /\ vmLog' = Append(vmLog, <<"effect", Cur.v>>)
  /\ Next1(Append(vmStack, Undef))
  /\ UNCHANGED <<vmBody, vmCode, vmLevels, vmLeft, vmCaptured, vmStale, vmResult, vmException>>

Condition ==
  /\ Running({"cond"})
  /\ Next1(Append(vmStack, Value(IF vmLeft > 0 THEN 1 ELSE 0)))
  /\ vmLeft' = IF vmLeft > 0 THEN vmLeft - 1 ELSE 0
  /\ UNCHANGED <<vmBody, vmCode, vmLevels, vmLog, vmCaptured, vmStale, vmResult, vmException>>

StackOps ==
  /\ Running({"drop", "nip", "dup", "strict_eq"})
  /\ Next1(CASE Cur.op = "drop" -> Pop(1)
             [] Cur.op = "nip" -> Append(Pop(2), Top)
             [] Cur.op = "dup" -> Append(vmStack, Top)
             [] Cur.op = "strict_eq" -> Append(Pop(2), Value(IF Top = Last(Pop(1)) THEN 1 ELSE 0)))
  /\ Quiet /\ UNCHANGED vmException

Jumps ==
  /\ Running({"goto", "if_true", "if_false"})
  /\ LET taken == \/ Cur.op = "goto"
                  \/ Cur.op = "if_true" /\ Top.v = 1
                  \/ Cur.op = "if_false" /\ Top.v = 0
     IN Goes(IF taken THEN Target(vmCode, Cur.l) ELSE vmPc + 1, IF Cur.op = "goto" THEN vmStack ELSE Pop(1))
  /\ Quiet /\ UNCHANGED vmException

OP_catch ==
  /\ Running({"catch"})
  /\ Next1(Append(vmStack, Tagged("catch", Target(vmCode, Cur.l))))
  /\ Quiet /\ UNCHANGED vmException

OP_gosub ==
  /\ Running({"gosub"})
  /\ Goes(Target(vmCode, Cur.l), Append(vmStack, Tagged("address", vmPc + 1)))
  /\ Quiet /\ UNCHANGED vmException

\* "invalid ret value" if the top is no return address.
OP_ret ==
  /\ Running({"ret"})
  /\ \/ Top.t = "address" /\ Goes(Top.v, Pop(1)) /\ UNCHANGED vmException
     \/ Top.t # "address" /\ Raises(97, vmStack)
  /\ Quiet

\* The variable of a scope: a closure shares its slot of the frame; entering it and assigning to it write the slot of
\* the frame, leaving it detaches the closures that share the slot.
Scopes ==
  /\ Running({"fclosure", "enter_scope", "leave_scope", "assign", "put_var", "catch_var"})
  /\ vmCaptured' = CASE Cur.op = "fclosure" -> vmCaptured \cup {Cur.v}
                      [] Cur.op = "leave_scope" -> vmCaptured \ {Cur.v}
                      [] OTHER -> vmCaptured
  /\ vmStale' = (vmStale \/ (Cur.op \notin {"fclosure", "leave_scope"} /\ Cur.v \in vmCaptured))
  /\ vmLog' = IF Cur.op = "catch_var" THEN Append(vmLog, <<"caught", Top.v>>) ELSE vmLog
  /\ Next1(IF Cur.op \in {"put_var", "catch_var"} THEN Pop(1) ELSE vmStack)
  /\ UNCHANGED <<vmBody, vmCode, vmLevels, vmLeft, vmResult, vmException>>

OP_for_of_start ==
  /\ Running({"for_of_start"})
  /\ Next1(vmStack \o <<Tagged("method", 0), Tagged("catch", 0)>>)
  /\ Quiet /\ UNCHANGED vmException

\* js_for_of_next: a finished or failed iterator is replaced by undefined.
OP_for_of_next ==
  /\ Running({"for_of_next"})
  /\ LET it == vmStack[Len(vmStack) - 2]
         rec(x) == [vmStack EXCEPT ![Len(vmStack) - 2] = x]
     IN \/ it.t = "bad_next" /\ it.v = 1 /\ Raises(98, rec(Undef))
        \/ /\ ~(it.t = "bad_next" /\ it.v = 1)
           /\ Next1(IF it.t = "undefined" \/ it.v = 0
                    THEN rec(Undef) \o <<Undef, Value(1)>>
                    ELSE rec([it EXCEPT !.v = @ - 1]) \o <<Value(it.v), Value(0)>>)
           /\ UNCHANGED vmException
  /\ Quiet

OP_for_in ==
  /\ Running({"for_in_start", "for_in_next"})
  /\ Next1(IF Cur.op = "for_in_start" THEN vmStack
           ELSE IF Top.v = 0 THEN vmStack \o <<Undef, Value(1)>>
           ELSE Append(Pop(1), [Top EXCEPT !.v = @ - 1]) \o <<Value(Top.v), Value(0)>>)
  /\ Quiet /\ UNCHANGED vmException

\* The catch offset and the next method go first, so that an exception of
\* return() is not caught by the loop it closes.
OP_iterator_close ==
  /\ Running({"iterator_close"})
  /\ LET it == vmStack[Len(vmStack) - 2]
     IN /\ vmLog' = IF it.t = "undefined" THEN vmLog ELSE Append(vmLog, <<"close", it.n>>)
        /\ \/ it.t = "bad_return" /\ Raises(99, Pop(2))
           \/ it.t # "bad_return" /\ Next1(Pop(3)) /\ UNCHANGED vmException
  /\ UNCHANGED <<vmBody, vmCode, vmLevels, vmLeft, vmCaptured, vmStale, vmResult>>

\* Drops what lies between the returned value and the iterator, and puts the
\* value below it.
OP_iterator_close_return ==
  /\ Running({"iterator_close_return"})
  /\ LET c == CHOOSE i \in 1..(Len(vmStack) - 1) :
                vmStack[i].t = "catch" /\ \A j \in (i + 1)..(Len(vmStack) - 1) : vmStack[j].t # "catch"
     IN Next1(SubSeq(vmStack, 1, c - 3) \o <<Top>> \o SubSeq(vmStack, c - 2, c))
  /\ Quiet /\ UNCHANGED vmException

OP_throw ==
  /\ Running({"throw"})
  /\ Raises(Top.v, Pop(1))
  /\ Quiet

OP_return ==
  /\ Running({"return", "return_undef"})
  /\ vmResult' = [c |-> "return", v |-> IF Cur.op = "return" THEN Top.v ELSE 0]
  /\ Next1(<<>>)
  /\ UNCHANGED <<vmBody, vmCode, vmLevels, vmLog, vmLeft, vmCaptured, vmStale, vmException>>

\* The label exception: of JS_CallInternal, one slot at a time.
Unwind ==
  /\ vmResult.c = "" /\ vmException # 0
  /\ \/ vmStack = <<>>
        /\ vmResult' = [c |-> "throw", v |-> vmException]
        /\ UNCHANGED <<vmPc, vmStack, vmException, vmLog>>
     \/ /\ vmStack # <<>> /\ Top.t # "catch"
        /\ Raises(vmException, Pop(1)) /\ UNCHANGED <<vmLog, vmResult>>
     \/ /\ vmStack # <<>> /\ Top.t = "catch" /\ Top.v = 0
        /\ Raises(vmException, Pop(2))
        /\ LET it == vmStack[Len(vmStack) - 2]
           IN vmLog' = IF it.t = "undefined" THEN vmLog ELSE Append(vmLog, <<"close", it.n>>)
        /\ UNCHANGED vmResult
     \/ /\ vmStack # <<>> /\ Top.t = "catch" /\ Top.v # 0
        /\ Goes(Top.v, Append(Pop(1), Value(vmException)))
        /\ vmException' = 0 /\ UNCHANGED <<vmLog, vmResult>>
  /\ UNCHANGED <<vmBody, vmCode, vmLevels, vmLeft, vmCaptured, vmStale>>

VmNext ==
  \/ js_create_function \/ Push \/ DoEffect \/ Condition \/ StackOps \/ Jumps
  \/ OP_catch \/ OP_gosub \/ OP_ret \/ Scopes
  \/ OP_for_of_start \/ OP_for_of_next \/ OP_for_in
  \/ OP_iterator_close \/ OP_iterator_close_return
  \/ OP_throw \/ OP_return \/ Unwind


-----------------------------------------------------------------------------
(* Properties.                                                               *)

\* A break or continue without a label directly inside a labelled statement
\* that is no loop.  emit_break takes that statement for its target.
RECURSIVE PlainJumps(_)
RECURSIVE MistakesLabel(_)
PlainJumps(s) ==
  CASE s.k = "break" -> s.name = ""
    [] s.k = "block" -> \E i \in DOMAIN s.ss : PlainJumps(s.ss[i])
    [] s.k = "if" -> PlainJumps(s.yes) \/ PlainJumps(s.no)
    [] s.k = "label" -> s.body.k \notin Loops /\ PlainJumps(s.body)
    [] s.k = "try" -> \E b \in {s.b} \cup ToSet(s.c) \cup ToSet(s.f) : \E i \in DOMAIN b : PlainJumps(b[i])
    [] OTHER -> FALSE

MistakesLabel(s) ==
  CASE s.k = "label" -> (s.body.k \notin Loops /\ PlainJumps(s.body)) \/ MistakesLabel(s.body)
    [] s.k \in Loops -> MistakesLabel(s.body)
    [] s.k = "block" -> \E i \in DOMAIN s.ss : MistakesLabel(s.ss[i])
    [] s.k = "if" -> MistakesLabel(s.yes) \/ MistakesLabel(s.no)
    [] s.k = "switch" -> \E i \in DOMAIN s.cases : \E j \in DOMAIN s.cases[i].body : MistakesLabel(s.cases[i].body[j])
    [] s.k = "try" -> \E b \in {s.b} \cup ToSet(s.c) \cup ToSet(s.f) : \E i \in DOMAIN b : MistakesLabel(b[i])
    [] OTHER -> FALSE

\* The code runs as ECMAScript says the statements do: the same effects in the
\* same order, every iterator that is left early closed exactly once, every
\* finally block run on every way out, and the same value returned or thrown.
\* (Not for a plain break inside a labelled statement that is no loop: see
\* BreaksRight.)
DoesAsSource ==
  (vmResult.c \in {"return", "throw"} /\ ~\E i \in DOMAIN vmBody : MistakesLabel(vmBody[i]))
    => [log |-> vmLog, c |-> vmResult.c, v |-> vmResult.v] = Meaning(vmBody, MaxConds)

\* The stack never grows past the level that compute_stack_size gives for the
\* instruction, so the frame JS_CallInternal allocates is large enough; and
\* OP_ret always finds a return address.
StackFits ==
  /\ (vmCode # <<>> /\ vmResult.c = "" /\ vmException = 0) => Len(vmStack) <= vmLevels[vmPc]
  /\ vmException # 97

\* As DoesAsSource, for every program: a plain break leaves the innermost loop
\* or switch, not the labelled block around it.
BreaksRight ==
  vmResult.c \in {"return", "throw"} => [log |-> vmLog, c |-> vmResult.c, v |-> vmResult.v] = Meaning(vmBody, MaxConds)

\* A closure made in one iteration of a loop, or in one execution of a block,
\* keeps the variables of that iteration: none of them is written by a later
\* one.
ClosuresKeepTheirs == ~vmStale

\* The stack pass refuses no function the parser accepts.
SizesEverything == vmResult.c # "InternalError"

\* The code of a function body does what the body means, within the stack that
\* compute_stack_size has found.
StatementsRight == DoesAsSource /\ StackFits
=============================================================================
