------------------------------ MODULE Builtins ------------------------------
(***************************************************************************)
(* Built-in functions of quickjs.c as operators: those of Array and        *)
(* Array.prototype, the read-modify-write operations of Atomics, and Date. *)
(*                                                                         *)
(* Arrays.  Several functions have a path of their own for fast arrays,    *)
(* whose elements are contiguous and kept apart from the other properties; *)
(* the others go through the generic property calls.  Each is a function   *)
(* of the state of the array it works on; ArraysRight compares the two     *)
(* paths and, for arrays that allow every change, the result with what the *)
(* language says.                                                          *)
(***************************************************************************)
EXTENDS Integers, Sequences, FiniteSets, FiniteSetsExt, SequencesExt, Functions, Bitwise

\* A state: the elements own (index -> value), the length, those of the
\* prototype, and what may not be changed.  ok is FALSE after an exception,
\* which makes every later step void.  ret is what the call returns.
\*   [own, len, fast, proto, ext, lenw, fixed, ok, ret]
Undefined == -1
Count(s) == Cardinality(DOMAIN s.own)

JS_HasProperty(s, i) == i \in DOMAIN s.own \cup DOMAIN s.proto
JS_GetPropertyInt64(s, i) ==
  IF i \in DOMAIN s.own THEN s.own[i] ELSE IF i \in DOMAIN s.proto THEN s.proto[i] ELSE Undefined

With(f, i, v) == [j \in DOMAIN f \cup {i} |-> IF j = i THEN v ELSE f[j]]
Less(f, I) == [j \in DOMAIN f \ I |-> f[j]]
Throw(s) == [s EXCEPT !.ok = FALSE]
Returning(s, v) == IF s.ok THEN [s EXCEPT !.ret = v] ELSE s

\* A fast array grows at its end only, otherwise it becomes a normal one.
JS_SetPropertyInt64(s, i, v) ==
  IF ~s.ok THEN s
  ELSE IF i \in s.fixed \/ (i \notin DOMAIN s.own /\ (~s.ext \/ (i >= s.len /\ ~s.lenw))) THEN Throw(s)
  ELSE [s EXCEPT !.own = With(@, i, v), !.len = Max({@, i + 1}), !.fast = @ /\ i <= Count(s)]

JS_DeletePropertyInt64(s, i) ==
  IF ~s.ok \/ i \notin DOMAIN s.own THEN s
  ELSE IF i \in s.fixed THEN Throw(s)
  ELSE [s EXCEPT !.own = Less(@, {i}), !.fast = @ /\ i = Count(s) - 1]

\* Elements that cannot be deleted stop the truncation.
SetLength(s, n) ==
  LET keep == Max({n} \cup {i + 1 : i \in s.fixed})
  IN IF ~s.ok THEN s
     ELSE IF ~s.lenw THEN Throw(s)
     ELSE [s EXCEPT !.own = Less(@, {i \in DOMAIN @ : i >= keep}), !.len = keep, !.ok = keep = n]

JS_ToInt64Clamp(x, min, max, off) ==
  LET y == IF x < 0 THEN x + off ELSE x IN IF y < min THEN min ELSE IF y > max THEN max ELSE y

\* Arguments that may be left out.
None == 99
Arg(x, default) == IF x = None THEN default ELSE x

Each(s, F(_, _), n) == FoldLeft(F, s, [k \in 1..n |-> k - 1])

-----------------------------------------------------------------------------

JS_CopySubArray(s, to, from, count, dir) ==
  Each(s, LAMBDA t, i : LET k == IF dir < 0 THEN count - i - 1 ELSE i
                        IN IF ~t.ok THEN t
                           ELSE IF JS_HasProperty(t, from + k)
                           THEN JS_SetPropertyInt64(t, to + k, JS_GetPropertyInt64(t, from + k))
                           ELSE JS_DeletePropertyInt64(t, to + k), Max({count, 0}))

\* A new array that nothing restricts, with the prototype of s.
Fresh(s) == [own |-> [i \in {} |-> 0], len |-> 0, fast |-> TRUE, proto |-> s.proto, ext |-> TRUE, lenw |-> TRUE,
             fixed |-> {}, ok |-> TRUE, ret |-> <<>>]
Seen(t) == [own |-> t.own, len |-> t.len]

\* pop and shift
js_array_pop(s, shift) ==
  LET new == s.len - 1
      moved == IF shift THEN [i \in 0..new - 1 |-> s.own[i + 1]] ELSE [i \in 0..new - 1 |-> s.own[i]]
      v == JS_GetPropertyInt64(s, IF shift THEN 0 ELSE new)
      slow == JS_DeletePropertyInt64(IF shift THEN JS_CopySubArray(s, 0, 1, s.len - 1, 1) ELSE s, new)
  IN IF s.len = 0 THEN Returning(SetLength(s, 0), Undefined)
     ELSE IF s.fast /\ Count(s) = s.len THEN Returning(SetLength([s EXCEPT !.own = moved], new), v)
     ELSE Returning(SetLength(slow, new), v)

\* push and unshift
js_array_push(s, args, unshift) ==
  LET n == Len(args)
      from == IF unshift /\ n > 0 THEN 0 ELSE s.len
      open == IF unshift /\ n > 0 THEN JS_CopySubArray(s, n, 0, s.len, -1) ELSE s
      put == Each(open, LAMBDA t, i : JS_SetPropertyInt64(t, from + i, args[i + 1]), n)
  IN Returning(SetLength(put, s.len + n), s.len + n)

js_array_reverse(s) ==
  LET swap(t, l) ==
        LET h == s.len - 1 - l
            lv == JS_GetPropertyInt64(t, l)
            hv == JS_GetPropertyInt64(t, h)
        IN IF ~t.ok THEN t
           ELSE IF JS_HasProperty(t, h)
           THEN IF JS_HasProperty(t, l) THEN JS_SetPropertyInt64(JS_SetPropertyInt64(t, l, hv), h, lv)
                ELSE JS_DeletePropertyInt64(JS_SetPropertyInt64(t, l, hv), h)
           ELSE IF JS_HasProperty(t, l) THEN JS_SetPropertyInt64(JS_DeletePropertyInt64(t, l), h, lv) ELSE t
  IN IF s.fast /\ Count(s) = s.len THEN Returning([s EXCEPT !.own = [i \in DOMAIN @ |-> @[s.len - 1 - i]]], "this")
     ELSE Returning(Each(s, swap, s.len \div 2), "this")

\* The elements from start, count of them, in a new array: those of a fast
\* array first, the others through their properties.
CopyOut(s, start, count) ==
  LET n == IF s.fast THEN Max({0, Min({count, Count(s) - start})}) ELSE 0
      quick == Each(Fresh(s), LAMBDA t, i : JS_SetPropertyInt64(t, i, s.own[start + i]), n)
      rest == Each(quick, LAMBDA t, i : IF i >= n /\ JS_HasProperty(s, start + i)
                                        THEN JS_SetPropertyInt64(t, i, JS_GetPropertyInt64(s, start + i)) ELSE t, count)
  IN SetLength(rest, count)

js_array_slice(s, a, b) ==
  LET start == JS_ToInt64Clamp(a, 0, s.len, s.len)
      final == JS_ToInt64Clamp(Arg(b, s.len), 0, s.len, s.len)
  IN Returning(s, Seen(CopyOut(s, start, Max({final - start, 0}))))

\* items is <<>> when the delete count is left out too.
js_array_splice(s, a, d, items) ==
  LET start == JS_ToInt64Clamp(a, 0, s.len, s.len)
      del == IF d = None THEN s.len - start ELSE JS_ToInt64Clamp(d, 0, s.len - start, 0)
      n == Len(items)
      new == s.len + n - del
      moved == JS_CopySubArray(s, start + n, start + del, s.len - (start + del), IF n <= del THEN 1 ELSE -1)
      cut == Each(moved, LAMBDA t, i : JS_DeletePropertyInt64(t, s.len - 1 - i), Max({s.len - new, 0}))
      put == Each(IF n # del THEN cut ELSE s, LAMBDA t, i : JS_SetPropertyInt64(t, start + i, items[i + 1]), n)
  IN Returning(SetLength(put, new), Seen(CopyOut(s, start, del)))


js_array_copyWithin(s, a, b, c) ==
  LET to == JS_ToInt64Clamp(a, 0, s.len, s.len)
      from == JS_ToInt64Clamp(b, 0, s.len, s.len)
      final == JS_ToInt64Clamp(Arg(c, s.len), 0, s.len, s.len)
      count == Min({final - from, s.len - to})
  IN Returning(JS_CopySubArray(s, to, from, count, IF from < to /\ to < from + count THEN -1 ELSE 1), "this")

js_array_fill(s, v, a, b) ==
  LET start == JS_ToInt64Clamp(Arg(a, 0), 0, s.len, s.len)
      end == JS_ToInt64Clamp(Arg(b, s.len), 0, s.len, s.len)
  IN Returning(Each(s, LAMBDA t, i : JS_SetPropertyInt64(t, start + i, v), Max({end - start, 0})), "this")

\* The first n of ns for which P holds, or none.
First(ns, P(_), none) == LET hits == SelectSeq(ns, P) IN IF hits = <<>> THEN none ELSE Head(hits)
Up(a, b) == [i \in 1..Max({b - a, 0}) |-> a + i - 1]
Down(a) == [i \in 1..a + 1 |-> a + 1 - i]

\* includes and indexOf look at the fast elements, then at the rest.
js_array_indexOf(s, v, a) ==
  LET n == JS_ToInt64Clamp(Arg(a, 0), 0, s.len, s.len)
      fast == IF s.fast THEN First(Up(n, Count(s)), LAMBDA i : s.own[i] = v, -1) ELSE -1
      from == IF s.fast THEN Max({n, Count(s)}) ELSE n
  IN IF s.len = 0 THEN -1
     ELSE IF fast >= 0 THEN fast
     ELSE First(Up(from, s.len), LAMBDA i : JS_HasProperty(s, i) /\ JS_GetPropertyInt64(s, i) = v, -1)
js_array_includes(s, v, a) ==
  LET n == JS_ToInt64Clamp(Arg(a, 0), 0, s.len, s.len)
      fast == s.fast /\ \E i \in n..Count(s) - 1 : s.own[i] = v
      from == IF s.fast THEN Max({n, Count(s)}) ELSE n
  IN s.len > 0 /\ (fast \/ \E i \in from..s.len - 1 : JS_GetPropertyInt64(s, i) = v)
js_array_lastIndexOf(s, v, a) ==
  IF s.len = 0 THEN -1
  ELSE First(Down(JS_ToInt64Clamp(Arg(a, s.len - 1), -1, s.len - 1, s.len)),
             LAMBDA i : JS_HasProperty(s, i) /\ JS_GetPropertyInt64(s, i) = v, -1)

-----------------------------------------------------------------------------
(* Functions with a callback.  cb deletes the element cb.del when it is       *)
(* called for the element cb.at; its answer is whether the value is not 2.    *)

Calls(s, cb, i) == IF i = cb.at THEN JS_DeletePropertyInt64(s, cb.del) ELSE s
Answer(v) == v # 2
Visit(t, i, cb) == [Calls(t, cb, i) EXCEPT !.ret = Append(@, <<i, JS_GetPropertyInt64(t, i)>>)]

\* forEach, every, some, map and filter: ret is the calls made, and the
\* result; every and some stop at the first answer that decides.
js_array_every(s, special, cb) ==
  LET stops(t) == t.ret # <<>> /\ ((special = "every" /\ ~Answer(Last(t.ret)[2])) \/ (special = "some" /\ Answer(Last(t.ret)[2])))
      run == Each([s EXCEPT !.ret = <<>>],
                  LAMBDA t, k : IF ~t.ok \/ stops(t) \/ ~JS_HasProperty(t, k) THEN t ELSE Visit(t, k, cb), s.len)
      calls == run.ret
      result == CASE special = "every" -> ~stops(run)
                  [] special = "some" -> stops(run)
                  [] special = "forEach" -> TRUE
                  [] special = "map" -> Seen(FoldLeft(LAMBDA t, c : JS_SetPropertyInt64(t, c[1], 10 * c[2]), SetLength(Fresh(s), s.len), calls))
                  [] special = "filter" -> Seen(FoldLeft(LAMBDA t, c : IF Answer(c[2]) THEN JS_SetPropertyInt64(t, t.len, c[2]) ELSE t, Fresh(s), calls))
  IN Returning(run, [calls |-> calls, r |-> result])

\* The accumulator is the sequence of the values met, the first one included:
\* the argument init when there is one, or the first element present.
js_array_reduce(s, right, init, cb) ==
  LET at(k) == IF right THEN s.len - k - 1 ELSE k
      first == IF init # None THEN -1 ELSE First(Up(0, s.len), LAMBDA k : JS_HasProperty(s, at(k)), s.len)
      acc == IF init # None THEN <<>> ELSE <<<<at(first), JS_GetPropertyInt64(s, at(first))>>>>
      run == Each([s EXCEPT !.ret = acc],
                  LAMBDA t, k : IF k <= first \/ ~t.ok \/ ~JS_HasProperty(t, at(k)) THEN t ELSE Visit(t, at(k), cb), s.len)
  IN IF first = s.len THEN Throw(s) ELSE Returning(run, [init |-> init, met |-> run.ret])

\* find and findIndex see the missing elements too.
js_array_find(s, cb) ==
  LET run == Each([s EXCEPT !.ret = <<>>],
                  LAMBDA t, k : IF ~t.ok \/ (t.ret # <<>> /\ ~Answer(Last(t.ret)[2])) THEN t ELSE Visit(t, k, cb), s.len)
      found == run.ret # <<>> /\ ~Answer(Last(run.ret)[2])
  IN Returning(run, IF found THEN Last(run.ret)[1] ELSE -1)

-----------------------------------------------------------------------------

\* e is the sequence of the arguments, arrays or values, behind the array itself.
js_array_concat(s, e) ==
  LET spread(t, x) == [Each(t, LAMBDA u, k : IF JS_HasProperty(x, k) THEN JS_SetPropertyInt64(u, u.ret + k, JS_GetPropertyInt64(x, k)) ELSE u,
                            x.len) EXCEPT !.ret = @ + x.len]
      add(t, x) == IF x.array THEN spread(t, x.s) ELSE [JS_SetPropertyInt64(t, t.ret, x.v) EXCEPT !.ret = @ + 1]
      all == FoldLeft(add, spread([Fresh(s) EXCEPT !.ret = 0], s), e)
  IN Returning(s, Seen(SetLength(all, all.ret)))

\* Values from 20 on stand for arrays: nest[v] is the array.
RECURSIVE JS_FlattenIntoArray(_, _, _, _)
JS_FlattenIntoArray(t, s, depth, nest) ==
  Each(t, LAMBDA u, k : IF ~JS_HasProperty(s, k) THEN u
                        ELSE LET v == JS_GetPropertyInt64(s, k)
                             IN IF depth > 0 /\ v \in DOMAIN nest THEN JS_FlattenIntoArray(u, nest[v], depth - 1, nest)
                                ELSE JS_SetPropertyInt64(u, u.len, v), s.len)
js_array_flatten(s, depth, nest) == Returning(s, Seen(JS_FlattenIntoArray(Fresh(s), s, depth, nest)))

\* The comparison function given: none, one that orders downwards, one that
\* finds all values equal, one that throws, or something not callable.
Methods == <<"none", "down", "equal", "throws", "notCallable">>

\* Stable: equal values keep their order.  rqsort is modelled by its result.
js_array_cmp_generic(x, y, method) ==
  LET cmp == IF method = "none" THEN x.val - y.val ELSE IF method = "down" THEN y.val - x.val ELSE 0
  IN cmp < 0 \/ (cmp = 0 /\ x.pos < y.pos)

\* A method is not called for two identical values.  An exception of its is
\* found after the sort, before anything is written.
js_array_sort(s, method) ==
  LET here == SelectSeq(Up(0, s.len), LAMBDA i : JS_HasProperty(s, i))
      vals == [n \in DOMAIN here |-> [val |-> JS_GetPropertyInt64(s, here[n]), pos |-> here[n]]]
      array == SortSeq(SelectSeq(vals, LAMBDA x : x.val # Undefined), LAMBDA x, y : js_array_cmp_generic(x, y, method))
      exception == method = "throws" /\ \E x, y \in ToSet(array) : x.val # y.val
      undefined_count == Len(vals) - Len(array)
      put == Each(s, LAMBDA t, n : IF array[n + 1].pos = n THEN t ELSE JS_SetPropertyInt64(t, n, array[n + 1].val), Len(array))
      und == Each(put, LAMBDA t, n : JS_SetPropertyInt64(t, Len(array) + n, Undefined), undefined_count)
  IN IF method = "notCallable" \/ exception THEN Throw(s)
     ELSE Returning(Each(und, LAMBDA t, n : IF n < Len(vals) THEN t ELSE JS_DeletePropertyInt64(t, n), s.len), "this")

\* The iterator looks at the length again before each step.
js_array_iterator_next(s, idx) == IF idx >= s.len THEN <<>> ELSE <<idx, JS_GetPropertyInt64(s, idx)>>

\* An array literal with a spread element behind pos elements.  What a fast
\* array's length has beyond its elements becomes empty elements.
js_append_enumerate(s, pos) ==
  LET arr == Each(Fresh(s), LAMBDA t, i : JS_SetPropertyInt64(t, i, 5), pos)
      n == IF s.fast THEN Count(s) ELSE First(Up(0, s.len + 1), LAMBDA i : js_array_iterator_next(s, i) = <<>>, 0)
      elems == Each(arr, LAMBDA t, i : JS_SetPropertyInt64(t, pos + i, IF s.fast THEN s.own[i] ELSE js_array_iterator_next(s, i)[2]), n)
  IN Seen(IF s.fast /\ s.len > n THEN SetLength(elems, pos + s.len) ELSE elems)

js_array_constructor(s, args) ==
  IF Len(args) = 1 THEN SetLength(Fresh(s), args[1])
  ELSE Each(Fresh(s), LAMBDA t, i : JS_SetPropertyInt64(t, i, args[i + 1]), Len(args))

\* Array.from of an iterable, or of an object that has only a length, with or
\* without a function that maps (to ten times the value).  At step fails the
\* function, the iterator or a getter throws; next is called once more than
\* there are elements.  closed: the iterator's return method was called.
js_array_from(s, iterable, mapping, fails) ==
  LET start == IF iterable THEN Fresh(s) ELSE js_array_constructor(s, <<s.len>>)
      v(k) == IF mapping THEN 10 * JS_GetPropertyInt64(s, k) ELSE JS_GetPropertyInt64(s, k)
      all == Each(start, LAMBDA t, k : JS_SetPropertyInt64(t, k, v(k)), s.len)
      steps == IF iterable /\ ~mapping THEN s.len + 1 ELSE s.len
  IN IF fails < steps THEN [r |-> "exception", closed |-> iterable]
     ELSE [r |-> Seen(SetLength(all, s.len)), closed |-> FALSE]

-----------------------------------------------------------------------------
(* The calls, and what they have to do.                                      *)

\* The array that the value 2 stands for in flat.
Nested(s, y) == [s EXCEPT !.own = [i \in DOMAIN @ |-> IF i = y THEN 1 ELSE @[i]]]

\* c is [fn, x, y, z, e, cb]: numbers, arguments and a callback.
CallOf(s, c) ==
  CASE c.fn = "pop" -> js_array_pop(s, FALSE)
    [] c.fn = "shift" -> js_array_pop(s, TRUE)
    [] c.fn = "push" -> js_array_push(s, c.e, FALSE)
    [] c.fn = "unshift" -> js_array_push(s, c.e, TRUE)
    [] c.fn = "reverse" -> js_array_reverse(s)
    [] c.fn = "slice" -> js_array_slice(s, c.x, c.y)
    [] c.fn = "splice" -> js_array_splice(s, c.x, c.y, c.e)
    [] c.fn = "copyWithin" -> js_array_copyWithin(s, c.x, c.y, c.z)
    [] c.fn = "fill" -> js_array_fill(s, 7, c.x, c.y)
    [] c.fn = "sort" -> js_array_sort(s, Methods[c.x])
    [] c.fn = "indexOf" -> Returning(s, <<js_array_indexOf(s, c.x, c.y), js_array_lastIndexOf(s, c.x, c.y), js_array_includes(s, c.x, c.y)>>)
    [] c.fn \in {"every", "some", "forEach", "map", "filter"} -> js_array_every(s, c.fn, c.cb)
    [] c.fn = "reduce" -> js_array_reduce(s, FALSE, c.x, c.cb)
    [] c.fn = "reduceRight" -> js_array_reduce(s, TRUE, c.x, c.cb)
    [] c.fn = "find" -> js_array_find(s, c.cb)
    [] c.fn = "concat" -> js_array_concat(s, <<[array |-> TRUE, s |-> s, v |-> 0], [array |-> FALSE, s |-> s, v |-> 8]>>)
    [] c.fn = "flat" -> js_array_flatten(s, c.x, [v \in {2} |-> Nested(s, c.y)])
    [] c.fn = "from" -> Returning(s, js_array_from(s, c.x = 0, c.y = 1, c.z))
    [] c.fn = "spread" -> Returning(s, js_append_enumerate(s, c.x))

\* What a caller can see of it.
Observed(t) == [own |-> t.own, len |-> t.len, ok |-> t.ok, ret |-> IF t.ok THEN t.ret ELSE <<>>]

\* A fast array with a length beyond its elements is spread with empty elements
\* at the end, where the iterator would give undefined, or what is inherited.
SpreadsGap(s, c) == c.fn = "spread" /\ s.fast /\ s.len > Count(s)

\* The fast paths do what the generic ones do, in the state and in the
\* result, on arrays that refuse changes half way included, but for the end of
\* such a spread.
FastIsGeneric(s, c) == SpreadsGap(s, c) \/ Observed(CallOf(s, c)) = Observed(CallOf([s EXCEPT !.fast = FALSE], c))

\* An array of length n whose element i is V(i) where H(i) holds.
Made(n, H(_), V(_)) == [own |-> [i \in {j \in 0..n - 1 : H(j)} |-> V(i)], len |-> n]
Lowest(S) == IF S = {} THEN -1 ELSE Min(S)
Highest(S) == IF S = {} THEN -1 ELSE Max(S)

\* A number counted from the end when negative, within 0..n.
Clamped(x, n) == IF x < 0 THEN Max({0, n + x}) ELSE Min({x, n})

\* The array and the result of a call, for an array without restrictions.
Wanted(s, c) ==
  LET n == s.len
      H(i) == JS_HasProperty(s, i)
      V(i) == JS_GetPropertyInt64(s, i)
      own(i) == i \in DOMAIN s.own
      k == Len(c.e)
      a == Clamped(c.x, n)
      b == IF c.y = None THEN n ELSE Clamped(c.y, n)
      z == IF c.z = None THEN n ELSE Clamped(c.z, n)
      d == IF c.y = None THEN n - a ELSE Max({0, Min({c.y, n - a})})
      from == IF c.x = None THEN 0 ELSE a
      at == IF c.y = None THEN 0 ELSE Clamped(c.y, n)
      up == IF c.y = None THEN n - 1 ELSE IF c.y < 0 THEN n + c.y ELSE Min({c.y, n - 1})
      hits == {i \in 0..n - 1 : H(i) /\ V(i) = c.x}
      keep == Made(n, own, V)
      there(i) == i < n - 1 /\ H(i + 1)
      count == Min({z - b, n - a})
      copied(i) == i >= a /\ i < a + count
      present == SelectSeq(Up(0, n), H)
      vals == [i \in DOMAIN present |-> V(present[i])]
      defined == SelectSeq(vals, LAMBDA v : v # Undefined)
      ordered == CASE Methods[c.x] = "none" -> SortSeq(defined, <) [] Methods[c.x] = "down" -> SortSeq(defined, >) [] OTHER -> defined
      sorted == ordered \o SelectSeq(vals, LAMBDA v : v = Undefined)
      throwsAt == IF c.x = 0 /\ c.y = 0 THEN 0..n ELSE 0..n - 1
  IN CASE c.fn = "pop" -> <<Made(Max({n - 1, 0}), own, V), IF n = 0 THEN Undefined ELSE V(n - 1)>>
       [] c.fn = "shift" -> <<Made(Max({n - 1, 0}), there, LAMBDA i : V(i + 1)), IF n = 0 THEN Undefined ELSE V(0)>>
       [] c.fn = "push" -> <<Made(n + k, LAMBDA i : i >= n \/ own(i), LAMBDA i : IF i >= n THEN c.e[i - n + 1] ELSE V(i)), n + k>>
       [] c.fn = "unshift" -> <<Made(n + k, LAMBDA i : IF k = 0 THEN own(i) ELSE i < k \/ H(i - k),
                                     LAMBDA i : IF i < k THEN c.e[i + 1] ELSE V(i - k)), n + k>>
       [] c.fn = "reverse" -> <<Made(n, LAMBDA i : IF 2 * i = n - 1 THEN own(i) ELSE H(n - 1 - i), LAMBDA i : V(n - 1 - i)), "this">>
       [] c.fn = "slice" -> <<keep, Made(Max({0, b - a}), LAMBDA i : H(a + i), LAMBDA i : V(a + i))>>
       [] c.fn = "splice" ->
            <<Made(n + k - d, LAMBDA i : IF i < a THEN own(i) ELSE i < a + k \/ (IF k = d THEN own(i) ELSE H(i - k + d)),
                   LAMBDA i : IF i < a THEN V(i) ELSE IF i < a + k THEN c.e[i - a + 1] ELSE V(i - k + d)),
              Made(d, LAMBDA i : H(a + i), LAMBDA i : V(a + i))>>
       [] c.fn = "copyWithin" ->
            <<Made(n, LAMBDA i : IF copied(i) THEN H(b + i - a) ELSE own(i), LAMBDA i : IF copied(i) THEN V(b + i - a) ELSE V(i)), "this">>
       [] c.fn = "fill" -> <<Made(n, LAMBDA i : own(i) \/ (i >= from /\ i < b), LAMBDA i : IF i >= from /\ i < b THEN 7 ELSE V(i)), "this">>
       [] c.fn = "sort" -> <<Made(n, LAMBDA i : i < Len(sorted), LAMBDA i : sorted[i + 1]), "this">>
       [] c.fn = "indexOf" -> <<keep, <<Lowest({i \in hits : i >= at}), Highest({i \in hits : i <= up}),
                                        \E i \in at..n - 1 : V(i) = c.x>>>>
       [] c.fn = "concat" -> <<keep, Made(2 * n + 1, LAMBDA i : i = 2 * n \/ H(i % n), LAMBDA i : IF i = 2 * n THEN 8 ELSE V(i % n))>>
       [] c.fn = "from" -> <<keep, IF c.z \in throwsAt THEN [r |-> "exception", closed |-> c.x = 0]
                               ELSE [r |-> Made(n, LAMBDA i : TRUE, LAMBDA i : (IF c.y = 1 THEN 10 ELSE 1) * V(i)), closed |-> FALSE]>>
       [] c.fn = "spread" -> <<keep, Made(n + c.x, LAMBDA i : SpreadsGap(s, c) => i < c.x + Count(s), LAMBDA i : IF i < c.x THEN 5 ELSE V(i - c.x))>>

\* The elements a callback sees: those present when their turn comes.
Turns(s, c, order) ==
  LET later(i, j) == \E p, q \in DOMAIN order : order[p] = i /\ order[q] = j /\ p < q
      seenAt == JS_HasProperty(s, c.cb.at) \/ c.fn = "find"
      after(k) == IF seenAt /\ k = c.cb.del /\ later(c.cb.at, k) THEN [s EXCEPT !.own = Less(@, {k})] ELSE s
      all == [i \in DOMAIN order |-> <<order[i], JS_GetPropertyInt64(after(order[i]), order[i])>>]
  IN SelectSeq(all, LAMBDA x : c.fn = "find" \/ JS_HasProperty(after(x[1]), x[1]))

WantedCalls(s, c) ==
  LET t == Turns(s, c, Up(0, s.len))
      stop(P(_)) == LET hits == {i \in DOMAIN t : P(t[i][2])} IN IF hits = {} THEN t ELSE SubSeq(t, 1, Min(hits))
      no(v) == ~Answer(v)
  IN CASE c.fn = "every" -> [calls |-> stop(no), r |-> \A i \in DOMAIN stop(no) : Answer(stop(no)[i][2])]
       [] c.fn = "some" -> [calls |-> stop(Answer), r |-> \E i \in DOMAIN stop(Answer) : Answer(stop(Answer)[i][2])]
       [] c.fn = "forEach" -> [calls |-> t, r |-> TRUE]
       [] c.fn = "map" -> [calls |-> t, r |-> Made(s.len, LAMBDA i : \E x \in ToSet(t) : x[1] = i, LAMBDA i : 10 * (CHOOSE x \in ToSet(t) : x[1] = i)[2])]
       [] c.fn = "filter" -> LET f == SelectSeq(t, LAMBDA x : Answer(x[2]))
                             IN [calls |-> t, r |-> Made(Len(f), LAMBDA i : TRUE, LAMBDA i : f[i + 1][2])]

\* Present values; those of a nested array in its place.
Vals(s) == LET at == SelectSeq(Up(0, s.len), LAMBDA i : JS_HasProperty(s, i)) IN [i \in DOMAIN at |-> JS_GetPropertyInt64(s, at[i])]
WantedRest(s, c) ==
  LET up == Turns(s, c, Up(0, s.len))
      down == Turns(s, c, Down(s.len - 1))
      inner == Vals(Nested(s, c.y))
      flat == FlattenSeq([i \in DOMAIN Vals(s) |-> IF Vals(s)[i] = 2 /\ c.x > 0 THEN inner ELSE <<Vals(s)[i]>>])
  IN CASE c.fn = "reduce" -> [init |-> c.x, met |-> up]
       [] c.fn = "reduceRight" -> [init |-> c.x, met |-> down]
       [] c.fn = "find" -> LET hits == SelectSeq(up, LAMBDA x : ~Answer(x[2])) IN IF hits = <<>> THEN -1 ELSE Head(hits)[1]
       [] c.fn = "flat" -> Made(Len(flat), LAMBDA i : TRUE, LAMBDA i : flat[i + 1])

\* Does the call what the language says?  It leaves open how inherited
\* elements are sorted.  A sort whose function throws, which takes two values
\* to compare, leaves the array alone.
AsTheLanguage(s, c) ==
  LET t == CallOf(s, c)
      throws == CASE c.fn = "sort" -> Methods[c.x] = "notCallable" \/ (Methods[c.x] = "throws" /\ Cardinality(ToSet(Vals(s)) \ {Undefined}) > 1)
                  [] c.fn \in {"reduce", "reduceRight"} -> c.x = None /\ Vals(s) = <<>>
                  [] OTHER -> FALSE
  IN IF throws \/ ~t.ok THEN throws /\ ~t.ok /\ Seen(t) = Seen(s)
     ELSE IF c.fn = "sort" /\ DOMAIN s.proto # {} THEN TRUE
     ELSE IF c.fn \in {"every", "some", "forEach", "map", "filter"} THEN t.ret = WantedCalls(s, c)
     ELSE IF c.fn \in {"reduce", "reduceRight", "find", "flat"} THEN t.ret = WantedRest(s, c)
     ELSE <<Seen(t), t.ret>> = Wanted(s, c)

Unrestricted(s) == s.ext /\ s.lenw /\ s.fixed = {}

-----------------------------------------------------------------------------
(* The read-modify-write operations of Atomics, each one C11 atomic on an     *)
(* element of 8 or 16 bits.  The operands are converted to 32 bits and cut to *)
(* the element's size by the C11 operation; the old value is given back with  *)
(* the sign of the element.                                                   *)

AtWidth(cls) == IF cls \in {"Int8", "Uint8"} THEN 256 ELSE 65536
AsSigned(cls, raw) ==
  IF cls \in {"Int8", "Int16"} /\ raw >= AtWidth(cls) \div 2 THEN raw - AtWidth(cls) ELSE raw

\* v is the operand as the element holds it.
Result(cls, op, cell, v, rep) ==
  LET w == AtWidth(cls)
  IN CASE op = "ADD" -> (cell + v) % w
       [] op = "SUB" -> (cell - v) % w
       [] op = "AND" -> cell & (v % w)
       [] op = "OR" -> cell | (v % w)
       [] op = "XOR" -> cell ^^ (v % w)
       [] op = "EXCHANGE" -> v % w
       [] op = "COMPARE_EXCHANGE" -> IF cell = v THEN rep % w ELSE cell
       [] OTHER -> cell

js_atomics_op(cls, op, cell, v, rep) ==
  [cell |-> Result(cls, op, cell, v % AtWidth(cls), rep), ret |-> AsSigned(cls, cell)]

\* The number an element shows, and the one it holds after x was stored.
Shown(cls, x) ==
  LET half == IF cls \in {"Int8", "Int16"} THEN AtWidth(cls) \div 2 ELSE 0
  IN ((x + half) % AtWidth(cls)) - half

\* An operation on an element gives back the number the element showed and
\* leaves the one the operation makes of the numbers, whatever their sign: a
\* compareExchange finds an element equal to a negative number.
OpRight(cls, op, cell, v, rep) ==
  LET r == js_atomics_op(cls, op, cell, v, rep)
      old == Shown(cls, cell)
  IN /\ r.ret = old
     /\ Shown(cls, r.cell) =
          CASE op = "ADD" -> Shown(cls, old + v)
            [] op = "SUB" -> Shown(cls, old - v)
            [] op = "EXCHANGE" -> Shown(cls, v)
            [] op = "COMPARE_EXCHANGE" -> IF old = Shown(cls, v) THEN Shown(cls, rep) ELSE old
            [] op = "LOAD" -> old
            [] op = "XOR" -> Shown(cls, js_atomics_op(cls, "OR", cell, v, rep).cell - js_atomics_op(cls, "AND", cell, v, rep).cell)
            [] OTHER -> Shown(cls, r.cell)

-----------------------------------------------------------------------------
(* The Date built-in of quickjs.c: from a time value to the fields of a    *)
(* date and back, the setters, Date.UTC and the constructor, the four      *)
(* formats and Date.parse.                                                 *)
(*                                                                         *)
(* A time value is [d |-> day, ms |-> millisecond of the day], which       *)
(* stands for the integer d * 86400000 + ms of the code.  An argument      *)
(* is a number of halves (3 is 1.5) or NotFinite.  A text is a sequence of *)
(* tokens: <<"num", value, digits>>, <<"word", text>> or <<c>> for a       *)
(* single character c.                                                     *)

DayMs == 86400000
NotFinite == -999999999
NaNTime == [d |-> 0, ms |-> -1]
Epoch == [d |-> 0, ms |-> 0]

\* t + ms milliseconds
Shift(t, ms) == [d |-> t.d + ((t.ms + ms) \div DayMs), ms |-> (t.ms + ms) % DayMs]

\* C's operators: the quotient is rounded toward zero
CRem(a, b) == IF a >= 0 THEN a % b ELSE 0 - ((0 - a) % b)
CDiv(a, b) == IF a >= 0 THEN a \div b ELSE 0 - ((0 - a) \div b)

math_mod(a, b) == LET m == CRem(a, b) IN IF m < 0 THEN m + b ELSE m

floor_div(a, b) == CDiv(a - math_mod(a, b), b)

days_from_year(y) ==
    365 * (y - 1970) + floor_div(y - 1969, 4) - floor_div(y - 1901, 100)
        + floor_div(y - 1601, 400)

One(b) == IF b THEN 1 ELSE 0
days_in_year(y) ==
    365 + One(CRem(y, 4) = 0) - One(CRem(y, 100) = 0) + One(CRem(y, 400) = 0)

RECURSIVE YearFrom(_, _)
\* the corrections of the approximation y
YearFrom(d, y) ==
    LET d1 == d - days_from_year(y)
    IN  IF d1 < 0 THEN YearFrom(d, y - 1)
        ELSE IF d1 < days_in_year(y) THEN [y |-> y, days |-> d1]
        ELSE YearFrom(d, y + 1)

\* floor(d * 10000 / 3652425), without the large product
Approximate(d) == 400 * (d \div 146097) + ((400 * (d % 146097)) \div 146097)

year_from_days(d) == YearFrom(d, Approximate(d) + 1970)

month_days == <<31, 28, 31, 30, 31, 30, 31, 31, 30, 31, 30, 31>>
\* the length of month i (from 0) of year y
MonthLength(y, i) == month_days[i + 1] + (IF i = 1 THEN days_in_year(y) - 365 ELSE 0)

RECURSIVE MonthFrom(_, _, _)
MonthFrom(y, i, days) ==
    IF i = 11 \/ days < MonthLength(y, i) THEN [mon |-> i, day |-> days + 1]
    ELSE MonthFrom(y, i + 1, days - MonthLength(y, i))

RECURSIVE DaysBefore(_, _)
DaysBefore(y, m) == IF m = 0 THEN 0 ELSE DaysBefore(y, m - 1) + MonthLength(y, m - 1)

-----------------------------------------------------------------------------
(* The time zone, from the operating system: [at, before, after] has the   *)
(* offset before, then after (minutes to add to local time to get UTC).    *)
UTC == [at |-> Epoch, before |-> 0, after |-> 0]

Earlier(t, u) == t.d < u.d \/ (t.d = u.d /\ t.ms < u.ms)

getTimezoneOffset(zone, t) == IF Earlier(t, zone.at) THEN zone.before ELSE zone.after

-----------------------------------------------------------------------------
\* <<year, month, day, hour, minute, second, ms, weekday, offset>>; t is a number
get_date_fields(t, zone) ==
    LET tz == 0 - getTimezoneOffset(zone, t)
        l == Shift(t, tz * 60000)
        y == year_from_days(l.d)
        md == MonthFrom(y.y, 0, y.days)
    IN  <<y.y, md.mon, md.day, l.ms \div 3600000, (l.ms \div 60000) % 60,
          (l.ms \div 1000) % 60, l.ms % 1000, math_mod(l.d + 4, 7), tz>>

time_clip(t) ==
    IF t.d >= -100000000 /\ (t.d < 100000000 \/ t = [d |-> 100000000, ms |-> 0])
    THEN t ELSE NaNTime

set_date_fields(f, zone) ==
    LET m == math_mod(f[2], 12)
        y == f[1] + ((f[2] - m) \div 12)
        h == ((f[4] * 60 + f[5]) * 60 + f[6]) * 1000 + f[7]
        d == Shift([d |-> days_from_year(y) + DaysBefore(y, m) + f[3] - 1, ms |-> 0], h)
    IN  time_clip(Shift(d, getTimezoneOffset(zone, d) * 60000))

trunc(a) == CDiv(a, 2)

\* set_date_field for the fields first.. of a date: setFullYear is the one
\* setter that makes an invalid date valid
set_date_field(t, first, end, args, zone) ==
    LET n == IF Len(args) < end - first THEN Len(args) ELSE end - first
        fields == IF t = NaNTime THEN get_date_fields(Epoch, UTC) ELSE get_date_fields(t, zone)
        new == [i \in 1..7 |-> IF i > first /\ i <= first + n THEN trunc(args[i - first])
                               ELSE fields[i]]
    IN  IF \/ t = NaNTime /\ first # 0
           \/ args = <<>>
           \/ \E i \in 1..n : args[i] = NotFinite
        THEN NaNTime
        ELSE set_date_fields(new, zone)

Century(y) == IF y >= 0 /\ y < 100 THEN y + 1900 ELSE y

js_date_setYear(t, y, zone) ==
    set_date_field(t, 0, 1, <<IF y = NotFinite THEN y ELSE 2 * Century(trunc(y))>>, zone)

\* Date.UTC; the constructor with two or more arguments does the same in the
\* local zone
MakeFromArgs(args, zone) ==
    LET n == IF Len(args) > 7 THEN 7 ELSE Len(args)
        fields == [i \in 1..7 |->
                     IF i > n THEN IF i = 3 THEN 1 ELSE 0
                     ELSE IF i = 1 THEN Century(trunc(args[1])) ELSE trunc(args[i])]
    IN  IF n = 0 \/ \E i \in 1..n : args[i] = NotFinite THEN NaNTime
        ELSE set_date_fields(fields, zone)
js_Date_UTC(args) == MakeFromArgs(args, UTC)

\* get_date_field; NotFinite stands for NaN
get_date_field(t, n, zone, getYear) ==
    IF t = NaNTime THEN NotFinite
    ELSE get_date_fields(t, zone)[n + 1] - (IF getYear THEN 1900 ELSE 0)

-----------------------------------------------------------------------------
month_names == <<"Jan", "Feb", "Mar", "Apr", "May", "Jun", "Jul", "Aug", "Sep",
                 "Oct", "Nov", "Dec">>
day_names == <<"Sun", "Mon", "Tue", "Wed", "Thu", "Fri", "Sat">>

Abs(n) == IF n < 0 THEN 0 - n ELSE n
N(v, digits) == <<"num", v, digits>>
\* %0*d with 4 + (y < 0)
Year4(y) == (IF y < 0 THEN <<<<"-">>>> ELSE <<>>) \o <<N(Abs(y), 4)>>
Clock(f) == <<N(f[4], 2), <<":">>, N(f[5], 2), <<":">>, N(f[6], 2)>>

toUTCString(t) ==
    LET f == get_date_fields(t, UTC)
    IN  <<<<"word", day_names[f[8] + 1]>>, <<",">>, <<" ">>, N(f[3], 2), <<" ">>,
          <<"word", month_names[f[2] + 1]>>, <<" ">>>> \o Year4(f[1]) \o <<<<" ">>>>
          \o Clock(f) \o <<<<" ">>, <<"word", "GMT">>>>

toString(t, zone) ==
    LET f == get_date_fields(t, zone)
        tz == Abs(f[9])
    IN  <<<<"word", day_names[f[8] + 1]>>, <<" ">>, <<"word", month_names[f[2] + 1]>>, <<" ">>,
          N(f[3], 2), <<" ">>>> \o Year4(f[1]) \o <<<<" ">>>> \o Clock(f)
          \o <<<<" ">>, <<"word", "GMT">>, IF f[9] < 0 THEN <<"-">> ELSE <<"+">>,
               N(100 * (tz \div 60) + (tz % 60), 4)>>

toISOString(t) ==
    LET f == get_date_fields(t, UTC)
    IN  (IF f[1] >= 0 /\ f[1] <= 9999 THEN <<N(f[1], 4)>>
         ELSE <<IF f[1] < 0 THEN <<"-">> ELSE <<"+">>, N(Abs(f[1]), 6)>>)
        \o <<<<"-">>, N(f[2] + 1, 2), <<"-">>, N(f[3], 2), <<"word", "T">>>>
        \o Clock(f) \o <<<<".">>, N(f[7], 3), <<"word", "Z">>>>

-----------------------------------------------------------------------------
(* Date.parse.  p is a position in the text; ok is FALSE at an early end.  *)

IsNum(s, p) == p <= Len(s) /\ s[p][1] = "num"

RECURSIVE SkipTo(_, _)
SkipTo(s, p) == IF p > Len(s) \/ IsNum(s, p) THEN p ELSE SkipTo(s, p + 1)

string_get_field(s, p) ==
    LET q == SkipTo(s, p)
    IN  IF q > Len(s) THEN [ok |-> FALSE, v |-> 0, p |-> p]
        ELSE [ok |-> TRUE, v |-> s[q][2], p |-> q + 1]

RECURSIVE string_skip_spaces(_, _)
string_skip_spaces(s, p) ==
    IF p <= Len(s) /\ s[p] = <<" ">> THEN string_skip_spaces(s, p + 1) ELSE p

RECURSIVE string_skip_non_spaces(_, _)
string_skip_non_spaces(s, p) ==
    IF p <= Len(s) /\ s[p] # <<" ">> THEN string_skip_non_spaces(s, p + 1) ELSE p

IsSign(s, p) == p <= Len(s) /\ (s[p] = <<"-">> \/ s[p] = <<"+">>)

string_get_signed_field(s, p) ==
    LET r == string_get_field(s, IF IsSign(s, p) THEN p + 1 ELSE p)
    IN  IF p > Len(s) THEN [ok |-> FALSE, v |-> 0, p |-> p]
        ELSE IF s[p] = <<"-">> THEN [r EXCEPT !.v = 0 - @]
        ELSE r

string_get_month(s, p) ==
    LET q == string_skip_spaces(s, p)
        is == {i \in 1..12 : q <= Len(s) /\ s[q] = <<"word", month_names[i]>>}
    IN  IF is = {} THEN [ok |-> FALSE, v |-> 0, p |-> q]
        ELSE [ok |-> TRUE, v |-> (CHOOSE i \in is : TRUE) - 1, p |-> q + 1]

RECURSIVE NumericFields(_, _, _, _)
\* reads fields i.. up to last as long as there are any: [f, p, all]
NumericFields(s, p, f, last) ==
    LET r == string_get_field(s, p)
    IN  IF Len(f) = last THEN [f |-> f, p |-> p, all |-> TRUE]
        ELSE IF ~r.ok THEN [f |-> f, p |-> p, all |-> FALSE]
        ELSE NumericFields(s, r.p, Append(f, r.v), last)

Default == <<0, 1, 1, 0, 0, 0, 0>>

\* milliseconds as a fraction: the digits after the third round to nearest
Fraction(num) ==
    LET v == num[2]
        digits == num[3]
    IN  IF digits = 1 THEN v * 100
        ELSE IF digits = 2 THEN v * 10
        ELSE IF digits = 3 THEN v
        ELSE (v \div 10^(digits - 3))
             + One((v \div 10^(digits - 4)) % 10 >= 5)

ParseIso(s) ==
    LET y == string_get_signed_field(s, 1)
        more == NumericFields(s, y.p, <<y.v>>, 6)
        dot == /\ more.all /\ more.p <= Len(s) /\ s[more.p] = <<".">>
        p == IF dot THEN IF IsNum(s, more.p + 1) THEN more.p + 2 ELSE more.p + 1 ELSE more.p
        ms == IF dot /\ IsNum(s, more.p + 1) THEN Fraction(s[more.p + 1]) ELSE 0
        given == [i \in 1..7 |-> IF i <= Len(more.f) THEN more.f[i]
                                 ELSE IF i = 7 THEN ms ELSE Default[i]]
        hh == string_get_field(s, p)
        mm == string_get_field(s, hh.p)
        tz == IF IsSign(s, p) THEN hh.v * 60 + mm.v ELSE 0
    IN  IF ~y.ok \/ (IsSign(s, p) /\ ~(hh.ok /\ mm.ok)) THEN NaNTime
        ELSE LET t == set_date_fields([given EXCEPT ![2] = @ - 1], UTC)
             IN  IF t = NaNTime THEN t
                 ELSE Shift(t, 0 - (IF s[p] = <<"-">> THEN 0 - tz ELSE tz) * 60000)

RECURSIVE ZoneFrom(_, _)
\* [+-]HHmm anywhere in the rest of the text
ZoneFrom(s, p) ==
    IF p > Len(s) THEN [ok |-> TRUE, v |-> 0]
    ELSE IF ~IsSign(s, p) THEN ZoneFrom(s, p + 1)
    ELSE IF ~IsNum(s, p + 1) \/ s[p + 1][3] < 4 THEN [ok |-> FALSE, v |-> 0]
    ELSE LET n == s[p + 1][2] \div 10^(s[p + 1][3] - 4)
             v == (n \div 100) * 60 + (n % 100)
         IN  [ok |-> TRUE, v |-> IF s[p] = <<"-">> THEN 0 - v ELSE v]

ParseText(s) ==
    LET p0 == string_skip_spaces(s, string_skip_non_spaces(s, 1))
        dayFirst == IsNum(s, p0)
        day == IF dayFirst THEN string_get_field(s, p0)
               ELSE string_get_field(s, string_get_month(s, p0).p)
        mon == IF dayFirst THEN string_get_month(s, day.p) ELSE string_get_month(s, p0)
        year == string_get_signed_field(s, string_skip_spaces(s, IF dayFirst THEN mon.p ELSE day.p))
        clock == NumericFields(s, year.p, <<year.v, mon.v, day.v>>, 6)
        zone == ZoneFrom(s, clock.p)
        t == set_date_fields(Append(clock.f, 0), UTC)
    IN  IF p0 > Len(s) \/ ~day.ok \/ ~mon.ok \/ ~year.ok \/ ~clock.all \/ ~zone.ok THEN NaNTime
        ELSE IF t = NaNTime THEN t
        ELSE Shift(t, 0 - zone.v * 60000)

js_Date_parse(s) ==
    IF Len(s) > 0 /\ (IsNum(s, 1) \/ IsSign(s, 1)) THEN ParseIso(s) ELSE ParseText(s)

\* A single argument is [kind, v]: a Date and its time value, a text, or a whole
\* number of milliseconds.  now is date_now().
js_date_constructor(args, zone, now, isNew) ==
    LET a == args[1]
        val == IF ~isNew \/ args = <<>> THEN now
               ELSE IF Len(args) = 1 THEN time_clip(IF a.kind = "text" THEN js_Date_parse(a.v) ELSE a.v)
               ELSE MakeFromArgs(args, zone)
    IN  IF isNew THEN val ELSE toString(val, zone)

-----------------------------------------------------------------------------
(* The calendar by counting: years of 365 days, one more in a leap year.   *)

Leap(y) == y % 4 = 0 /\ (y % 100 # 0 \/ y % 400 = 0)
CountedDays(y) ==
    LET r == y % 400
    IN  146097 * (((y - r) \div 400) - 4) + 365 * (r - 370)
        + Cardinality({k \in 0..(r - 1) : Leap(k)}) - Cardinality({k \in 0..369 : Leap(k)})
CountedMonth(y, m) ==
    LET long == {0, 2, 4, 6, 7, 9, 11}
        length(k) == IF k \in long THEN 31 ELSE IF k # 1 THEN 30 ELSE IF Leap(y) THEN 29 ELSE 28
        RECURSIVE Total(_)
        Total(k) == IF k = 0 THEN 0 ELSE length(k - 1) + Total(k - 1)
    IN  Total(m)
\* ECMAScript's MakeDate(MakeDay(y, m, dt), MakeTime(h, mi, s, ms)) and TimeClip
TimeOf(y0, m0, dt, h, mi, s, ms) ==
    LET y == y0 + (m0 \div 12)
        m == m0 % 12
        t == Shift([d |-> CountedDays(y) + CountedMonth(y, m) + dt - 1, ms |-> 0],
                   h * 3600000 + mi * 60000 + s * 1000 + ms)
        inside == t.d >= -100000000 /\ (t.d < 100000000 \/ (t.d = 100000000 /\ t.ms = 0))
    IN  IF inside THEN t ELSE NaNTime

\* The fields of every time value are those of the calendar: they are in
\* their ranges, the weekday advances with the day, and counting the days of
\* the years and months before leads back to the time value.
DateFieldsRight(t) ==
    LET f == get_date_fields(t, UTC)
    IN  /\ f[2] \in 0..11 /\ f[3] \in 1..31 /\ f[4] \in 0..23 /\ f[5] \in 0..59 /\ f[6] \in 0..59
        /\ f[7] \in 0..999 /\ f[8] = (t.d + 4) % 7
        /\ f[3] <= CountedMonth(f[1], f[2] + 1) - CountedMonth(f[1], f[2])
        /\ TimeOf(f[1], f[2], f[3], f[4], f[5], f[6], f[7]) = t

\* Fields out of their ranges carry into the next larger ones, negative ones
\* included, exactly as the language's MakeDay and MakeTime define, and what
\* is beyond 100,000,000 days from the epoch is invalid; an argument that is
\* not finite makes the date invalid.
DateCarriesRight(args) ==
    js_Date_UTC(args) =
      LET a == [i \in 1..7 |-> IF i <= Len(args) THEN args[i] ELSE IF i = 3 THEN 2 ELSE 0]
          toward0(x) == IF x >= 0 THEN x \div 2 ELSE 0 - ((0 - x) \div 2)
          y == toward0(a[1])
      IN  IF args = <<>> \/ \E i \in 1..7 : a[i] = NotFinite THEN NaNTime
          ELSE TimeOf(IF y \in 0..99 THEN y + 1900 ELSE y, toward0(a[2]), toward0(a[3]),
                      toward0(a[4]), toward0(a[5]), toward0(a[6]), toward0(a[7]))

\* The time u shows the local time l in its zone.  set_date_fields takes the
\* offset that holds at l read as UTC: when the clock changes between the two,
\* the local time is off by the change.
LocalTimeOf(l, u, zone) ==
    LET tz == get_date_fields(u, zone)[9]
        change == IF Earlier(l, zone.at) = Earlier(u, zone.at) THEN 0
                  ELSE IF Earlier(l, zone.at) THEN zone.before - zone.after ELSE zone.after - zone.before
    IN  Shift(u, tz * 60000) = Shift(l, change * 60000)

FieldsTime(f) == TimeOf(f[1], f[2], f[3], f[4], f[5], f[6], f[7])

\* A setter changes its own field only: the local time it leaves is the old one
\* with the new value in its place, whatever carries into the larger fields
\* (but for a change of the clock, LocalTimeOf), and an invalid date stays
\* invalid but for setFullYear.
SetterKeepsRest(t, first, v, zone) ==
    LET u == set_date_field(t, first, first + 1, <<2 * v>>, zone)
        l == FieldsTime([get_date_fields(t, zone) EXCEPT ![first + 1] = v])
    IN  IF t = NaNTime THEN (u = NaNTime) = (first # 0)
        ELSE u = NaNTime \/ l = NaNTime \/ LocalTimeOf(l, u, zone)

WholeSeconds(t) == [t EXCEPT !.ms = @ - (@ % 1000)]

\* Date.parse undoes the formats: toISOString to the millisecond, and
\* toUTCString and toString, in whatever zone, to the second (toString up to
\* a day before the ends of the range: the local time is clipped before the
\* offset is taken off).
DateParsesBack(t, zone) ==
    /\ js_Date_parse(toISOString(t)) = t
    /\ js_Date_parse(toUTCString(t)) = WholeSeconds(t)
    /\ t.d \in -99999999..99999998 => js_Date_parse(toString(t, zone)) = WholeSeconds(t)

\* The constructor keeps the time of another date, reads a text as Date.parse
\* does, refuses a number out of range and takes several numbers as local
\* fields; called as a function it writes the time it is now.
DateConstructed(args, zone, now, isNew) ==
    LET r == js_date_constructor(args, zone, now, isNew)
        f == [i \in 1..7 |-> IF i <= Len(args) THEN trunc(args[i]) ELSE IF i = 3 THEN 1 ELSE 0]
        l == FieldsTime([f EXCEPT ![1] = Century(@)])
    IN  IF ~isNew THEN r = toString(now, zone)
        ELSE IF args = <<>> THEN r = now
        ELSE IF Len(args) > 1 /\ \E i \in 1..Min({Len(args), 7}) : args[i] = NotFinite THEN r = NaNTime
        ELSE IF Len(args) > 1 THEN r = NaNTime \/ l = NaNTime \/ LocalTimeOf(l, r, zone)
        ELSE CASE args[1].kind = "date" -> r = args[1].v
               [] args[1].kind = "text" -> r = js_Date_parse(args[1].v)
               [] OTHER -> r = IF args[1].v.d < 100000000 THEN args[1].v ELSE NaNTime
=============================================================================
