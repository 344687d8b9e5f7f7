----------------------------- MODULE TypedArrays -----------------------------
(***************************************************************************)
(* ArrayBuffer, the typed arrays and DataView of quickjs.c: buffers of bytes *)
(* shared by views of several element types, each buffer with the list of    *)
(* its views.  Functions work on the bytes (memmove, memset, loops over      *)
(* pointers of the element's type) or element by element through the         *)
(* property calls; AsElements compares each with what it means for the       *)
(* elements of the array.                                                    *)
(***************************************************************************)
EXTENDS Integers, Sequences, FiniteSets, SequencesExt, FiniteSetsExt

CONSTANTS TaScenes,    \* initial worlds
          TaClasses,   \* element types in use
          TaValues,    \* numbers stored and searched
          TaPos,       \* positions and offsets passed
          TaMaxOps,
          TaMaxViews

VARIABLES taWorld, taCall, taRet, taOps
taVars == <<taWorld, taCall, taRet, taOps>>

\* Elements of 8 and 16 bits; bytes in little endian order.
typed_array_size(cls) == IF cls \in {"Int8", "Uint8", "Uint8C"} THEN 1 ELSE IF cls = "DataView" THEN 1 ELSE 2
Signed(cls) == cls \in {"Int8", "Int16"}
Width(cls) == 256 ^ typed_array_size(cls)

None == 99
TaUndefined == 1000
Error == 1001

\* A buffer: its bytes, whether it is detached, and the ids of its views in
\* order.  A view: type, buffer, byte offset, byte length, and count, the
\* number of elements the property calls see.
NewBuf(d) == [data |-> d, detached |-> FALSE, list |-> <<>>, live |-> TRUE]
View(w, v) == w.views[v]
BufOf(w, v) == w.bufs[w.views[v].buf]
typed_array_is_detached(w, v) == BufOf(w, v).detached

\* JS_ToInt32Clamp: negative positions count from the end.
Clamp(x, len) ==
  LET y == IF x < 0 THEN x + len ELSE x IN IF y < 0 THEN 0 ELSE IF y > len THEN len ELSE y
Arg(x, default) == IF x = None THEN default ELSE x
Max0(n) == IF n < 0 THEN 0 ELSE n

Signing(cls, raw) == IF Signed(cls) /\ raw >= Width(cls) \div 2 THEN raw - Width(cls) ELSE raw
Raw(cls, x) ==
  IF cls = "Uint8C" THEN IF x < 0 THEN 0 ELSE IF x > 255 THEN 255 ELSE x ELSE x % Width(cls)

Load(cls, d, pos) ==
  Signing(cls, IF typed_array_size(cls) = 1 THEN d[pos + 1] ELSE d[pos + 1] + 256 * d[pos + 2])
Store(cls, d, pos, raw) ==
  IF typed_array_size(cls) = 1 THEN [d EXCEPT ![pos + 1] = raw % 256]
  ELSE [d EXCEPT ![pos + 1] = raw % 256, ![pos + 2] = (raw \div 256) % 256]

\* What a call leaves behind.
Done(w, r) == [w |-> w, ret |-> r]
Fails(w) == Done(w, Error)

ElemPos(w, v, i) == View(w, v).off + i * typed_array_size(View(w, v).cls)

JS_GetPropertyValue(w, v, i) ==
  IF i < View(w, v).count THEN Load(View(w, v).cls, BufOf(w, v).data, ElemPos(w, v, i)) ELSE TaUndefined

JS_SetPropertyValue(w, v, i, x) ==
  IF i >= View(w, v).count THEN Fails(w)
  ELSE Done([w EXCEPT !.bufs[View(w, v).buf].data =
               Store(View(w, v).cls, @, ElemPos(w, v, i), Raw(View(w, v).cls, x))], TaUndefined)

\* The loop that stores xs(0), xs(1), ... at successive indices and stops at
\* the first exception; xs reads the world the earlier stores left behind.
StoreLoop(w, v, at, n, xs(_, _)) ==
  FoldLeft(LAMBDA r, k : IF r.ret = Error THEN r ELSE JS_SetPropertyValue(r.w, v, at + k, xs(r.w, k)),
           Done(w, TaUndefined), [k \in 1..n |-> k - 1])

memmove(w, db, dpos, sb, spos, n) ==
  [w EXCEPT !.bufs[db].data =
     [k \in DOMAIN @ |-> IF k > dpos /\ k <= dpos + n THEN w.bufs[sb].data[k - dpos + spos] ELSE @[k]]]

-----------------------------------------------------------------------------
(* Creation and end.                                                         *)

AddBuf(w, d) == [w EXCEPT !.bufs = Append(@, NewBuf(d))]
Zeros(n) == [i \in 1..n |-> 0]

typed_array_init(w, cls, b, off, len) ==
  LET size == typed_array_size(cls)
  IN [w EXCEPT !.views = Append(@, [cls |-> cls, buf |-> b, off |-> off, len |-> len * size,
                                    count |-> IF cls = "DataView" THEN 0 ELSE len, live |-> TRUE]),
               !.bufs[b].list = Append(@, Len(w.views) + 1)]

\* A view of a length of its own, on a buffer of its own.
OwnArray(w, cls, len) ==
  typed_array_init(AddBuf(w, Zeros(len * typed_array_size(cls))), cls, Len(w.bufs) + 1, 0, len)

IgnoresOffset(w, cls, b, off, len) ==
  IF w.bufs[b].detached THEN Fails(w)
  ELSE IF off % typed_array_size(cls) # 0 \/ off > Len(w.bufs[b].data) THEN Fails(w)
  ELSE IF len = None /\ Len(w.bufs[b].data) % typed_array_size(cls) # 0 THEN Fails(w)
  ELSE LET n == IF len = None THEN (Len(w.bufs[b].data) - off) \div typed_array_size(cls) ELSE len
       IN IF n * typed_array_size(cls) > Len(w.bufs[b].data) THEN Fails(w)
          ELSE Done(typed_array_init(w, cls, b, off, n), Len(w.views) + 1)

js_typed_array_constructor(w, cls, b, off, len) ==
  IF w.bufs[b].detached THEN Fails(w)
  ELSE IF off % typed_array_size(cls) # 0 \/ off > Len(w.bufs[b].data) THEN Fails(w)
  ELSE IF len = None /\ Len(w.bufs[b].data) % typed_array_size(cls) # 0 THEN Fails(w)
  ELSE LET n == IF len = None THEN (Len(w.bufs[b].data) - off) \div typed_array_size(cls) ELSE len
       IN IF off + n * typed_array_size(cls) > Len(w.bufs[b].data) THEN Fails(w)
          ELSE Done(typed_array_init(w, cls, b, off, n), Len(w.views) + 1)

js_dataview_constructor(w, b, off, len) ==
  IF w.bufs[b].detached \/ off > Len(w.bufs[b].data) THEN Fails(w)
  ELSE LET room == Len(w.bufs[b].data) - off
       IN IF Arg(len, room) > room THEN Fails(w)
          ELSE Done(typed_array_init(w, "DataView", b, off, Arg(len, room)), Len(w.views) + 1)

js_typed_array_constructor_ta(w, cls, v) ==
  IF typed_array_is_detached(w, v) THEN Fails(w)
  ELSE LET n == View(w, v).count
           w1 == OwnArray(w, cls, n)
           new == Len(w1.views)
       IN IF View(w, v).cls = cls
          THEN Done(memmove(w1, Len(w1.bufs), 0, View(w, v).buf, View(w, v).off, n * typed_array_size(cls)), new)
          ELSE Done(StoreLoop(w1, new, 0, n, LAMBDA x, k : JS_GetPropertyValue(x, v, k)).w, new)

\* of(), from() and the constructor given a list: a fresh array, filled.
js_typed_array_constructor_obj(w, cls, xs) ==
  LET w1 == OwnArray(w, cls, Len(xs))
  IN Done(StoreLoop(w1, Len(w1.views), 0, Len(xs), LAMBDA x, k : xs[k + 1]).w, Len(w1.views))

JS_DetachArrayBuffer(w, b) ==
  IF w.bufs[b].detached THEN w
  ELSE [w EXCEPT !.bufs[b].data = <<>>, !.bufs[b].detached = TRUE,
                 !.views = [v \in DOMAIN @ |-> IF v \in ToSet(w.bufs[b].list) THEN [@[v] EXCEPT !.count = 0] ELSE @[v]]]

\* In a sweep the finalizer of the buffer may come before those of its views.
js_typed_array_finalizer(w, v) ==
  LET b == View(w, v).buf
  IN [w EXCEPT !.views[v].live = FALSE, !.views[v].count = 0,
               !.bufs[b].list = IF w.bufs[b].live THEN SelectSeq(@, LAMBDA x : x # v) ELSE @]

js_array_buffer_finalizer(w, b) == [w EXCEPT !.bufs[b].live = FALSE, !.bufs[b].data = <<>>, !.bufs[b].list = <<>>]

-----------------------------------------------------------------------------
(* The functions of the prototypes.  The positions they are given are        *)
(* converted after the length is read; the conversion runs JavaScript code,  *)
(* which here stores h into the first element or, for None, does nothing.    *)

Converted(w, v, h) == IF h = None THEN w ELSE JS_SetPropertyValue(w, v, 0, h).w

js_array_buffer_slice(w, b, x, y) ==
  IF w.bufs[b].detached THEN Fails(w)
  ELSE LET len == Len(w.bufs[b].data)
           start == Clamp(x, len)
           n == Max0(Clamp(Arg(y, len), len) - start)
           w1 == AddBuf(w, Zeros(n))
       IN Done(memmove(w1, Len(w1.bufs), 0, b, start, n), TaUndefined)

\* Arrays of the same type are moved, others copied one element at a time.
js_typed_array_set(w, v, src, off) ==
  LET n == View(w, src).count
      cls == View(w, v).cls
  IN IF off < 0 \/ typed_array_is_detached(w, v) \/ typed_array_is_detached(w, src) \/ off > View(w, v).count - n THEN Fails(w)
     ELSE IF View(w, src).cls = cls
     THEN Done(memmove(w, View(w, v).buf, View(w, v).off + off * typed_array_size(cls), View(w, src).buf,
                       View(w, src).off, n * typed_array_size(cls)), TaUndefined)
     ELSE StoreLoop(w, v, off, n, LAMBDA x, k : JS_GetPropertyValue(x, src, k))

js_typed_array_set_list(w, v, xs, off) ==
  IF off < 0 \/ typed_array_is_detached(w, v) \/ off > View(w, v).count - Len(xs) THEN Fails(w)
  ELSE StoreLoop(w, v, off, Len(xs), LAMBDA x, k : xs[k + 1])

MovesWholeTail(w, v, x, y, z, h) ==
  LET len == View(w, v).count
      size == typed_array_size(View(w, v).cls)
      to == Clamp(x, len)
      from == Clamp(y, len)
      count == Min({len - from, len - to})
  IN IF typed_array_is_detached(w, v) THEN Fails(w)
     ELSE Done(memmove(Converted(w, v, h), View(w, v).buf, ElemPos(w, v, to), View(w, v).buf, ElemPos(w, v, from), Max0(count) * size), TaUndefined)

js_typed_array_copyWithin(w, v, x, y, z, h) ==
  LET len == View(w, v).count
      size == typed_array_size(View(w, v).cls)
      to == Clamp(x, len)
      from == Clamp(y, len)
      count == Min({Clamp(Arg(z, len), len) - from, len - to})
  IN IF typed_array_is_detached(w, v) THEN Fails(w)
     ELSE Done(memmove(Converted(w, v, h), View(w, v).buf, ElemPos(w, v, to), View(w, v).buf, ElemPos(w, v, from), Max0(count) * size), TaUndefined)

\* The value is converted once, before the range is known.
js_typed_array_fill(w, v, x, y, z, h) ==
  LET len == View(w, v).count
      raw == Raw(View(w, v).cls, x)
      k0 == Clamp(Arg(y, 0), len)
  IN IF typed_array_is_detached(w, v) THEN Fails(w)
     ELSE Done(FoldLeft(LAMBDA u, k : [u EXCEPT !.bufs[View(w, v).buf].data = Store(View(w, v).cls, @, ElemPos(w, v, k0 + k - 1), raw)],
                        Converted(w, v, h), [k \in 1..Max0(Clamp(Arg(z, len), len) - k0) |-> k]), TaUndefined)

\* The number searched is compared as an unsigned value of 16 bits; memchr
\* compares the low byte only.
Matches(w, v, k, x, last) ==
  LET cls == View(w, v).cls
      raw == Raw(IF Signed(cls) \/ cls = "Uint8C" THEN IF typed_array_size(cls) = 1 THEN "Uint8" ELSE "Uint16" ELSE cls,
                 JS_GetPropertyValue(w, v, k))
      v16 == x % 65536
  IN IF typed_array_size(cls) = 1 /\ ~last THEN raw = v16 % 256 ELSE raw = v16
Fits(cls, x) == x = Signing(cls, x % Width(cls))

js_typed_array_indexOf(w, v, x, from, special, h) ==
  LET len == View(w, v).count
      u == Converted(w, v, h)
      last == special = "lastIndexOf"
      d == IF from < 0 THEN from + len ELSE from
      K == IF last THEN {k \in 0..len - 1 : k <= (IF from = None THEN len - 1 ELSE d)}
           ELSE {k \in 0..len - 1 : k >= Clamp(Arg(from, 0), len)}
      H == IF Fits(View(w, v).cls, x) THEN {k \in K : Matches(u, v, k, x, last)} ELSE {}
      res == IF H = {} THEN -1 ELSE IF last THEN Max(H) ELSE Min(H)
  IN IF typed_array_is_detached(w, v) THEN Fails(w)
     ELSE Done(u, IF special = "includes" THEN IF res >= 0 THEN 1 ELSE 0 ELSE res)

\* Two pointers that walk towards each other.
js_typed_array_reverse(w, v) ==
  LET len == View(w, v).count
      cls == View(w, v).cls
      Swap(u, i) == LET d == u.bufs[View(w, v).buf].data
                        j == len - 1 - i
                        a == Raw(cls, Load(cls, d, ElemPos(w, v, i)))
                        b == Raw(cls, Load(cls, d, ElemPos(w, v, j)))
                    IN [u EXCEPT !.bufs[View(w, v).buf].data = Store(cls, Store(cls, d, ElemPos(w, v, i), b), ElemPos(w, v, j), a)]
  IN IF typed_array_is_detached(w, v) THEN Fails(w)
     ELSE Done(FoldLeft(LAMBDA u, k : Swap(u, k - 1), w, [k \in 1..len \div 2 |-> k]), TaUndefined)

\* cls is the type the species constructor makes, that of the array by default.
js_typed_array_slice(w, v, x, y, cls, h) ==
  LET len == View(w, v).count
      start == Clamp(x, len)
      n == Max0(Clamp(Arg(y, len), len) - start)
      w1 == OwnArray(Converted(w, v, h), cls, n)
      new == Len(w1.views)
  IN IF typed_array_is_detached(w, v) THEN Fails(w)
     ELSE IF cls = View(w, v).cls
     THEN Done(memmove(w1, Len(w1.bufs), 0, View(w, v).buf, ElemPos(w, v, start), n * typed_array_size(cls)), new)
     ELSE Done(StoreLoop(w1, new, 0, n, LAMBDA u, k : JS_GetPropertyValue(u, v, start + k)).w, new)

js_typed_array_subarray(w, v, x, y) ==
  LET len == View(w, v).count
      start == Clamp(x, len)
      n == Max0(Clamp(Arg(y, len), len) - start)
      off == (IF typed_array_is_detached(w, v) THEN 0 ELSE View(w, v).off) + start * typed_array_size(View(w, v).cls)
  IN js_typed_array_constructor(w, View(w, v).cls, View(w, v).buf, off, n)

\* With a comparison function the indices are sorted, equal elements by their
\* index, and the elements then moved; without one the elements are sorted.
Orders == {"none", "descending", "parity"}
Compare(ord, a, b) ==
  CASE ord = "none" -> a - b [] ord = "descending" -> b - a [] OTHER -> (a % 2) - (b % 2)

js_typed_array_sort(w, v, ord) ==
  LET n == View(w, v).count
      tmp == [k \in 1..n |-> JS_GetPropertyValue(w, v, k - 1)]
      cmp(i, j) == LET c == Compare(ord, tmp[i], tmp[j]) IN c < 0 \/ (c = 0 /\ i < j)
      idx == SetToSortSeq(1..n, cmp)
  IN IF typed_array_is_detached(w, v) THEN Fails(w)
     ELSE Done(StoreLoop(w, v, 0, n, LAMBDA u, k : tmp[idx[k + 1]]).w, TaUndefined)

js_dataview_getValue(w, v, cls, pos, little) ==
  LET size == typed_array_size(cls)
      p == View(w, v).off + pos
      raw == Raw(IF size = 1 THEN "Uint8" ELSE "Uint16", Load(cls, BufOf(w, v).data, p))
      bswap == IF size = 1 \/ little THEN raw ELSE (raw % 256) * 256 + raw \div 256
  IN IF typed_array_is_detached(w, v) \/ pos + size > View(w, v).len THEN Fails(w) ELSE Done(w, Signing(cls, bswap))

js_dataview_setValue(w, v, cls, pos, x, little) ==
  LET size == typed_array_size(cls)
      raw == x % Width(cls)
      bswap == IF size = 1 \/ little THEN raw ELSE (raw % 256) * 256 + raw \div 256
  IN IF typed_array_is_detached(w, v) \/ pos + size > View(w, v).len THEN Fails(w)
     ELSE Done([w EXCEPT !.bufs[View(w, v).buf].data = Store(cls, @, View(w, v).off + pos, bswap)], TaUndefined)

-----------------------------------------------------------------------------
(* What the functions mean for the elements.  Those of an array are read     *)
(* before any is written, and the bytes no element written stands on stay.   *)

Elems(w, v) == [k \in 1..View(w, v).count |-> Load(View(w, v).cls, BufOf(w, v).data, ElemPos(w, v, k - 1))]

ByteOf(cls, x, k) == (Raw(cls, x) \div 256 ^ k) % 256
\* f: index -> new value
WithElems(w, v, f) ==
  LET cls == View(w, v).cls
      size == typed_array_size(cls)
  IN [w EXCEPT !.bufs[View(w, v).buf].data =
        [p \in DOMAIN @ |-> LET q == p - 1 - View(w, v).off
                            IN IF q >= 0 /\ q \div size \in DOMAIN f THEN ByteOf(cls, f[q \div size], q % size) ELSE @[p]]]

\* A fresh array with these elements.
FreshElems(w, cls, xs) ==
  LET w1 == OwnArray(w, cls, Len(xs)) IN Done(WithElems(w1, Len(w1.views), [i \in 0..Len(xs) - 1 |-> xs[i + 1]]), Len(w1.views))

Between(s, x, y) == SubSeq(s, Clamp(Arg(x, 0), Len(s)) + 1, Clamp(Arg(y, Len(s)), Len(s)))
Sorted(s, ord) ==
  CHOOSE t \in {[k \in DOMAIN s |-> s[p[k]]] : p \in {p \in [DOMAIN s -> DOMAIN s] :
                    /\ \A i, j \in DOMAIN s : i # j => p[i] # p[j]
                    /\ \A i, j \in DOMAIN s : i < j => LET d == Compare(ord, s[p[i]], s[p[j]])
                                                      IN d < 0 \/ (d = 0 /\ p[i] < p[j])}} : TRUE

Language(w0, c) ==
  LET v == c.v
      w == Converted(w0, v, c.h)
      s == Elems(w, v)
      n == Len(s)
      dead == typed_array_is_detached(w0, v)
      All(t) == Done(WithElems(w, v, [i \in 0..n - 1 |-> t[i + 1]]), TaUndefined)
  IN CASE dead /\ c.fn # "subarray" -> Fails(w)
       [] c.fn = "copy" -> FreshElems(w, c.cls, s)
       [] c.fn = "set" -> LET t == Elems(w, c.src)
                          IN IF typed_array_is_detached(w, c.src) \/ c.x < 0 \/ c.x + Len(t) > n THEN Fails(w)
                             ELSE Done(WithElems(w, v, [i \in c.x..c.x + Len(t) - 1 |-> t[i - c.x + 1]]), TaUndefined)
       [] c.fn = "copyWithin" -> LET t == Between(s, c.y, c.z)
                                     to == Clamp(c.x, n)
                                 IN All([i \in 1..n |-> IF i > to /\ i <= to + Len(t) THEN t[i - to] ELSE s[i]])
       [] c.fn = "fill" -> All([i \in 1..n |-> IF i > Clamp(Arg(c.y, 0), n) /\ i <= Clamp(Arg(c.z, n), n) THEN c.x ELSE s[i]])
       [] c.fn = "indexOf" -> LET H == {i \in 1..n : s[i] = c.x /\ i > Clamp(Arg(c.y, 0), n)}
                              IN Done(w, IF H = {} THEN -1 ELSE Min(H) - 1)
       [] c.fn = "includes" -> Done(w, IF \E i \in 1..n : s[i] = c.x /\ i > Clamp(Arg(c.y, 0), n) THEN 1 ELSE 0)
       [] c.fn = "lastIndexOf" -> LET H == {i \in 1..n : s[i] = c.x /\ i - 1 <= IF c.y < 0 THEN c.y + n ELSE c.y}
                                  IN Done(w, IF H = {} THEN -1 ELSE Max(H) - 1)
       [] c.fn = "reverse" -> All(Reverse(s))
       [] c.fn = "slice" -> FreshElems(w, c.cls, Between(s, c.x, c.y))
       [] c.fn = "sort" -> All(Sorted(s, c.ord))
       [] OTHER -> LET t == Between(s, c.x, c.y)    \* subarray
                   IN IF dead THEN Fails(w)
                      ELSE Done(typed_array_init(w, View(w, v).cls, View(w, v).buf, ElemPos(w, v, Clamp(c.x, n)), Len(t)),
                                Len(w.views) + 1)

-----------------------------------------------------------------------------

Live(w) == {v \in DOMAIN w.views : w.views[v].live}
Arrays(w) == {v \in Live(w) : w.views[v].cls # "DataView"}
DataViews(w) == Live(w) \ Arrays(w)
Bufs(w) == {b \in DOMAIN w.bufs : w.bufs[b].live}
Room(w) == Len(w.views) < TaMaxViews

Plain(fn, v) ==
  [fn |-> fn, v |-> v, x |-> 0, y |-> 0, z |-> 0, src |-> 0, cls |-> "Uint8", ord |-> "none", h |-> None]

Does(c, r) == taWorld' = r.w /\ taRet' = r.ret /\ taCall' = c

Idle == Plain("none", 0)
Hooks == {None, 5}
Start == taCall = Idle /\ taOps < TaMaxOps /\ taOps' = taOps + 1
TaReturn == taCall # Idle /\ taOps < TaMaxOps /\ taCall' = Idle /\ taRet' = TaUndefined /\ UNCHANGED <<taWorld, taOps>>

TaNew ==
  /\ Start /\ Room(taWorld)
  /\ \E b \in Bufs(taWorld), cls \in TaClasses, off \in TaPos, len \in TaPos \cup {None} :
       off >= 0 /\ len >= 0 /\ Does(Plain("new", b), js_typed_array_constructor(taWorld, cls, b, off, len))
TaDataView ==
  /\ Start /\ Room(taWorld)
  /\ \E b \in Bufs(taWorld), off \in TaPos, len \in TaPos \cup {None} :
       off >= 0 /\ len >= 0 /\ Does(Plain("new", b), js_dataview_constructor(taWorld, b, off, len))
TaCopy ==
  /\ Start /\ Room(taWorld)
  /\ \E v \in Arrays(taWorld), cls \in TaClasses :
       Does([Plain("copy", v) EXCEPT !.cls = cls], js_typed_array_constructor_ta(taWorld, cls, v))
TaOf ==
  /\ Start /\ Room(taWorld)
  /\ \E cls \in TaClasses, x, y \in TaValues : Does(Plain("of", 0), js_typed_array_constructor_obj(taWorld, cls, <<x, y>>))
TaDetach == Start /\ \E b \in Bufs(taWorld) : Does(Plain("detach", b), Done(JS_DetachArrayBuffer(taWorld, b), TaUndefined))
TaRelease == Start /\ \E v \in Live(taWorld) : Does(Plain("release", v), Done(js_typed_array_finalizer(taWorld, v), TaUndefined))
\* A buffer and its views found to be garbage together.
TaSweep ==
  /\ Start
  /\ \E b \in Bufs(taWorld), first \in BOOLEAN :
       LET vs == taWorld.bufs[b].list
           Views(w) == FoldLeft(js_typed_array_finalizer, w, vs)
       IN Does(Plain("sweep", b), Done(IF first THEN Views(js_array_buffer_finalizer(taWorld, b))
                                       ELSE js_array_buffer_finalizer(Views(taWorld), b), TaUndefined))
TaBufferSlice ==
  /\ Start /\ Room(taWorld) /\ Len(taWorld.bufs) < 3
  /\ \E b \in Bufs(taWorld), x \in TaPos, y \in TaPos \cup {None} : Does(Plain("bufferSlice", b), js_array_buffer_slice(taWorld, b, x, y))
TaPut ==
  /\ Start
  /\ \E v \in Arrays(taWorld), i \in 0..2, x \in TaValues : Does(Plain("put", v), JS_SetPropertyValue(taWorld, v, i, x))
TaSet ==
  /\ Start
  /\ \E v, src \in Arrays(taWorld), x \in TaPos :
       Does([Plain("set", v) EXCEPT !.src = src, !.x = x], js_typed_array_set(taWorld, v, src, x))
TaSetList ==
  /\ Start
  /\ \E v \in Arrays(taWorld), x, y \in TaValues, off \in TaPos : Does(Plain("setList", v), js_typed_array_set_list(taWorld, v, <<x, y>>, off))
TaCopyWithin ==
  /\ Start
  /\ \E v \in Arrays(taWorld), x, y \in TaPos, z \in TaPos \cup {None}, h \in Hooks :
       Does([Plain("copyWithin", v) EXCEPT !.x = x, !.y = y, !.z = z, !.h = h],
            js_typed_array_copyWithin(taWorld, v, x, y, z, h))
TaFill ==
  /\ Start
  /\ \E v \in Arrays(taWorld), x \in TaValues, y, z \in TaPos \cup {None}, h \in Hooks :
       Does([Plain("fill", v) EXCEPT !.x = x, !.y = y, !.z = z, !.h = h], js_typed_array_fill(taWorld, v, x, y, z, h))
TaIndexOf ==
  /\ Start
  /\ \E v \in Arrays(taWorld), x \in TaValues, y \in TaPos \cup {None}, h \in Hooks,
        fn \in {"indexOf", "lastIndexOf", "includes"} :
       Does([Plain(fn, v) EXCEPT !.x = x, !.y = y, !.h = h], js_typed_array_indexOf(taWorld, v, x, y, fn, h))
TaReverse == Start /\ \E v \in Arrays(taWorld) : Does(Plain("reverse", v), js_typed_array_reverse(taWorld, v))
TaSlice ==
  /\ Start /\ Room(taWorld)
  /\ \E v \in Arrays(taWorld), x \in TaPos, y \in TaPos \cup {None}, cls \in TaClasses, h \in Hooks :
       Does([Plain("slice", v) EXCEPT !.x = x, !.y = y, !.cls = cls, !.h = h], js_typed_array_slice(taWorld, v, x, y, cls, h))
TaSubarray ==
  /\ Start /\ Room(taWorld)
  /\ \E v \in Arrays(taWorld), x \in TaPos, y \in TaPos \cup {None} :
       Does([Plain("subarray", v) EXCEPT !.x = x, !.y = y], js_typed_array_subarray(taWorld, v, x, y))
TaSort ==
  /\ Start
  /\ \E v \in Arrays(taWorld), ord \in Orders : Does([Plain("sort", v) EXCEPT !.ord = ord], js_typed_array_sort(taWorld, v, ord))
TaDataGet ==
  /\ Start
  /\ \E v \in DataViews(taWorld), cls \in {"Int8", "Uint16", "Int16"}, p \in TaPos, little \in BOOLEAN :
       p >= 0 /\ Does(Plain("getValue", v), js_dataview_getValue(taWorld, v, cls, p, little))
TaDataSet ==
  /\ Start
  /\ \E v \in DataViews(taWorld), cls \in {"Int8", "Int16"}, p \in TaPos, x \in TaValues, little \in BOOLEAN :
       p >= 0 /\ Does(Plain("setValue", v), js_dataview_setValue(taWorld, v, cls, p, x, little))

TaInit == taWorld \in TaScenes /\ taCall = Idle /\ taRet = TaUndefined /\ taOps = 0
TaNext == \/ TaNew \/ TaDataView \/ TaCopy \/ TaOf \/ TaDetach \/ TaRelease \/ TaSweep \/ TaBufferSlice \/ TaPut
          \/ TaSet \/ TaSetList \/ TaCopyWithin \/ TaFill \/ TaIndexOf \/ TaReverse \/ TaSlice \/ TaSubarray \/ TaSort
          \/ TaDataGet \/ TaDataSet \/ TaReturn
TaSpec == TaInit /\ [][TaNext]_taVars

-----------------------------------------------------------------------------

\* The list of a buffer that lives has its live views in the order they were
\* made; a view of a buffer that is not detached stays inside it, on a multiple
\* of its element size, and shows as many elements as its byte length holds;
\* one of a detached buffer shows none (typed_array_init, JS_DetachArrayBuffer,
\* js_typed_array_finalizer).
ViewsInBounds ==
  \A b \in Bufs(taWorld) :
    LET B == taWorld.bufs[b]
    IN /\ B.list = SelectSeq([k \in DOMAIN taWorld.views |-> k], LAMBDA v : taWorld.views[v].live /\ taWorld.views[v].buf = b)
       /\ \A v \in ToSet(B.list) :
            LET V == taWorld.views[v]
                size == typed_array_size(V.cls)
            IN IF B.detached THEN V.count = 0
               ELSE /\ V.off + V.len <= Len(B.data) /\ V.off % size = 0
                    /\ V.cls # "DataView" => V.count * size = V.len

\* set() from an array of another type copies in place, one element after the
\* other: an element is written on bytes of one that has still to be read.
\* lastIndexOf of a negative number in an Int8Array compares 16 bits with 8.
InPlace(w, c) ==
  /\ c.fn = "set" /\ View(w, c.v).buf = View(w, c.src).buf /\ View(w, c.v).cls # View(w, c.src).cls
  /\ \E j \in 0..View(w, c.src).count - 1 : \E i \in 0..j - 1 :
       /\ ElemPos(w, c.v, c.x + i) < ElemPos(w, c.src, j + 1)
       /\ ElemPos(w, c.src, j) < ElemPos(w, c.v, c.x + i + 1)
NegativeByte(w, c) == c.fn = "lastIndexOf" /\ View(w, c.v).cls = "Int8" /\ c.x < 0

\* Every function leaves the elements that the language says it leaves and
\* returns what it says, whichever types the views of the buffer have, whether
\* the code moves bytes or copies elements and whatever the conversion of a
\* position stores; the two exceptions, InPlace and NegativeByte, are what the
\* code does against the language.
AsElements ==
  [][taCall'.fn \in {"copy", "set", "copyWithin", "fill", "indexOf", "includes", "lastIndexOf", "reverse", "slice", "subarray", "sort"}
     => \/ InPlace(taWorld, taCall') \/ NegativeByte(taWorld, taCall')
        \/ Done(taWorld', taRet') = Language(taWorld, taCall')]_taVars

\* setValue followed by getValue at the same place, with the same byte order,
\* gives back the number stored, whatever the byte order is; with the other
\* byte order the bytes of the number come back reversed.
DataViewRoundTrip ==
  \A v \in DataViews(taWorld), p \in 0..1, x \in TaValues, little \in BOOLEAN :
    ~typed_array_is_detached(taWorld, v) /\ p + 2 <= View(taWorld, v).len =>
      LET w == js_dataview_setValue(taWorld, v, "Int16", p, x, little).w
      IN /\ js_dataview_getValue(w, v, "Int16", p, little).ret = x
         /\ js_dataview_getValue(w, v, "Int8", p, little).ret =
              Signing("Int8", ByteOf("Int16", x, IF little THEN 0 ELSE 1))

\* Views stay inside their buffers, and a DataView reads back what it wrote.
ViewsSound == ViewsInBounds /\ DataViewRoundTrip
=============================================================================
