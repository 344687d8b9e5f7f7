------------------------------- MODULE Objects -------------------------------
(***************************************************************************)
(* The objects of quickjs.c.  An object has a shape (its prototype and the   *)
(* names and flags of its properties, shared with other objects while it is  *)
(* in the table of hashed shapes) and the values in the same order.  Names   *)
(* are looked up through the chains of a hash table in the shape.  Arrays    *)
(* keep their elements apart while they are "fast"; a lazy (AUTOINIT)        *)
(* property gets its value when it is first looked at.  ObjectSpec says what *)
(* all this has to look like from outside.                                   *)
(***************************************************************************)
EXTENDS Integers, Sequences, FiniteSets, SequencesExt, FiniteSetsExt

CONSTANTS ObScenes,      \* a function: the calls of each scene, how many of them, the properties o and q start
                         \* with, and whether o has a lazy one
          Quirk          \* a call on which the code departs from the language, or "none"

VARIABLES obScene, obHeap, obCall, obRet, obCalls

obVars == <<obScene, obHeap, obCall, obRet, obCalls>>

ObNames == {"o", "p", "q", "a"}
Length == 100
Lazy == 102              \* the key of the lazy property of o
LazyValue == 7
Array_Index(k) == k \in 0..9
NoAtom == -9
ShapeIds == 1..8
Undef == -1

-----------------------------------------------------------------------------
(* Shapes.                                                                   *)

Flags(t, c, w, e) == [t |-> t, c |-> c, w |-> w, e |-> e]
C_W_E == Flags("normal", TRUE, TRUE, TRUE)
Slot(v) == [v |-> v, g |-> 0, s |-> 0]

\* A property is [k, f, next]; tab holds the first property of each chain.
EmptyTab(size) == [b \in 0..(size - 1) |-> 0]
NoShape == [proto |-> "null", prs |-> <<>>, hashed |-> FALSE, refs |-> 0, small |-> FALSE, size |-> 0,
            tab |-> EmptyTab(1), hash |-> 0]
JS_PROP_INITIAL_SIZE == 2
JS_PROP_INITIAL_HASH_SIZE == 4

Sh(h, o) == h.sh[h.obj[o].shape]
FreeId(h) == CHOOSE i \in ShapeIds : h.sh[i].refs = 0 /\ \A j \in ShapeIds : j < i => h.sh[j].refs # 0
Names(prs) == [i \in DOMAIN prs |-> [k |-> prs[i].k, f |-> prs[i].f]]

\* Hashes of HashWidth bits, so that shapes share buckets, and a first table of
\* one bit, so that it has to grow.
HashWidth == 4
shape_hash(v, x) == ((v + x) * 11) % 2^HashWidth
FlagBits(f) == (IF f.c THEN 1 ELSE 0) + (IF f.w THEN 2 ELSE 0) + (IF f.e THEN 4 ELSE 0)
               + (CASE f.t = "normal" -> 0 [] f.t = "getset" -> 16 [] f.t = "autoinit" -> 48)
Address(p) == CASE p = "null" -> 0 [] p = "o" -> 5 [] p = "p" -> 6 [] p = "q" -> 9 [] p = "a" -> 12
shape_initial_hash(p) == shape_hash(shape_hash(1, Address(p)), 0)
NextHash(v, k, f) == shape_hash(shape_hash(v, k), FlagBits(f))
get_shape_hash(v, bits) == v \div 2^(HashWidth - bits)

js_shape_hash_link(h, s) ==
  [h EXCEPT !.chains[get_shape_hash(h.sh[s].hash, h.bits) + 1] = <<s>> \o @, !.count = @ + 1]
js_shape_hash_unlink(h, s) ==
  [h EXCEPT !.chains[get_shape_hash(h.sh[s].hash, h.bits) + 1] = SelectSeq(@, LAMBDA t : t # s), !.count = @ - 1]

\* Every chain is emptied from its head, and each shape put at the head of its
\* new chain.
resize_shape_hash(h, bits) ==
  LET empty == [h EXCEPT !.bits = bits, !.count = 0, !.chains = [i \in 1..(2^bits) |-> <<>>]]
  IN FoldLeft(js_shape_hash_link, empty, FlattenSeq(h.chains))

js_new_shape2(h, s, p, hash_size, prop_size) ==
  LET g == IF 2 * (h.count + 1) > 2^h.bits THEN resize_shape_hash(h, h.bits + 1) ELSE h
  IN js_shape_hash_link([g EXCEPT !.sh[s] = [proto |-> p, prs |-> <<>>, hashed |-> TRUE, refs |-> 1, small |-> FALSE,
                                             size |-> prop_size, tab |-> EmptyTab(hash_size),
                                             hash |-> shape_initial_hash(p)]], s)

js_free_shape(h, s) ==
  IF h.sh[s].refs # 1 THEN [h EXCEPT !.sh[s].refs = @ - 1]
  ELSE LET g == IF h.sh[s].hashed THEN js_shape_hash_unlink(h, s) ELSE h IN [g EXCEPT !.sh[s] = NoShape]

\* The clone, chains included, is not in the table of hashed shapes.
js_clone_shape(h, o) ==
  LET s == FreeId(h)
  IN [js_free_shape([h EXCEPT !.sh[s] = [Sh(h, o) EXCEPT !.refs = 1, !.hashed = FALSE]], h.obj[o].shape)
        EXCEPT !.obj[o].shape = s]

js_shape_prepare_update(h, o) ==
  IF ~Sh(h, o).hashed THEN h
  ELSE IF Sh(h, o).refs # 1 THEN js_clone_shape(h, o)
  ELSE [js_shape_hash_unlink(h, h.obj[o].shape) EXCEPT !.sh[h.obj[o].shape].hashed = FALSE]

\* The first shape in the chain of the hash v that has it, the prototype and the
\* properties; 0 if there is none.
FindHashed(h, v, p, names) ==
  LET chain == SelectSeq(h.chains[get_shape_hash(v, h.bits) + 1],
                         LAMBDA s : h.sh[s].hash = v /\ h.sh[s].proto = p /\ Names(h.sh[s].prs) = names)
  IN IF chain = <<>> THEN 0 ELSE chain[1]
find_hashed_shape_proto(h, p) == FindHashed(h, shape_initial_hash(p), p, <<>>)
find_hashed_shape_prop(h, o, k, f) ==
  FindHashed(h, NextHash(Sh(h, o).hash, k, f), Sh(h, o).proto, Append(Names(Sh(h, o).prs), [k |-> k, f |-> f]))

\* The last property before i in the chain b of a table of size m that is built
\* anew from the first property to the last.
LastLinked(prs, m, b, i) == Max({0} \cup {j \in 1..(i - 1) : prs[j].k # NoAtom /\ prs[j].k % m = b})

\* The loop over the properties of the new table; deleted ones stay out.
Rehash(sh, m) ==
  [sh EXCEPT !.tab = [b \in 0..(m - 1) |-> LastLinked(sh.prs, m, b, Len(sh.prs) + 1)],
             !.prs = [i \in DOMAIN @ |-> IF @[i].k = NoAtom THEN @[i]
                                         ELSE [@[i] EXCEPT !.next = LastLinked(sh.prs, m, sh.prs[i].k % m, i)]]]

RECURSIVE NewHashSize(_, _)
NewHashSize(m, size) == IF m < size THEN NewHashSize(2 * m, size) ELSE m

resize_properties(h, o, count) ==
  LET sh == Sh(h, o)
      new == Max({count, (sh.size * 3) \div 2})
      m == NewHashSize(Cardinality(DOMAIN sh.tab), new)
  IN [h EXCEPT !.obj[o].size = new,
               !.sh[h.obj[o].shape] = [(IF m # Cardinality(DOMAIN sh.tab) THEN Rehash(sh, m) ELSE sh) EXCEPT !.size = new]]

PropBucket(sh, k) == k % Cardinality(DOMAIN sh.tab)

\* The new property is the last one, and the first of its chain.
LinkProperty(sh, k, f) ==
  LET b == PropBucket(sh, k)
  IN [sh EXCEPT !.prs = Append(@, [k |-> k, f |-> f, next |-> sh.tab[b]]), !.tab[b] = Len(sh.prs) + 1,
                !.small = @ \/ Array_Index(k)]

\* A hashed shape leaves its chain while its hash changes.
add_shape_property(h, o, k, f) ==
  LET s == h.obj[o].shape
      n == Len(Sh(h, o).prs)
      h1 == IF Sh(h, o).hashed THEN js_shape_hash_unlink(h, s) ELSE h
      h2 == IF n >= Sh(h, o).size THEN resize_properties(h1, o, n + 1) ELSE h1
      h3 == IF Sh(h, o).hashed THEN js_shape_hash_link([h2 EXCEPT !.sh[s].hash = NextHash(@, k, f)], s) ELSE h2
  IN [h3 EXCEPT !.sh[s] = LinkProperty(@, k, f)]

\* The new property has the slot x.
add_property(h, o, k, f, x) ==
  LET s == find_hashed_shape_prop(h, o, k, f)
      shared == js_free_shape([h EXCEPT !.sh[s].refs = @ + 1, !.obj[o].shape = s, !.obj[o].size = h.sh[s].size],
                              h.obj[o].shape)
      cloned == LET c == js_clone_shape(h, o)
                IN js_shape_hash_link([c EXCEPT !.sh[c.obj[o].shape].hashed = TRUE], c.obj[o].shape)
      g == IF Sh(h, o).hashed /\ s # 0 THEN shared
           ELSE add_shape_property(IF Sh(h, o).hashed /\ Sh(h, o).refs # 1 THEN cloned ELSE h, o, k, f)
  IN [g EXCEPT !.obj[o].prop = Append(@, x)]

js_update_property_flags(h, o, i, f) ==
  IF Sh(h, o).prs[i].f = f THEN h
  ELSE LET g == js_shape_prepare_update(h, o) IN [g EXCEPT !.sh[g.obj[o].shape].prs[i].f = f]

\* A plain object with the shape s.
JS_NewObjectFromShape(h, o, s) ==
  [h EXCEPT !.obj[o] = [class |-> "object", ext |-> TRUE, fast |-> FALSE, vals |-> <<>>, shape |-> s,
                        prop |-> <<>>, size |-> h.sh[s].size]]

JS_NewObjectProtoClass(h, o, p) ==
  LET found == find_hashed_shape_proto(h, p)
      s == IF found # 0 THEN found ELSE FreeId(h)
  IN JS_NewObjectFromShape(IF found # 0 THEN [h EXCEPT !.sh[s].refs = @ + 1]
                           ELSE js_new_shape2(h, s, p, JS_PROP_INITIAL_HASH_SIZE, JS_PROP_INITIAL_SIZE), o, s)

\* A new object takes the place of o, which nothing refers to any more: its
\* shape is released after the new one has been found.
ReplaceObject(h, o, p) == js_free_shape(JS_NewObjectProtoClass(h, o, p), h.obj[o].shape)

-----------------------------------------------------------------------------
(* Properties.  Each function returns the heap h and an answer r.            *)

Ok(h) == [h |-> h, r |-> "true"]
No(h) == [h |-> h, r |-> "false"]

\* The rest of a chain from property i, up to the property named k.
RECURSIVE Follow(_, _, _)
Follow(sh, k, i) == IF i = 0 \/ sh.prs[i].k = k THEN i ELSE Follow(sh, k, sh.prs[i].next)

find_own_property(h, o, k) == Follow(Sh(h, o), k, Sh(h, o).tab[PropBucket(Sh(h, o), k)])

InFast(h, o, k) == h.obj[o].fast /\ Array_Index(k) /\ k < Len(h.obj[o].vals)

\* The value of the lazy property is made, and it becomes a normal one.
JS_AutoInitProperty(h, o, i) ==
  LET g == js_shape_prepare_update(h, o)
  IN [g EXCEPT !.sh[g.obj[o].shape].prs[i].f.t = "normal", !.obj[o].prop[i] = Slot(LazyValue)]

RECURSIVE AddAll(_, _, _, _)
AddAll(h, o, vals, n) ==
  IF n > Len(vals) THEN h ELSE AddAll(add_property(h, o, n - 1, C_W_E, Slot(vals[n])), o, vals, n + 1)

convert_fast_array_to_array(h, o) ==
  LET g == js_shape_prepare_update(h, o)
      n == Len(Sh(g, o).prs) + Len(h.obj[o].vals)
      room == IF n > Sh(g, o).size THEN resize_properties(g, o, n) ELSE g
  IN [AddAll(room, o, h.obj[o].vals, 1) EXCEPT !.obj[o].fast = FALSE, !.obj[o].vals = <<>>]

\* lpr, the property before i in its chain; 0 if i is the first.
RECURSIVE Before(_, _, _)
Before(sh, i, j) == IF sh.prs[j].next = i THEN j ELSE Before(sh, i, sh.prs[j].next)
ChainBefore(sh, i) ==
  LET first == sh.tab[PropBucket(sh, sh.prs[i].k)] IN IF first = i THEN 0 ELSE Before(sh, i, first)

\* A change of UnlinkProperty: the chain starts after the property.
UnlinksFromHead(sh, i) == [sh EXCEPT !.tab[PropBucket(sh, sh.prs[i].k)] = sh.prs[i].next]

\* Property i leaves its chain.
UnlinkProperty(sh, i) ==
  LET lpr == ChainBefore(sh, i)
  IN IF lpr # 0 THEN [sh EXCEPT !.prs[lpr].next = sh.prs[i].next]
     ELSE [sh EXCEPT !.tab[PropBucket(sh, sh.prs[i].k)] = sh.prs[i].next]

RECURSIVE delete_property(_, _, _)
delete_property(h, o, k) ==
  LET i == find_own_property(h, o, k)
      g == js_shape_prepare_update(h, o)
      gone == [UnlinkProperty(Sh(g, o), i) EXCEPT !.prs[i].k = NoAtom, !.prs[i].f = Flags("normal", FALSE, FALSE, FALSE)]
  IN IF i # 0
     THEN IF ~Sh(h, o).prs[i].f.c THEN No(h)
          ELSE Ok([g EXCEPT !.sh[g.obj[o].shape] = gone, !.obj[o].prop[i] = Slot(Undef)])
     ELSE IF ~InFast(h, o, k) THEN Ok(h)
     ELSE IF k = Len(h.obj[o].vals) - 1 THEN Ok([h EXCEPT !.obj[o].vals = Front(@)])
     ELSE delete_property(convert_fast_array_to_array(h, o), o, k)

\* The loop over the elements from the end, while they can be deleted.
RECURSIVE DeleteDown(_, _, _, _)
DeleteDown(h, o, cur, len) ==
  LET d == delete_property(h, o, cur - 1)
  IN IF cur <= len \/ d.r = "false" THEN [h |-> h, cur |-> cur] ELSE DeleteDown(d.h, o, cur - 1, len)

\* The loop over the properties from the first, deleting the elements from cur.
RECURSIVE DeleteFrom(_, _, _, _)
DeleteFrom(h, o, cur, i) ==
  IF i > Len(Sh(h, o).prs) THEN h
  ELSE LET k == Sh(h, o).prs[i].k
       IN DeleteFrom(IF Array_Index(k) /\ k >= cur THEN delete_property(h, o, k).h ELSE h, o, cur, i + 1)

set_array_length(h, o, len) ==
  LET prs == Sh(h, o).prs
      cur == h.obj[o].prop[1].v
      stuck == {prs[i].k : i \in {j \in DOMAIN prs : Array_Index(prs[j].k) /\ prs[j].k >= len /\ ~prs[j].f.c}}
      keep == Max({len} \cup {k + 1 : k \in stuck})
      down == IF cur <= len THEN [h |-> h, cur |-> len]
              ELSE IF cur - len <= Len(prs) THEN DeleteDown(h, o, cur, len)
              ELSE [h |-> DeleteFrom(h, o, keep, 1), cur |-> keep]
  IN IF h.obj[o].fast
     THEN Ok([h EXCEPT !.obj[o].vals = SubSeq(@, 1, Min({len, Len(@)})), !.obj[o].prop[1] = Slot(len)])
     ELSE [h |-> [down.h EXCEPT !.obj[o].prop[1] = Slot(down.cur)], r |-> IF down.cur > len THEN "false" ELSE "true"]

add_fast_array_element(h, o, v) ==
  LET n == Len(h.obj[o].vals) + 1
      grows == n > h.obj[o].prop[1].v
  IN IF grows /\ ~Sh(h, o).prs[1].f.w THEN No(h)
     ELSE Ok([h EXCEPT !.obj[o].vals = Append(@, v), !.obj[o].prop[1] = IF grows THEN Slot(n) ELSE @])

get_prop_flags(d, def) ==
  [def EXCEPT !.c = IF "c" \in d.has THEN d.c ELSE @, !.w = IF "w" \in d.has THEN d.w ELSE @,
              !.e = IF "e" \in d.has THEN d.e ELSE @]

HasGetSet(d) == d.has \cap {"g", "s"} # {}

\* The property of an object that has none of that name.
AddNew(h, o, k, d) ==
  IF ~h.obj[o].ext THEN No(h)
  ELSE IF HasGetSet(d)
  THEN Ok(add_property(h, o, k, Flags("getset", d.c, FALSE, d.e),
                       [v |-> Undef, g |-> IF "g" \in d.has THEN d.g ELSE 0, s |-> IF "s" \in d.has THEN d.s ELSE 0]))
  ELSE Ok(add_property(h, o, k, Flags("normal", d.c, d.w, d.e), Slot(IF "v" \in d.has THEN d.v ELSE Undef)))

\* A slow array: the length is updated before the property is added.
GenericArray(h, o, k, d) ==
  LET len == h.obj[o].prop[1].v
  IN IF k + 1 <= len THEN AddNew(h, o, k, d)
     ELSE IF ~Sh(h, o).prs[1].f.w THEN No(h)
     ELSE AddNew([h EXCEPT !.obj[o].prop[1] = Slot(k + 1)], o, k, d)

JS_CreateProperty(h, o, k, d) ==
  LET x == h.obj[o]
  IN IF x.class # "array" \/ ~Array_Index(k) THEN AddNew(h, o, k, d)
     ELSE IF ~x.fast THEN GenericArray(h, o, k, d)
     ELSE IF k = Len(x.vals) /\ ~x.ext THEN No(h)
     ELSE IF k = Len(x.vals) /\ ~HasGetSet(d) /\ get_prop_flags(d, Flags("normal", FALSE, FALSE, FALSE)) = C_W_E
     THEN add_fast_array_element(h, o, IF "v" \in d.has THEN d.v ELSE Undef)
     ELSE GenericArray(convert_fast_array_to_array(h, o), o, k, d)

check_define_prop_flags(f, d) ==
  f.c \/ /\ ~("c" \in d.has /\ d.c)
         /\ "e" \in d.has => d.e = f.e
         /\ d.has \cap {"v", "w", "g", "s"} # {} =>
              /\ HasGetSet(d) = (f.t = "getset")
              /\ ~HasGetSet(d) /\ ~f.w => ~("w" \in d.has /\ d.w)

\* The last step of JS_DefineProperty for property i.
SetCE(h, o, i, d) ==
  LET f == Sh(h, o).prs[i].f
  IN Ok(js_update_property_flags(h, o, i, [f EXCEPT !.c = IF "c" \in d.has THEN d.c ELSE @,
                                                    !.e = IF "e" \in d.has THEN d.e ELSE @]))

\* Property i gets new accessors; it may have been a data property.
DefineGetSet(h, o, i, d) ==
  LET f == Sh(h, o).prs[i].f
      x == h.obj[o].prop[i]
      g == js_shape_prepare_update(h, o)
      h1 == IF f.t = "getset" THEN h
            ELSE [g EXCEPT !.sh[g.obj[o].shape].prs[i].f = Flags("getset", f.c, FALSE, f.e), !.obj[o].prop[i] = Slot(Undef)]
      changes == ("g" \in d.has /\ d.g # x.g) \/ ("s" \in d.has /\ d.s # x.s)
  IN IF f.t = "getset" /\ ~f.c /\ changes THEN No(h)
     ELSE SetCE([h1 EXCEPT !.obj[o].prop[i].g = IF "g" \in d.has THEN d.g ELSE @,
                           !.obj[o].prop[i].s = IF "s" \in d.has THEN d.s ELSE @], o, i, d)

\* Property i gets a new value or its writable flag.
DefineData(h, o, i, d) ==
  LET f == Sh(h, o).prs[i].f
      g == js_shape_prepare_update(h, o)
      h1 == IF f.t = "normal" THEN h
            ELSE [g EXCEPT !.sh[g.obj[o].shape].prs[i].f.t = "normal", !.obj[o].prop[i] = Slot(Undef),
                           !.sh[g.obj[o].shape].prs[i].f.w = IF f.t = "getset" THEN FALSE ELSE @]
      h2 == IF "v" \in d.has THEN [h1 EXCEPT !.obj[o].prop[i].v = d.v] ELSE h1
      h3 == IF "w" \in d.has
            THEN js_update_property_flags(h2, o, i, [Sh(h2, o).prs[i].f EXCEPT !.w = d.w]) ELSE h2
  IN IF f.t = "normal" /\ ~f.c /\ ~f.w /\ "v" \in d.has /\ d.v # h.obj[o].prop[i].v THEN No(h)
     ELSE SetCE(h3, o, i, d)

\* The length of an array, while it is writable.
DefineLength(h, o, d) ==
  LET res == IF "v" \in d.has THEN set_array_length(h, o, d.v) ELSE Ok(h)
  IN IF "w" \in d.has /\ ~d.w
     THEN [res EXCEPT !.h = js_update_property_flags(@, o, 1, [Sh(@, o).prs[1].f EXCEPT !.w = FALSE])]
     ELSE res

RECURSIVE JS_DefineProperty(_, _, _, _)
JS_DefineProperty(h, o, k, d) ==
  LET i == find_own_property(h, o, k)
      x == h.obj[o]
  IN IF i # 0
     THEN LET f == Sh(h, o).prs[i].f
          IN IF ~check_define_prop_flags(f, d) THEN No(h)
             ELSE IF HasGetSet(d) THEN DefineGetSet(h, o, i, d)
             ELSE IF d.has \cap {"v", "w"} = {} THEN SetCE(h, o, i, d)
             ELSE IF x.class = "array" /\ k = Length /\ f.w THEN DefineLength(h, o, d)
             ELSE DefineData(h, o, i, d)
     ELSE IF InFast(h, o, k)
     THEN IF get_prop_flags(d, C_W_E) # C_W_E \/ HasGetSet(d)
          THEN JS_DefineProperty(convert_fast_array_to_array(h, o), o, k, d)
          ELSE Ok(IF "v" \in d.has THEN [h EXCEPT !.obj[o].vals[k + 1] = d.v] ELSE h)
     ELSE JS_CreateProperty(h, o, k, d)

-----------------------------------------------------------------------------

RECURSIVE JS_GetPropertyInternal(_, _, _)
JS_GetPropertyInternal(h, o, k) ==
  LET i == find_own_property(h, o, k)
      f == Sh(h, o).prs[i].f
      x == h.obj[o].prop[i]
  IN IF o = "null" THEN [h |-> h, v |-> Undef]
     ELSE IF i # 0 /\ f.t = "getset" THEN [h |-> h, v |-> IF x.g = 0 THEN Undef ELSE 50 + x.g]
     ELSE IF i # 0 /\ f.t = "autoinit" THEN JS_GetPropertyInternal(JS_AutoInitProperty(h, o, i), o, k)
     ELSE IF i # 0 THEN [h |-> h, v |-> x.v]
     ELSE IF InFast(h, o, k) THEN [h |-> h, v |-> h.obj[o].vals[k + 1]]
     ELSE JS_GetPropertyInternal(h, Sh(h, o).proto, k)

RECURSIVE JS_HasProperty(_, _, _)
JS_HasProperty(h, o, k) ==
  o # "null" /\ (find_own_property(h, o, k) # 0 \/ InFast(h, o, k) \/ JS_HasProperty(h, Sh(h, o).proto, k))

\* The value of the descriptor, or none.
JS_GetOwnPropertyInternal(h, o, k) ==
  LET i == find_own_property(h, o, k)
      g == IF i # 0 /\ Sh(h, o).prs[i].f.t = "autoinit" THEN JS_AutoInitProperty(h, o, i) ELSE h
  IN IF i # 0 THEN [h |-> g, has |-> TRUE, v |-> g.obj[o].prop[i].v]
     ELSE IF InFast(h, o, k) THEN [h |-> h, has |-> TRUE, v |-> h.obj[o].vals[k + 1]]
     ELSE [h |-> h, has |-> FALSE, v |-> Undef]

JS_GetOwnPropertyNamesInternal(h, o) ==
  LET atoms == [i \in DOMAIN Sh(h, o).prs |-> Sh(h, o).prs[i].k]
      fast == {i - 1 : i \in DOMAIN h.obj[o].vals}
  IN SetToSortSeq({k \in ToSet(atoms) : Array_Index(k)} \cup fast, <)
     \o SelectSeq(atoms, LAMBDA k : ~Array_Index(k) /\ k # NoAtom)

\* The prototypes of an object without the property: what the first of them
\* with the property says; a writable one does not end the search.
RECURSIVE PrototypeLookup(_, _, _)
PrototypeLookup(h, p, k) ==
  LET i == find_own_property(h, p, k)
      f == Sh(h, p).prs[i].f
  IN IF p = "null" THEN [h |-> h, r |-> "add"]
     ELSE IF i # 0 /\ f.t = "getset" THEN [h |-> h, r |-> "setter"]
     ELSE IF i # 0 /\ f.t = "autoinit" THEN PrototypeLookup(JS_AutoInitProperty(h, p, i), p, k)
     ELSE IF i # 0 /\ ~f.w THEN [h |-> h, r |-> "read_only"]
     ELSE IF InFast(h, p, k) THEN [h |-> h, r |-> "add"]
     ELSE PrototypeLookup(h, Sh(h, p).proto, k)

NewData(v) == [has |-> {"v", "w", "e", "c"}, v |-> v, w |-> TRUE, e |-> TRUE, c |-> TRUE, g |-> 0, s |-> 0]

RECURSIVE JS_SetPropertyInternal(_, _, _, _)
JS_SetPropertyInternal(h, o, k, v) ==
  LET i == find_own_property(h, o, k)
      f == Sh(h, o).prs[i].f
      x == h.obj[o]
      up == PrototypeLookup(h, Sh(h, o).proto, k)
  IN CASE i # 0 /\ f.t = "normal" /\ f.w ->
            IF x.class = "array" /\ k = Length THEN set_array_length(h, o, v)
            ELSE Ok([h EXCEPT !.obj[o].prop[i].v = v])
       [] i # 0 /\ f.t = "getset" -> Ok(h)
       [] i # 0 /\ f.t = "autoinit" -> JS_SetPropertyInternal(JS_AutoInitProperty(h, o, i), o, k, v)
       [] i # 0 /\ f.t = "normal" /\ ~f.w -> No(h)
       [] i = 0 /\ InFast(h, o, k) -> Ok([h EXCEPT !.obj[o].vals[k + 1] = v])
       [] i = 0 /\ ~InFast(h, o, k) ->
            CASE up.r = "setter" -> Ok(up.h)
              [] up.r = "read_only" -> No(up.h)
              [] up.r = "add" -> IF ~x.ext THEN No(up.h)
                                 ELSE IF x.class = "array" THEN JS_CreateProperty(up.h, o, k, NewData(v))
                                 ELSE Ok(add_property(up.h, o, k, C_W_E, Slot(v)))

\* No prototype may have an element that the fast path would not see.
RECURSIVE NoIndexAbove(_, _)
NoIndexAbove(h, p) ==
  \/ p = "null"
  \/ /\ IF h.obj[p].class = "array" THEN h.obj[p].fast ELSE ~Sh(h, p).small
     /\ NoIndexAbove(h, Sh(h, p).proto)

\* A change of JS_SetPropertyValue: the prototypes are not looked at.
AppendsAlways(h, o, k, v) ==
  LET x == h.obj[o]
  IN IF x.class = "array" /\ InFast(h, o, k) THEN Ok([h EXCEPT !.obj[o].vals[k + 1] = v])
     ELSE IF x.class = "array" /\ x.fast /\ x.ext /\ k = Len(x.vals) THEN add_fast_array_element(h, o, v)
     ELSE JS_SetPropertyInternal(h, o, k, v)

\* The key is an integer.
JS_SetPropertyValue(h, o, k, v) ==
  LET x == h.obj[o]
  IN IF x.class = "array" /\ InFast(h, o, k) THEN Ok([h EXCEPT !.obj[o].vals[k + 1] = v])
     ELSE IF x.class = "array" /\ x.fast /\ x.ext /\ k = Len(x.vals) /\ NoIndexAbove(h, Sh(h, o).proto)
     THEN add_fast_array_element(h, o, v)
     ELSE JS_SetPropertyInternal(h, o, k, v)

RECURSIVE Circular(_, _, _)
Circular(h, p, o) == p # "null" /\ (p = o \/ Circular(h, Sh(h, p).proto, o))

JS_SetPrototypeInternal(h, o, p) ==
  IF Sh(h, o).proto = p THEN Ok(h)
  ELSE IF ~h.obj[o].ext \/ Circular(h, p, o) THEN No(h)
  ELSE LET g == js_shape_prepare_update(h, o) IN Ok([g EXCEPT !.sh[g.obj[o].shape].proto = p])

JS_PreventExtensions(h, o) == Ok([h EXCEPT !.obj[o].ext = FALSE])

-----------------------------------------------------------------------------
(* The calls.                                                                *)

RetOf(r, v, ks) == [r |-> r, v |-> v, ks |-> ks]
Returns(x) == obHeap' = x.h /\ obRet' = RetOf(x.r, Undef, <<>>)

\* The calls on which the code is known to depart from the language: the
\* length of an array grows although the element is refused; a lazy property
\* loses its value; a writable property does not hide one further up.
GrowsAnyway(c) ==
  LET x == obHeap.obj[c.o]
  IN /\ c.op = "define" /\ x.class = "array" /\ Array_Index(c.k) /\ ~x.ext
     /\ find_own_property(obHeap, c.o, c.k) = 0 /\ ~InFast(obHeap, c.o, c.k)
LosesValue(c) ==
  LET i == find_own_property(obHeap, c.o, c.k)
  IN c.op = "define" /\ i # 0 /\ Sh(obHeap, c.o).prs[i].f.t = "autoinit" /\ c.d.has \cap {"v", "w"} = {"w"}
Hidden(c) ==
  LET h == obHeap
      Holds(p) == p # "null" /\ (find_own_property(h, p, c.k) # 0 \/ InFast(h, p, c.k))
      p1 == Sh(h, c.o).proto
  IN c.op \in {"set", "set_value"} /\ p1 # "null" /\ Holds(p1) /\ Circular(h, Sh(h, p1).proto, "q")
Departs(c) == \/ Quirk # "length" /\ GrowsAnyway(c)
              \/ Quirk # "lazy" /\ LosesValue(c)
              \/ Quirk # "chain" /\ Hidden(c)

Calling(op) == {c \in ObScenes[obScene].calls : c.op = op /\ ~Departs(c)}
Counts == obCalls < ObScenes[obScene].max /\ obCalls' = obCalls + 1 /\ UNCHANGED obScene

JS_GetProperty ==
  /\ Counts
  /\ \E c \in Calling("get") : obCall' = c /\ LET x == JS_GetPropertyInternal(obHeap, c.o, c.k)
                               IN obHeap' = x.h /\ obRet' = RetOf("value", x.v, <<>>)
JS_SetProperty == Counts /\ \E c \in Calling("set") : obCall' = c /\ Returns(JS_SetPropertyInternal(obHeap, c.o, c.k, c.v))
ObSetElement == Counts /\ \E c \in Calling("set_value") : obCall' = c /\ Returns(JS_SetPropertyValue(obHeap, c.o, c.k, c.v))
ObDefine == Counts /\ \E c \in Calling("define") : obCall' = c /\ Returns(JS_DefineProperty(obHeap, c.o, c.k, c.d))
JS_DeleteProperty == Counts /\ \E c \in Calling("delete") : obCall' = c /\ Returns(delete_property(obHeap, c.o, c.k))
ObHas == /\ Counts
         /\ \E c \in Calling("has") : obCall' = c /\
              Returns(IF JS_HasProperty(obHeap, c.o, c.k) THEN Ok(obHeap) ELSE No(obHeap))
JS_GetOwnProperty ==
  /\ Counts
  /\ \E c \in Calling("own") : obCall' = c /\ LET x == JS_GetOwnPropertyInternal(obHeap, c.o, c.k)
                               IN obHeap' = x.h /\ obRet' = IF x.has THEN RetOf("value", x.v, <<>>) ELSE RetOf("false", Undef, <<>>)
JS_GetOwnPropertyNames ==
  /\ Counts
  /\ \E c \in Calling("keys") : obCall' = c /\
       obHeap' = obHeap /\ obRet' = RetOf("keys", Undef, JS_GetOwnPropertyNamesInternal(obHeap, c.o))
ObPreventExtensions == Counts /\ \E c \in Calling("prevent") : obCall' = c /\ Returns(JS_PreventExtensions(obHeap, c.o))
JS_SetPrototype == Counts /\ \E c \in Calling("proto") : obCall' = c /\ Returns(JS_SetPrototypeInternal(obHeap, c.o, c.p))
ObNew == /\ Counts
         /\ \E c \in Calling("new") : obCall' = c /\ (\A x \in ObNames : Sh(obHeap, x).proto # c.o)
                                       /\ Returns(Ok(ReplaceObject(obHeap, c.o, c.p)))

\* JS_NewContext makes array_shape, with room for the length only, and keeps it.
AddLength(h) ==
  [js_shape_hash_link([js_shape_hash_unlink(h, 1) EXCEPT !.sh[1].hash = NextHash(@, Length, Flags("normal", FALSE, TRUE, FALSE))], 1)
     EXCEPT !.sh[1] = LinkProperty(@, Length, Flags("normal", FALSE, TRUE, FALSE))]
array_shape(h) == AddLength(js_new_shape2(h, 1, "p", JS_PROP_INITIAL_HASH_SIZE, 1))

\* Then the objects of the scene are made, o and q with the properties ks.
RECURSIVE AddNames(_, _, _)
AddNames(h, o, ks) == IF ks = <<>> THEN h ELSE AddNames(add_property(h, o, Head(ks), C_W_E, Slot(3)), o, Tail(ks))
StartHeap(ks) ==
  LET array == [class |-> "array", ext |-> TRUE, fast |-> TRUE, vals |-> <<>>, shape |-> 1, prop |-> <<Slot(0)>>, size |-> 1]
      h0 == [sh |-> [i \in ShapeIds |-> NoShape], obj |-> [o \in ObNames |-> array],
             bits |-> 1, count |-> 0, chains |-> <<<<>>, <<>>>>]
      h1 == [array_shape(h0) EXCEPT !.sh[1].refs = 2]
      h2 == JS_NewObjectProtoClass(JS_NewObjectProtoClass(h1, "p", "null"), "o", "p")
  IN AddNames(JS_NewObjectProtoClass(AddNames(h2, "o", ks), "q", "p"), "q", ks)
\* JS_DefineAutoInitProperty
WithLazy(h) == add_property(h, "o", Lazy, Flags("autoinit", TRUE, TRUE, FALSE), Slot(Undef))

ObInit == /\ obScene \in DOMAIN ObScenes
          /\ LET h == StartHeap(ObScenes[obScene].start)
             IN obHeap = IF ObScenes[obScene].lazy THEN WithLazy(h) ELSE h
          /\ obCall = [op |-> "none"]
          /\ obRet = RetOf("true", Undef, <<>>)
          /\ obCalls = 0

ObNext == \/ JS_GetProperty \/ JS_SetProperty \/ ObSetElement \/ ObDefine \/ JS_DeleteProperty \/ ObHas
          \/ JS_GetOwnProperty \/ JS_GetOwnPropertyNames \/ ObPreventExtensions \/ JS_SetPrototype \/ ObNew

ObSpec == ObInit /\ [][ObNext]_obVars

-----------------------------------------------------------------------------
(* Properties.                                                               *)

\* The objects as ObjectSpec has them.
AbsProperty(f, x) ==
  IF f.t = "getset" THEN [t |-> "getset", v |-> Undef, w |-> FALSE, g |-> x.g, s |-> x.s, e |-> f.e, c |-> f.c]
  ELSE [t |-> "data", v |-> IF f.t = "autoinit" THEN LazyValue ELSE x.v, w |-> f.w, g |-> 0, s |-> 0, e |-> f.e, c |-> f.c]

AbsOwn(h, o, k) ==
  LET i == find_own_property(h, o, k)
  IN [k |-> k, d |-> IF i # 0 THEN AbsProperty(Sh(h, o).prs[i].f, h.obj[o].prop[i]) ELSE AbsProperty(C_W_E, Slot(h.obj[o].vals[k + 1]))]

AbsHeap ==
  [o \in ObNames |->
     [proto |-> Sh(obHeap, o).proto, ext |-> obHeap.obj[o].ext, array |-> obHeap.obj[o].class = "array",
      ps |-> LET ks == JS_GetOwnPropertyNamesInternal(obHeap, o) IN [i \in DOMAIN ks |-> AbsOwn(obHeap, o, ks[i])]]]

ObjAbstract == INSTANCE ObjectSpec WITH heap <- AbsHeap, ret <- obRet, call <- obCall

\* Every call of the engine does to the objects, and answers, what one call of
\* the language does: no object changes because another one shares its shape,
\* and neither fast arrays nor lazy properties can be seen.
ObjectsRefine == ObjAbstract!Spec

\* Shapes are counted exactly (array_shape is also held by the context); one
\* that several objects share is hashed, so that it is cloned before a change;
\* every object has room for the values of its shape, and a shape with an
\* element among its properties says so.
ShapesCounted ==
  LET h == obHeap
      users(s) == {o \in ObNames : h.obj[o].shape = s}
  IN /\ \A s \in ShapeIds : h.sh[s].refs = Cardinality(users(s)) + (IF s = 1 THEN 1 ELSE 0)
     /\ \A s \in ShapeIds : h.sh[s].refs > 1 => h.sh[s].hashed
     /\ \A o \in ObNames : /\ h.obj[o].size = Sh(h, o).size
                           /\ Len(h.obj[o].prop) = Len(Sh(h, o).prs)
                           /\ Len(h.obj[o].prop) <= h.obj[o].size
     /\ \A s \in ShapeIds : (\E i \in DOMAIN h.sh[s].prs : Array_Index(h.sh[s].prs[i].k)) => h.sh[s].small

\* The hash of a shape with the prototype p and the first n of the properties.
RECURSIVE HashOf(_, _, _)
HashOf(p, prs, n) == IF n = 0 THEN shape_initial_hash(p) ELSE NextHash(HashOf(p, prs, n - 1), prs[n].k, prs[n].f)

\* The chains of a shape's hash table lead to every property it has, each by its
\* own name, and to none that was deleted, after any mixture of additions,
\* deletions, clones and changes of the table's size.
NamesFound ==
  \A s \in ShapeIds :
    LET sh == obHeap.sh[s]
        next(i) == sh.prs[i].next
    IN /\ \A i \in DOMAIN sh.prs : sh.prs[i].k # NoAtom => Follow(sh, sh.prs[i].k, sh.tab[PropBucket(sh, sh.prs[i].k)]) = i
       /\ \A i \in Range(sh.tab) \cup {next(j) : j \in {x \in DOMAIN sh.prs : sh.prs[x].k # NoAtom}} :
            i # 0 => sh.prs[i].k # NoAtom

\* The shapes that are hashed are in the chains of the runtime's table, once, each
\* in that of its hash, and its hash is the one by which it is looked for; so
\* objects built the same way find the shape they share.
ShapesFound ==
  LET h == obHeap
      hashed == {s \in ShapeIds : h.sh[s].hashed}
  IN /\ h.count = Cardinality(hashed)
     /\ \A b \in DOMAIN h.chains : /\ IsInjective(h.chains[b])
                                   /\ ToSet(h.chains[b]) = {s \in hashed : get_shape_hash(h.sh[s].hash, h.bits) + 1 = b}
     /\ \A s \in hashed : h.sh[s].hash = HashOf(h.sh[s].proto, h.sh[s].prs, Len(h.sh[s].prs))

\* What the shapes say agrees with the objects, and both tables of names find
\* what is in them.
ShapesSound == ShapesCounted /\ NamesFound /\ ShapesFound
=============================================================================
