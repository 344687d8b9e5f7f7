------------------------------- MODULE MapSet -------------------------------
(***************************************************************************)
(* Map and Set of quickjs.c: a list of records in the order of insertion, a  *)
(* hash table over them, iterators and forEach calls that lock the record    *)
(* they are at, so that a deleted one stays in the list as a zombie; and     *)
(* WeakMap, whose records hang on their keys.  MapSpec says what it looks    *)
(* like from outside.                                                        *)
(***************************************************************************)
EXTENDS Integers, Sequences, FiniteSets, SequencesExt, Bitwise

CONSTANTS MpValues,
          MpKeys,        \* keys [n, tag]: a number n kept as an int or as a float
          MpItems,       \* the items the map may be constructed from
          MpMaxOps,      \* the calls made
          MpSlacks,      \* the room realloc may leave behind a table, in buckets
          WkMaps, WkObjects

VARIABLES mpMap,         \* the map's state, records included
          mpIt,          \* walk -> the state of an iterator or a forEach call
          mpPhase, mpCall, mpRet, mpOps,
          wkState, wkRefs, wkLive

mpVars == <<mpMap, mpIt, mpPhase, mpCall, mpRet, mpOps>>
wkVars == <<wkState, wkRefs, wkLive>>

Iters == {"i", "j"}
Walks == Iters \cup {"f"}       \* f is the call of forEach
RecIds == 1..8

-----------------------------------------------------------------------------
(* The map.                                                                  *)

NoRec == [key |-> [n |-> 0, tag |-> "int"], value |-> 0, empty |-> TRUE, ref |-> 0]
NewMap == [recs |-> [r \in RecIds |-> NoRec], list |-> <<>>, table |-> <<<<>>>>, count |-> 0, threshold |-> 4]

\* -0 becomes the integer 0.
map_normalize_key(k) == IF k.tag = "float" /\ k.n = 0 THEN [n |-> 0, tag |-> "int"] ELSE k

\* Folded stands for the bits of a double put together.
Folded(d) == d % 16
Tag(k) == CASE k.tag = "int" -> 0 [] k.tag = "float" -> 7 [] k.tag = "obj" -> 15
map_hash_key(k) == (Folded(IF k.tag = "int" THEN k.n * 3163 ELSE k.n) * 3163) ^^ Tag(k)

\* js_same_value_zero: the numbers are compared, whatever holds them.
Same(k1, k2) == k1.n = k2.n

Bucket(m, k) == (map_hash_key(k) & (Len(m.table) - 1)) + 1

map_find_record(m, k) ==
  LET here == SelectSeq(m.table[Bucket(m, k)], LAMBDA r : Same(m.recs[r].key, k))
  IN IF here = <<>> THEN 0 ELSE Head(here)

map_hash_resize(m, slack) ==
  LET size == (IF Len(m.table) = 1 THEN 4 ELSE 2 * Len(m.table)) + slack
      bare == [m EXCEPT !.table = [i \in 1..size |-> <<>>], !.threshold = 2 * size]
  IN [bare EXCEPT !.table = [i \in 1..size |-> SelectSeq(m.list, LAMBDA r : ~m.recs[r].empty /\ Bucket(bare, m.recs[r].key) = i)]]

FreeRec(m) == {r \in RecIds : m.recs[r].ref = 0}

map_add_record(m, k, slack) ==
  LET r == CHOOSE x \in FreeRec(m) : \A y \in FreeRec(m) : x <= y
      added == [m EXCEPT !.recs[r] = [key |-> k, value |-> 0, empty |-> FALSE, ref |-> 1],
                         !.table[Bucket(m, k)] = Append(@, r), !.list = Append(@, r), !.count = @ + 1]
  IN [m |-> IF added.count >= added.threshold THEN map_hash_resize(added, slack) ELSE added, r |-> r]

\* The record is freed.
Release(m, r) == [m EXCEPT !.list = SelectSeq(@, LAMBDA x : x # r), !.recs[r] = NoRec]

map_delete_record(m, r) ==
  LET out == [m EXCEPT !.table[Bucket(m, m.recs[r].key)] = SelectSeq(@, LAMBDA x : x # r), !.count = @ - 1]
  IN IF m.recs[r].empty THEN m
     ELSE IF m.recs[r].ref = 1 THEN Release(out, r)
     ELSE [out EXCEPT !.recs[r] = [NoRec EXCEPT !.ref = m.recs[r].ref - 1]]

\* A record that is not allocated would get a count below zero.
map_decref_record(m, r) == IF m.recs[r].ref = 1 THEN Release(m, r) ELSE [m EXCEPT !.recs[r].ref = @ - 1]

js_map_set(m, key, v, slack) ==
  LET k == map_normalize_key(key)
      r == map_find_record(m, k)
      a == map_add_record(m, k, slack)
  IN IF r # 0 THEN [m EXCEPT !.recs[r].value = v] ELSE [a.m EXCEPT !.recs[a.r].value = v]

js_map_get(m, key) == LET r == map_find_record(m, map_normalize_key(key)) IN IF r = 0 THEN <<>> ELSE <<m.recs[r].value>>

js_map_get_size(m) == m.count

js_map_clear(m) == FoldLeft(map_delete_record, m, m.list)

js_map_constructor(items) == FoldLeft(LAMBDA m, it : js_map_set(m, it.k, it.v, 0), NewMap, items)

-----------------------------------------------------------------------------
(* Walks over the records.                                                   *)

NoWalk == [st |-> "none", cur |-> 0]
Position(m, r) == IF r = 0 THEN 0 ELSE CHOOSE i \in DOMAIN m.list : m.list[i] = r

\* The first record behind r that is no zombie, 0 at the end of the list.
NextRecord(m, r) ==
  LET rest == SelectSeq(SubSeq(m.list, Position(m, r) + 1, Len(m.list)), LAMBDA x : ~m.recs[x].empty)
  IN IF rest = <<>> THEN 0 ELSE Head(rest)

Lock(m, r) == [m EXCEPT !.recs[r].ref = @ + 1]

\* A change of Advance: the record is unlocked after the next one is looked for, from the start.
RestartsAtEnd(m, r) ==
  LET next == IF r # 0 /\ m.recs[r].empty THEN NextRecord(m, 0) ELSE NextRecord(m, r)
      free == IF r = 0 THEN m ELSE map_decref_record(m, r)
  IN [m |-> IF next = 0 THEN free ELSE Lock(free, next), r |-> next]

\* The walk leaves r, which may be freed, for the next record, which it locks.
Advance(m, r) ==
  LET next == NextRecord(m, r)
      free == IF r = 0 THEN m ELSE map_decref_record(m, r)
  IN [m |-> IF next = 0 THEN free ELSE Lock(free, next), r |-> next]

Entry(m, r) == IF r = 0 THEN <<"done">> ELSE <<m.recs[r].key.n, m.recs[r].value>>

-----------------------------------------------------------------------------
(* The calls.                                                                *)

Call(op, k, v, w) == [op |-> op, k |-> k, v |-> v, w |-> w]
Called(op, k, v, w, r) ==
  /\ mpPhase = "live" /\ mpOps < MpMaxOps
  /\ mpOps' = mpOps + 1 /\ mpCall' = Call(op, k, v, w) /\ mpRet' = r /\ UNCHANGED <<mpPhase, wkVars>>

MpSet == \E k \in MpKeys, v \in MpValues, s \in MpSlacks :
           /\ FreeRec(mpMap) # {}
           /\ Called("set", map_normalize_key(k).n, v, "i", <<>>)
           /\ mpMap' = js_map_set(mpMap, k, v, s) /\ UNCHANGED mpIt
js_map_delete == \E k \in MpKeys : LET r == map_find_record(mpMap, map_normalize_key(k))
                                   IN /\ Called("delete", k.n, 0, "i", <<r # 0>>)
                                      /\ mpMap' = IF r = 0 THEN mpMap ELSE map_delete_record(mpMap, r)
                                      /\ UNCHANGED mpIt
MpClear == Called("clear", 0, 0, "i", <<>>) /\ mpMap' = js_map_clear(mpMap) /\ UNCHANGED mpIt
js_create_map_iterator == \E i \in Iters : /\ mpIt[i].st = "none" /\ (i = "j" => mpIt["i"].st # "none")
                                           /\ Called("start", 0, 0, i, <<>>)
                                           /\ mpIt' = [mpIt EXCEPT ![i].st = "live"] /\ UNCHANGED mpMap

\* A finished iterator has let the map go.
js_map_iterator_next ==
  \E i \in Iters :
    LET a == Advance(mpMap, mpIt[i].cur)
    IN IF mpIt[i].st = "done" THEN Called("next", 0, 0, i, <<"done">>) /\ UNCHANGED <<mpMap, mpIt>>
       ELSE /\ mpIt[i].st = "live"
            /\ Called("next", 0, 0, i, Entry(mpMap, a.r))
            /\ mpMap' = a.m
            /\ mpIt' = [mpIt EXCEPT ![i] = [st |-> IF a.r = 0 THEN "done" ELSE "live", cur |-> a.r]]

js_map_iterator_finalizer ==
  \E i \in Iters : /\ mpIt[i].st # "none"
                   /\ Called("drop", 0, 0, i, <<>>)
                   /\ mpMap' = IF mpIt[i].cur = 0 THEN mpMap ELSE map_decref_record(mpMap, mpIt[i].cur)
                   /\ mpIt' = [mpIt EXCEPT ![i] = NoWalk]

\* forEach starts.  Until it ends, the other calls are made by its callback.
js_map_forEach == /\ mpIt["f"].st = "none"
                  /\ Called("start", 0, 0, "f", <<>>)
                  /\ mpIt' = [mpIt EXCEPT !["f"].st = "live"] /\ UNCHANGED mpMap
\* The callback is called with the next record, or there is none left.
MpForEachCalls == LET a == Advance(mpMap, mpIt["f"].cur)
                  IN /\ mpIt["f"].st = "live"
                     /\ Called("next", 0, 0, "f", Entry(mpMap, a.r))
                     /\ mpMap' = a.m
                     /\ mpIt' = [mpIt EXCEPT !["f"] = [st |-> IF a.r = 0 THEN "done" ELSE "live", cur |-> a.r]]
\* forEach returns, or the callback has thrown.
MpForEachEnds == /\ mpIt["f"].st = "done" \/ mpIt["f"].cur # 0
                 /\ Called("drop", 0, 0, "f", <<>>)
                 /\ mpMap' = IF mpIt["f"].cur = 0 THEN mpMap ELSE map_decref_record(mpMap, mpIt["f"].cur)
                 /\ mpIt' = [mpIt EXCEPT !["f"] = NoWalk]

\* The map and the iterators left are garbage; the sweep finalizes them in any order.
MpGarbage == /\ mpPhase = "live" /\ mpIt["f"].st = "none"
             /\ mpPhase' = "sweep" /\ UNCHANGED <<mpMap, mpIt, mpCall, mpRet, mpOps, wkVars>>
js_map_finalizer == /\ mpPhase = "sweep"
                    /\ mpPhase' = "freed"
                    /\ mpMap' = NewMap /\ UNCHANGED <<mpIt, mpCall, mpRet, mpOps, wkVars>>
SweepIterator(i) ==
  IF mpIt[i].cur = 0 \/ mpPhase = "freed" THEN mpMap ELSE map_decref_record(mpMap, mpIt[i].cur)

MpSweepIterator == \E i \in Iters : /\ mpPhase \in {"sweep", "freed"} /\ mpIt[i].st # "none"
                                    /\ mpMap' = SweepIterator(i)
                                    /\ mpIt' = [mpIt EXCEPT ![i] = NoWalk]
                                    /\ UNCHANGED <<mpPhase, mpCall, mpRet, mpOps, wkVars>>
MpSwept == /\ mpPhase = "freed" /\ \A i \in Iters : mpIt[i].st = "none"
           /\ mpPhase' = "gone" /\ mpCall' = Call("end", 0, 0, "i") /\ mpRet' = <<>>
           /\ UNCHANGED <<mpMap, mpIt, mpOps, wkVars>>

-----------------------------------------------------------------------------
(* Weak maps: wkRefs[o] lists the records whose key is o, the newest first.   *)

OKey(o) == [n |-> o, tag |-> "obj"]
Weak == mpPhase = "weak" /\ UNCHANGED mpVars

WkSet == \E w \in WkMaps, o \in WkObjects, v \in MpValues :
           LET m == wkState[w]
               r == map_find_record(m, OKey(o))
               a == map_add_record(m, OKey(o), 0)
           IN /\ Weak /\ w \in wkLive /\ o \in wkLive /\ FreeRec(m) # {}
              /\ wkState' = [wkState EXCEPT ![w] = js_map_set(m, OKey(o), v, 0)]
              /\ wkRefs' = IF r # 0 THEN wkRefs ELSE [wkRefs EXCEPT ![o] = <<<<w, a.r>>>> \o @]
              /\ UNCHANGED wkLive

delete_weak_ref(refs, o, w, r) == [refs EXCEPT ![o] = SelectSeq(@, LAMBDA x : x # <<w, r>>)]

WkDelete == \E w \in WkMaps, o \in WkObjects :
              LET r == map_find_record(wkState[w], OKey(o))
              IN /\ Weak /\ w \in wkLive /\ o \in wkLive /\ r # 0
                 /\ wkState' = [wkState EXCEPT ![w] = map_delete_record(@, r)]
                 /\ wkRefs' = delete_weak_ref(wkRefs, o, w, r)
                 /\ UNCHANGED wkLive

\* The records leave the lists of their maps; record_count is not changed.
Unlink(m, r) == LET b == Bucket(m, m.recs[r].key) IN Release([m EXCEPT !.table[b] = SelectSeq(@, LAMBDA x : x # r)], r)

reset_weak_ref(o) ==
  [w \in WkMaps |-> FoldLeft(LAMBDA m, x : IF x[1] = w THEN Unlink(m, x[2]) ELSE m, wkState[w], wkRefs[o])]

WkKeyDies == \E o \in WkObjects : /\ Weak /\ o \in wkLive
                                  /\ wkState' = reset_weak_ref(o)
                                  /\ wkRefs' = [wkRefs EXCEPT ![o] = <<>>] /\ wkLive' = wkLive \ {o}
WkMapDies == \E w \in WkMaps :
               LET m == wkState[w]
               IN /\ Weak /\ w \in wkLive
                  /\ wkRefs' = FoldLeft(LAMBDA refs, r : delete_weak_ref(refs, m.recs[r].key.n, w, r), wkRefs, m.list)
                  /\ wkState' = [wkState EXCEPT ![w] = NewMap]
                  /\ wkLive' = wkLive \ {w}

-----------------------------------------------------------------------------

MpInit == /\ mpMap \in {js_map_constructor(x) : x \in MpItems}
          /\ mpIt = [w \in Walks |-> NoWalk]
          /\ mpPhase \in {"live", "weak"}
          /\ mpCall = Call("none", 0, 0, "i") /\ mpRet = <<>> /\ mpOps = 0
          /\ wkState = [w \in WkMaps |-> NewMap] /\ wkRefs = [o \in WkObjects |-> <<>>]
          /\ wkLive = IF mpPhase = "weak" THEN WkMaps \cup WkObjects ELSE {}

MpNext == \/ MpSet \/ js_map_delete \/ MpClear
          \/ js_create_map_iterator \/ js_map_iterator_next \/ js_map_iterator_finalizer
          \/ js_map_forEach \/ MpForEachCalls \/ MpForEachEnds
          \/ MpGarbage \/ js_map_finalizer \/ MpSweepIterator \/ MpSwept
          \/ WkSet \/ WkDelete \/ WkKeyDies \/ WkMapDies

MpSpec == MpInit /\ [][MpNext]_<<mpVars, wkVars>>

-----------------------------------------------------------------------------
(* Properties.                                                               *)

Present(m) == SelectSeq(m.list, LAMBDA r : ~m.recs[r].empty)
AbsData == IF mpPhase = "gone" THEN <<>> ELSE [i \in DOMAIN Present(mpMap) |-> LET r == mpMap.recs[Present(mpMap)[i]] IN [k |-> r.key.n, v |-> r.value]]
Passed(m, r) == Cardinality({i \in 1..Position(m, r) : ~m.recs[m.list[i]].empty})
AbsWalks == [w \in Walks |-> CASE mpIt[w].st = "none" -> -1 [] mpIt[w].st = "done" -> -2 [] mpIt[w].st = "live" -> Passed(mpMap, mpIt[w].cur)]

\* While the map is alive.
MapAbstract == INSTANCE MapSpec WITH data <- AbsData, walks <- AbsWalks, call <- mpCall, ret <- mpRet

\* Every call of a live map answers and changes what a map of the language
\* does, with iterators and forEach calls at any place and entries deleted
\* and added meanwhile.
MapsRefine == [][mpPhase' = "live" => MapAbstract!SpecStep]_<<mpMap, mpIt, mpCall, mpRet>>

\* A record is counted once for being present and once for each walk at it;
\* it is in its bucket while present, and freed when nothing counts it.
RecordsCounted ==
  LET m == mpMap
      at(r) == {w \in Walks : mpIt[w].cur = r}
  IN /\ mpPhase \in {"live", "sweep"} =>
          /\ \A r \in RecIds : m.recs[r].ref = Cardinality(at(r)) + (IF m.recs[r].empty THEN 0 ELSE 1)
          /\ ToSet(m.list) = {r \in RecIds : m.recs[r].ref > 0}
          /\ ToSet(Present(m)) = UNION {ToSet(m.table[b]) : b \in DOMAIN m.table}
     /\ \A r \in RecIds : m.recs[r].ref >= 0

\* js_map_get and js_map_has find a key exactly when it is present, and size
\* is the number of entries, however the hash table has grown.
LookupsRight ==
  mpPhase = "live" =>
    /\ js_map_get_size(mpMap) = Len(AbsData)
    /\ \A k \in MpKeys : LET i == MapAbstract!Where(AbsData, k.n)
                         IN js_map_get(mpMap, k) = IF i = 0 THEN <<>> ELSE <<AbsData[i].v>>

\* The weak references of a living object are its records in the living weak
\* maps, and no weak map holds a record of a dead object.
WeakRefsExact ==
  /\ \A o \in WkObjects : ToSet(wkRefs[o]) = {x \in wkLive \X RecIds : x[1] \in WkMaps /\ wkState[x[1]].recs[x[2]].ref > 0
                                                                       /\ wkState[x[1]].recs[x[2]].key.n = o}
  /\ \A w \in WkMaps : \A r \in ToSet(wkState[w].list) : wkState[w].recs[r].key.n \in wkLive

\* record_count is the number of records of a weak map.
WeakCountExact == \A w \in WkMaps : wkState[w].count = Len(wkState[w].list)
=============================================================================
