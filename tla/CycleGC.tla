------------------------------ MODULE CycleGC ------------------------------
(***************************************************************************)
(* Reference counting and the cycle collector of quickjs.c.                *)
(*                                                                         *)
(* JS_FreeValue releases a node when its count reaches zero, recursively.  *)
(* JS_RunGC subtracts from the counts the references that objects hold     *)
(* (gc_decref), rescues what still has a count (gc_scan), restores the     *)
(* counts of the rest and frees it (gc_free_cycles).                       *)
(*                                                                         *)
(* The recursion of the C functions is a stack of frames: the function     *)
(* passed to mark_children (or "free" for free_object_struct and the other *)
(* free functions), the node, and the fields still to visit.  Each step    *)
(* visits one field.                                                       *)
(***************************************************************************)
EXTENDS HeapSpec, ListHead

VARIABLES
    ref_count,      \* header.ref_count
    mark,           \* gc_header.mark
    free_mark,      \* objects with free_mark set
    obj_list, tmp_obj_list, free_obj_list,
    el_next,        \* the loop variable of the pass: a node, or Nil at the end
    phase,          \* "mutator" or the pass of JS_RunGC
    stack           \* the active calls, innermost first

gcVars == <<mark, free_mark, obj_list, tmp_obj_list, free_obj_list, el_next, phase>>
nodeVars == <<alloc, child, ext, ref_count, mark, free_mark, obj_list, tmp_obj_list,
              free_obj_list, el_next, phase, stack>>

Passes == {"decref", "scan", "scan2", "sweep"}
Functions == {"decref", "incref", "scan", "scan2", "free"}

in_gc_sweep == phase = "sweep"

Fields(n) == {i \in Slots : child[n][i] # Nil}
Frame(fn, n) == [fn |-> fn, n |-> n, todo |-> Fields(n)]
Call(fn, n, s) == <<Frame(fn, n)>> \o s

First(list) == IF list = <<>> THEN Nil ELSE Head(list)
Follower(list, x) ==
    IF \E i \in 1..(Len(list) - 1) : list[i] = x
    THEN list[(CHOOSE i \in 1..(Len(list) - 1) : list[i] = x) + 1]
    ELSE Nil

GcInit ==
    /\ HeapInit
    /\ ref_count = [n \in Nodes |-> 0]
    /\ mark = [n \in Nodes |-> 0]
    /\ free_mark = {}
    /\ obj_list = <<>> /\ tmp_obj_list = <<>> /\ free_obj_list = <<>>
    /\ el_next = Nil
    /\ phase = "mutator"
    /\ stack = <<>>

-----------------------------------------------------------------------------
(* Reference counting.                                                      *)

\* JavaScript code runs: no collection and no release is under way.
Mutator == phase = "mutator" /\ stack = <<>>

\* JS_FreeValueRT on c, once its count has been decremented to count: at zero
\* free_object does nothing during the sweep and free_object2 nothing twice;
\* the other kinds of nodes are freed at once.
FreeValue(c, count, s) ==
    IF count = 0 /\ (c \in Objects => ~in_gc_sweep /\ c \notin free_mark)
    THEN /\ stack' = Call("free", c, s)
         /\ free_mark' = IF c \in Objects THEN free_mark \cup {c} ELSE free_mark
    ELSE stack' = s /\ UNCHANGED free_mark

\* JS_NewObjectFromShape, and the creation of shapes, closed variables, bytecode
\* and suspended async functions (objects only are linked in obj_list).
NewNode(n) ==
    /\ Mutator
    /\ New(n)
    /\ ref_count' = [ref_count EXCEPT ![n] = 1]
    /\ mark' = [mark EXCEPT ![n] = 0]
    /\ free_mark' = free_mark \ {n}
    /\ obj_list' = IF n \in Objects THEN Append(obj_list, n) ELSE obj_list
    /\ UNCHANGED <<tmp_obj_list, free_obj_list, el_next, phase, stack>>

\* JS_DupValue of a value held.
DupValue(n) ==
    /\ Mutator
    /\ Dup(n)
    /\ ref_count' = [ref_count EXCEPT ![n] = @ + 1]
    /\ UNCHANGED <<gcVars, stack>>

\* Reading a property: JS_DupValue of the field's value.
GetField(n, i) ==
    /\ Mutator
    /\ Load(n, i)
    /\ ref_count' = [ref_count EXCEPT ![child[n][i]] = @ + 1]
    /\ UNCHANGED <<gcVars, stack>>

\* set_value: the new value, owned by the caller, is stored, then the old freed.
SetField(n, i, c) ==
    /\ Mutator
    /\ Store(n, i, c)
    /\ LET old == child[n][i] IN
       IF old = Nil
       THEN UNCHANGED <<ref_count, free_mark, stack>>
       ELSE /\ ref_count' = [ref_count EXCEPT ![old] = @ - 1]
            /\ FreeValue(old, ref_count'[old], stack)
    /\ UNCHANGED <<mark, obj_list, tmp_obj_list, free_obj_list, el_next, phase>>

\* Deleting a property: free_property.
DeleteField(n, i) ==
    /\ Mutator
    /\ Unset(n, i)
    /\ ref_count' = [ref_count EXCEPT ![child[n][i]] = @ - 1]
    /\ FreeValue(child[n][i], ref_count'[child[n][i]], stack)
    /\ UNCHANGED <<mark, obj_list, tmp_obj_list, free_obj_list, el_next, phase>>

\* JS_FreeValue of a value held.
DropValue(n) ==
    /\ Mutator
    /\ Drop(n)
    /\ ref_count' = [ref_count EXCEPT ![n] = @ - 1]
    /\ FreeValue(n, ref_count'[n], stack)
    /\ UNCHANGED <<mark, obj_list, tmp_obj_list, free_obj_list, el_next, phase>>

\* The innermost call is of fn, and i is the next field of its node to visit.
Visiting(fn, i) ==
    /\ stack # <<>>
    /\ Head(stack).fn = fn
    /\ i \in Head(stack).todo
    /\ \A j \in Head(stack).todo : i <= j

\* The stack once field i has been visited.
Visited(i) == <<[Head(stack) EXCEPT !.todo = @ \ {i}]>> \o Tail(stack)

FieldOf(i) == child[Head(stack).n][i]

\* The innermost call is of fn and has visited every field.
Returning(fn) ==
    /\ stack # <<>>
    /\ Head(stack).fn = fn
    /\ Head(stack).todo = {}

\* free_object_struct, free_var_ref, js_free_shape, free_function_bytecode and
\* js_async_function_free release one field.
FreeField(i) ==
    /\ Visiting("free", i)
    /\ child' = [child EXCEPT ![Head(stack).n][i] = Nil]
    /\ ref_count' = [ref_count EXCEPT ![FieldOf(i)] = @ - 1]
    /\ FreeValue(FieldOf(i), ref_count'[FieldOf(i)], Visited(i))
    /\ UNCHANGED <<alloc, ext, mark, obj_list, tmp_obj_list, free_obj_list, el_next, phase>>

\* The end of free_object2: unlink the object, and keep its storage until the
\* end of a sweep.
FreeObjectDone ==
    /\ Returning("free")
    /\ LET n == Head(stack).n IN
       /\ n \in Objects
       /\ obj_list' = Unlink(obj_list, n)
       /\ tmp_obj_list' = Unlink(tmp_obj_list, n)
       /\ IF in_gc_sweep
          THEN free_obj_list' = Append(free_obj_list, n) /\ UNCHANGED alloc
          ELSE alloc' = alloc \ {n} /\ UNCHANGED free_obj_list
    /\ stack' = Tail(stack)
    /\ UNCHANGED <<child, ext, ref_count, mark, free_mark, el_next, phase>>

\* The end of the other free functions: the storage is released at once.
FreeCellDone ==
    /\ Returning("free")
    /\ Head(stack).n \in Cells
    /\ alloc' = alloc \ {Head(stack).n}
    /\ stack' = Tail(stack)
    /\ UNCHANGED <<child, ext, ref_count, gcVars>>

-----------------------------------------------------------------------------
(* JS_RunGC.                                                                *)

\* mark_children has visited every field: the mark function returns.
MarkChildrenReturns ==
    /\ \E fn \in Functions \ {"free"} : Returning(fn)
    /\ stack' = Tail(stack)
    /\ UNCHANGED <<alloc, child, ext, ref_count, gcVars>>

JS_RunGC ==
    /\ Mutator
    /\ phase' = "decref"
    /\ el_next' = First(obj_list)
    /\ UNCHANGED <<alloc, child, ext, ref_count, mark, free_mark, obj_list, tmp_obj_list,
                   free_obj_list, stack>>

gc_decref_mark(n, s) ==
    IF mark[n] = 0
    THEN mark' = [mark EXCEPT ![n] = 1] /\ stack' = Call("decref", n, s)
    ELSE stack' = s /\ UNCHANGED mark

gc_decref_child(i) ==
    /\ Visiting("decref", i)
    /\ ref_count' = [ref_count EXCEPT ![FieldOf(i)] = @ - 1]
    /\ gc_decref_mark(FieldOf(i), Visited(i))
    /\ UNCHANGED <<alloc, child, ext, free_mark, obj_list, tmp_obj_list, free_obj_list,
                   el_next, phase>>

gc_decref ==
    /\ phase = "decref" /\ stack = <<>>
    /\ el_next # Nil
    /\ gc_decref_mark(el_next, stack)
    /\ el_next' = Follower(obj_list, el_next)
    /\ UNCHANGED <<alloc, child, ext, ref_count, free_mark, obj_list, tmp_obj_list,
                   free_obj_list, phase>>

\* The head of gc_scan: obj_list becomes tmp_obj_list.
gc_scan ==
    /\ phase = "decref" /\ stack = <<>>
    /\ el_next = Nil
    /\ phase' = "scan"
    /\ tmp_obj_list' = obj_list
    /\ obj_list' = <<>>
    /\ el_next' = First(obj_list)
    /\ UNCHANGED <<alloc, child, ext, ref_count, mark, free_mark, free_obj_list, stack>>

\* n is kept: it goes back to obj_list, and so does what it refers to.  next is
\* the object gc_scan explores next unless it is the one that moves.
gc_scan_incref(n, next, s) ==
    /\ mark' = [mark EXCEPT ![n] = 0]
    /\ IF n \in Objects
       THEN /\ el_next' = IF next = n THEN Follower(tmp_obj_list, n) ELSE next
            /\ tmp_obj_list' = Unlink(tmp_obj_list, n)
            /\ obj_list' = Append(Unlink(obj_list, n), n)
       ELSE el_next' = next /\ UNCHANGED <<tmp_obj_list, obj_list>>
    /\ stack' = Call("incref", n, s)

\* Mutant: the count is restored only the first time the child is met.
IncrefsOnce(i) ==
    /\ Visiting("incref", i)
    /\ IF mark[FieldOf(i)] # 0
       THEN /\ ref_count' = [ref_count EXCEPT ![FieldOf(i)] = @ + 1]
            /\ gc_scan_incref(FieldOf(i), el_next, Visited(i))
       ELSE stack' = Visited(i) /\ UNCHANGED <<ref_count, mark, el_next, tmp_obj_list, obj_list>>
    /\ UNCHANGED <<alloc, child, ext, free_mark, free_obj_list, phase>>

\* Mutant: a child that gc_scan_obj has seen already is not kept.
KeepsUnseenOnly(i) ==
    /\ Visiting("incref", i)
    /\ ref_count' = [ref_count EXCEPT ![FieldOf(i)] = @ + 1]
    /\ IF mark[FieldOf(i)] = 1
       THEN gc_scan_incref(FieldOf(i), el_next, Visited(i))
       ELSE stack' = Visited(i) /\ UNCHANGED <<mark, el_next, tmp_obj_list, obj_list>>
    /\ UNCHANGED <<alloc, child, ext, free_mark, free_obj_list, phase>>

gc_scan_incref_child(i) ==
    /\ Visiting("incref", i)
    /\ ref_count' = [ref_count EXCEPT ![FieldOf(i)] = @ + 1]
    /\ IF mark[FieldOf(i)] # 0
       THEN gc_scan_incref(FieldOf(i), el_next, Visited(i))
       ELSE stack' = Visited(i) /\ UNCHANGED <<mark, el_next, tmp_obj_list, obj_list>>
    /\ UNCHANGED <<alloc, child, ext, free_mark, free_obj_list, phase>>

\* Mutant: a node with no reference left is kept (>= 0 for > 0).
ScanKeepsAll(n, next, s) ==
    \/ mark[n] = 1 /\ gc_scan_incref(n, next, s)
    \/ /\ mark[n] # 1
       /\ stack' = s
       /\ el_next' = next
       /\ UNCHANGED <<mark, tmp_obj_list, obj_list>>

gc_scan_obj(n, next, s) ==
    \/ /\ mark[n] = 1 /\ ref_count[n] > 0
       /\ gc_scan_incref(n, next, s)
    \/ /\ mark[n] = 1 /\ ref_count[n] = 0
       /\ mark' = [mark EXCEPT ![n] = 2]
       /\ stack' = Call("scan", n, s)
       /\ el_next' = next
       /\ UNCHANGED <<tmp_obj_list, obj_list>>
    \/ /\ mark[n] # 1
       /\ stack' = s
       /\ el_next' = next
       /\ UNCHANGED <<mark, tmp_obj_list, obj_list>>

gc_scan_obj_child(i) ==
    /\ Visiting("scan", i)
    /\ gc_scan_obj(FieldOf(i), el_next, Visited(i))
    /\ UNCHANGED <<alloc, child, ext, ref_count, free_mark, free_obj_list, phase>>

\* One turn of the first loop of gc_scan.
gc_scan_loop ==
    /\ phase = "scan" /\ stack = <<>>
    /\ el_next # Nil
    /\ gc_scan_obj(el_next, Follower(tmp_obj_list, el_next), stack)
    /\ UNCHANGED <<alloc, child, ext, ref_count, free_mark, free_obj_list, phase>>

\* The second loop of gc_scan starts.
gc_scan_restore ==
    /\ phase = "scan" /\ stack = <<>>
    /\ el_next = Nil
    /\ phase' = "scan2"
    /\ el_next' = First(tmp_obj_list)
    /\ UNCHANGED <<alloc, child, ext, ref_count, mark, free_mark, obj_list, tmp_obj_list,
                   free_obj_list, stack>>

gc_scan_obj2(n, s) ==
    IF mark[n] = 2
    THEN mark' = [mark EXCEPT ![n] = 3] /\ stack' = Call("scan2", n, s)
    ELSE stack' = s /\ UNCHANGED mark

gc_scan_incref_child2(i) ==
    /\ Visiting("scan2", i)
    /\ ref_count' = [ref_count EXCEPT ![FieldOf(i)] = @ + 1]
    /\ gc_scan_obj2(FieldOf(i), Visited(i))
    /\ UNCHANGED <<alloc, child, ext, free_mark, obj_list, tmp_obj_list, free_obj_list,
                   el_next, phase>>

gc_scan_loop2 ==
    /\ phase = "scan2" /\ stack = <<>>
    /\ el_next # Nil
    /\ gc_scan_obj2(el_next, stack)
    /\ el_next' = Follower(tmp_obj_list, el_next)
    /\ UNCHANGED <<alloc, child, ext, ref_count, free_mark, obj_list, tmp_obj_list,
                   free_obj_list, phase>>

\* The head of gc_free_cycles.
gc_free_cycles ==
    /\ phase = "scan2" /\ stack = <<>>
    /\ el_next = Nil
    /\ phase' = "sweep"
    /\ free_obj_list' = <<>>
    /\ el_next' = First(tmp_obj_list)
    /\ UNCHANGED <<alloc, child, ext, ref_count, mark, free_mark, obj_list, tmp_obj_list,
                   stack>>

\* One turn of its loop: free_object2 on the next object.
gc_free_cycles_loop ==
    /\ in_gc_sweep /\ stack = <<>>
    /\ el_next # Nil
    /\ el_next' = Follower(tmp_obj_list, el_next)
    /\ IF el_next \in free_mark
       THEN UNCHANGED <<free_mark, stack>>
       ELSE free_mark' = free_mark \cup {el_next} /\ stack' = Call("free", el_next, stack)
    /\ UNCHANGED <<alloc, child, ext, ref_count, mark, obj_list, tmp_obj_list,
                   free_obj_list, phase>>

\* The loop ends; then the structures in free_obj_list are released.
gc_free_cycles_end ==
    /\ in_gc_sweep /\ stack = <<>>
    /\ el_next = Nil
    /\ phase' = "mutator"
    /\ alloc' = alloc \ Elems(free_obj_list)
    /\ free_obj_list' = <<>>
    /\ UNCHANGED <<child, ext, ref_count, mark, free_mark, obj_list, tmp_obj_list,
                   el_next, stack>>

-----------------------------------------------------------------------------
Mutate ==
    \/ \E n \in Nodes : NewNode(n) \/ DupValue(n) \/ DropValue(n)
    \/ \E n \in Nodes, i \in Slots : GetField(n, i) \/ DeleteField(n, i)
    \/ \E n, c \in Nodes, i \in Slots : SetField(n, i, c)

Collect ==
    \/ \E i \in Slots : FreeField(i)
    \/ FreeObjectDone
    \/ FreeCellDone
    \/ MarkChildrenReturns
    \/ \E i \in Slots : gc_decref_child(i)
    \/ gc_decref
    \/ gc_scan
    \/ \E i \in Slots : gc_scan_incref_child(i)
    \/ \E i \in Slots : gc_scan_obj_child(i)
    \/ gc_scan_loop
    \/ gc_scan_restore
    \/ \E i \in Slots : gc_scan_incref_child2(i)
    \/ gc_scan_loop2
    \/ gc_free_cycles
    \/ gc_free_cycles_loop
    \/ gc_free_cycles_end

GcNext == Mutate \/ JS_RunGC \/ Collect

GcSpec == GcInit /\ [][GcNext]_nodeVars

-----------------------------------------------------------------------------
(* Properties.                                                              *)

Lists == Elems(obj_list) \cup Elems(tmp_obj_list) \cup Elems(free_obj_list)

\* Every variable holds a value of its C type; counts never go below zero,
\* which is the assertion in gc_decref_child.
GcTypeOK ==
    /\ alloc \subseteq Nodes
    /\ child \in [Nodes -> [Slots -> Nodes \cup {Nil}]]
    /\ ext \in [Nodes -> 0..MaxExt]
    /\ ref_count \in [Nodes -> Nat]
    /\ mark \in [Nodes -> 0..3]
    /\ free_mark \subseteq Objects
    /\ obj_list \in Seq(Objects)
    /\ tmp_obj_list \in Seq(Objects)
    /\ free_obj_list \in Seq(Objects)
    /\ el_next \in Objects \cup {Nil}
    /\ phase \in {"mutator"} \cup Passes
    /\ stack \in Seq([fn : Functions, n : Nodes, todo : SUBSET Slots])

\* Field i of n has not been visited yet by a call of fn that is active.
Pending(fn, n, i) ==
    \E k \in 1..Len(stack) : stack[k].fn = fn /\ stack[k].n = n /\ i \in stack[k].todo

\* The passes of JS_RunGC have taken the reference in field i of n out of the
\* counts and not put it back.
Subtracted(n, i) ==
    \/ phase = "decref" /\ mark[n] = 1 /\ ~Pending("decref", n, i)
    \/ phase = "scan" /\ (mark[n] # 0 \/ Pending("incref", n, i))
    \/ phase = "scan2" /\ (mark[n] = 2 \/ Pending("scan2", n, i))

Referrers(c) == {<<n, i>> \in alloc \X Slots : child[n][i] = c}

\* In the mutator and in the middle of every pass alike, the count of a node is
\* the number of references to it, less those the pass has subtracted so far.
RefCountExact ==
    \A c \in alloc :
        ref_count[c] = ext[c] + Cardinality({r \in Referrers(c) : ~Subtracted(r[1], r[2])})

\* No reference, held from outside, in a field, in a list or on the stack, leads
\* to a node that has been released.
NoDangling ==
    /\ \A n \in Nodes : ext[n] > 0 => n \in alloc \ free_mark
    /\ \A n \in alloc, i \in Slots : child[n][i] \in alloc \cup {Nil}
    /\ Lists \subseteq alloc
    /\ \A k \in 1..Len(stack) : stack[k].n \in alloc
    /\ el_next \in alloc \cup {Nil}

\* What the passes leave to the next: gc_free_cycles asserts that what it frees
\* has mark 3, and a collection starts with all marks clear, all live objects
\* in obj_list and no object marked as freed.
PassesAgree ==
    /\ in_gc_sweep => \A n \in Elems(tmp_obj_list) : mark[n] = 3
    /\ Mutator => /\ \A n \in alloc : mark[n] = 0
                  /\ Elems(obj_list) = alloc \cap Objects
                  /\ Distinct(obj_list)
                  /\ tmp_obj_list = <<>>
                  /\ free_mark \cap alloc = {}

\* The heap as HeapSpec has it: counts, marks and lists are left out.
HeapAbstract == INSTANCE HeapSpec WITH alloc <- alloc, child <- child, ext <- ext

\* JS_RunGC and JS_FreeValue never release a node, or a field of a node, that
\* the program can still reach.
ReleasesOnlyGarbage == HeapAbstract!SafeHeap

\* What is left to do: the pass, then within it a bound on the calls to come.
\* A node is explored once by gc_decref, gc_scan_obj2 and free_object2, and in
\* gc_scan once with mark 1 and once more when it is kept after all.
Explorations(n) ==
    CASE phase = "decref" -> IF mark[n] = 0 THEN 1 ELSE 0
      [] phase = "scan"   -> IF mark[n] = 0 THEN 0 ELSE 3 - mark[n]
      [] phase = "scan2"  -> IF mark[n] = 2 THEN 1 ELSE 0
      [] OTHER -> IF n \in free_mark \/ \E k \in 1..Len(stack) : stack[k].n = n THEN 0 ELSE 1

Rank == CASE phase = "decref" -> 4 [] phase = "scan" -> 3 [] phase = "scan2" -> 2
          [] phase = "sweep" -> 1 [] OTHER -> 0

Remaining(list) ==
    IF el_next = Nil THEN 0
    ELSE Cardinality({i \in 1..Len(list) : \E j \in 1..i : list[j] = el_next})

Work ==
    (Cardinality(Slots) + 2) * MapThenSumSet(Explorations, alloc)
      + Remaining(IF phase = "decref" THEN obj_list ELSE tmp_obj_list)
      + Len(stack) + MapThenSumSet(LAMBDA k : Cardinality(stack[k].todo), 1..Len(stack))

\* JS_RunGC and JS_FreeValue return: every step of theirs moves on to a later
\* pass or leaves less to do in this one, although gc_scan explores nodes a
\* second time and moves objects between the lists it walks.
CollectorAdvances == Rank' < Rank \/ (Rank' = Rank /\ Work' < Work)

\* Counts, references, lists and marks are right, in the mutator and in the middle
\* of every pass of JS_RunGC alike.
HeapSound == GcTypeOK /\ RefCountExact /\ NoDangling /\ PassesAgree

\* JS_RunGC comes to an end, and when it returns nothing unreachable is left: in
\* particular obj_list is empty, as JS_FreeRuntime asserts, once nothing is held
\* from outside.
CollectionComplete ==
    [][/\ ~Mutator => CollectorAdvances
       /\ in_gc_sweep /\ phase' = "mutator" => Unreachable' = {}]_nodeVars
=============================================================================
