------------------------------ MODULE HeapSpec ------------------------------
(***************************************************************************)
(* What a program may expect of the memory management of QuickJS: a heap   *)
(* of nodes with fields, references held from outside (the C stack, the    *)
(* context, the job queue), and storage that is taken back only from nodes *)
(* no outside reference leads to.                                          *)
(***************************************************************************)
EXTENDS Naturals, FiniteSetsExt

CONSTANTS
    Objects,    \* JSObject identities
    Cells,      \* the other nodes with children: shapes, closed variables, bytecode
    Slots,      \* the fields of a node
    MaxExt,     \* bound: outside references at a time
    Nil         \* no node

ASSUME NodeAssumption == Nil \notin Objects \cup Cells /\ Objects \cap Cells = {}
ASSUME SlotAssumption == Slots \subseteq Nat
ASSUME ExtAssumption == MaxExt \in Nat

VARIABLES
    alloc,      \* nodes whose storage is allocated
    child,      \* the node each field refers to, or Nil
    ext         \* the number of outside references to each node

heapVars == <<alloc, child, ext>>

Nodes == Objects \cup Cells
Held == MapThenSumSet(LAMBDA n : ext[n], Nodes)
NoChildren == [i \in Slots |-> Nil]

\* S holds the nodes referred to from outside and what their fields lead to.
ClosedUnderFields(S) ==
    /\ \A n \in alloc : ext[n] > 0 => n \in S
    /\ \A n \in S, i \in Slots : child[n][i] # Nil => child[n][i] \in S

\* Nodes that some closed set leaves out cannot be reached by the program.
Unreachable == {n \in alloc : \E S \in SUBSET alloc : n \notin S /\ ClosedUnderFields(S)}
HeapInit ==
    /\ alloc = {}
    /\ child = [n \in Nodes |-> NoChildren]
    /\ ext = [n \in Nodes |-> 0]

-----------------------------------------------------------------------------
(* What the program does.                                                   *)

\* A new node, held by its creator.
New(n) ==
    /\ n \in Nodes \ alloc
    /\ Held < MaxExt
    /\ alloc' = alloc \cup {n}
    /\ child' = [child EXCEPT ![n] = NoChildren]
    /\ ext' = [ext EXCEPT ![n] = 1]

\* A second reference to a node already held.
Dup(n) ==
    /\ ext[n] > 0
    /\ Held < MaxExt
    /\ ext' = [ext EXCEPT ![n] = @ + 1]
    /\ UNCHANGED <<alloc, child>>

\* A reference read from a field of a node held.
Load(n, i) ==
    /\ ext[n] > 0
    /\ child[n][i] # Nil
    /\ Held < MaxExt
    /\ ext' = [ext EXCEPT ![child[n][i]] = @ + 1]
    /\ UNCHANGED <<alloc, child>>

\* A reference given away to a field.  The fields of cells refer to objects.
Store(n, i, c) ==
    /\ ext[n] > 0
    /\ ext[c] > (IF n = c THEN 1 ELSE 0)
    /\ n \in Cells => c \in Objects
    /\ child' = [child EXCEPT ![n][i] = c]
    /\ ext' = [ext EXCEPT ![c] = @ - 1]
    /\ UNCHANGED alloc

\* A field emptied.
Unset(n, i) ==
    /\ ext[n] > 0
    /\ child[n][i] # Nil
    /\ child' = [child EXCEPT ![n][i] = Nil]
    /\ UNCHANGED <<alloc, ext>>

\* A reference dropped.
Drop(n) ==
    /\ ext[n] > 0
    /\ ext' = [ext EXCEPT ![n] = @ - 1]
    /\ UNCHANGED <<alloc, child>>

-----------------------------------------------------------------------------
(* What the memory management does behind its back.                         *)

\* A field of an unreachable node is released.
Scrub(n, i) ==
    /\ child' = [child EXCEPT ![n][i] = Nil]
    /\ UNCHANGED <<alloc, ext>>
    /\ n \in Unreachable

\* The storage of unreachable nodes that nothing refers to any more is released.
Reclaim(U) ==
    /\ alloc' = alloc \ U
    /\ UNCHANGED <<child, ext>>
    /\ \A n \in alloc \ U, i \in Slots : child[n][i] \notin U
    /\ U \subseteq Unreachable

HeapNext ==
    \/ \E n \in Nodes : New(n) \/ Dup(n) \/ Drop(n)
    \/ \E n \in Nodes, i \in Slots : Load(n, i) \/ Unset(n, i) \/ Scrub(n, i)
    \/ \E n, c \in Nodes, i \in Slots : Store(n, i, c)
    \/ \E U \in SUBSET Nodes : Reclaim(U)

\* Fields of reachable nodes change and their storage is released only by the
\* program's own operations: the promise of JS_FreeValue and JS_RunGC.
SafeHeap == HeapInit /\ [][HeapNext]_heapVars
=============================================================================
