------------------------------ MODULE JSMalloc ------------------------------
(***************************************************************************)
(* The memory accounting of a JSRuntime: js_def_malloc, js_def_free and    *)
(* js_def_realloc with their limit, and the trigger of the collector.      *)
(*                                                                         *)
(* The accounting is in size_t, so its sums are modulo WordSize.  What the *)
(* C library hands out is a set of addresses for each block: the usable    *)
(* bytes and MALLOC_OVERHEAD more, which stand for the library's header.   *)
(***************************************************************************)
EXTENDS Integers, FiniteSets

CONSTANTS
    Addresses,        \* the memory of the process
    Blocks,           \* identities of allocated blocks (reused once freed)
    WordSize,         \* 2^64: the values of size_t are 0..WordSize - 1
    MALLOC_OVERHEAD,
    MaxSlack,         \* most by which a usable size exceeds the size asked for
    Sizes,            \* bound: the sizes asked for
    Limits,           \* bound: the arguments of JS_SetMemoryLimit
    Thresholds,       \* bound: the arguments of JS_SetGCThreshold
    FirstThreshold,   \* 256 * 1024
    RuntimeBlock      \* the block that holds the JSRuntime itself

size_t == 0..(WordSize - 1)

\* A process has less memory than half of what a size_t can count.
ASSUME MemoryAssumption ==
    /\ WordSize \in Nat
    /\ IsFiniteSet(Addresses) /\ 2 * Cardinality(Addresses) < WordSize
    /\ IsFiniteSet(Blocks) /\ RuntimeBlock \in Blocks
ASSUME OverheadAssumption == MALLOC_OVERHEAD \in Nat \ {0} /\ MaxSlack \in Nat
ASSUME ArgumentAssumption ==
    /\ Sizes \subseteq size_t \ {0} /\ Limits \subseteq size_t
    /\ Thresholds \subseteq size_t /\ FirstThreshold \in size_t

VARIABLES
    up,                    \* does the runtime exist?
    footprint,             \* the addresses of each block; none if it is free
    malloc_size,
    malloc_count,
    malloc_limit,
    malloc_gc_threshold,
    result                 \* of the last call: "ok", "null", "collected" or "kept"

vars == <<up, footprint, malloc_size, malloc_count, malloc_limit, malloc_gc_threshold, result>>

Live == {b \in Blocks : footprint[b] # {}}
Used == UNION {footprint[b] : b \in Blocks}

\* js_def_malloc_usable_size plus MALLOC_OVERHEAD.
Charge(F) == Cardinality(F)
usable_size(F) == Cardinality(F) - MALLOC_OVERHEAD

\* What malloc and realloc may return for size bytes out of the addresses A,
\* besides NULL.
Fits(F, size, A) ==
    /\ F \subseteq A
    /\ usable_size(F) \in size..(size + MaxSlack)

Init ==
    /\ up = FALSE
    /\ footprint = [b \in Blocks |-> {}]
    /\ malloc_size = 0
    /\ malloc_count = 0
    /\ malloc_limit = 0
    /\ malloc_gc_threshold = 0
    /\ result = "null"

-----------------------------------------------------------------------------
\* JS_NewRuntime2: the accounting starts afresh, without a limit, and the
\* runtime's own block is the first to be charged.
JS_NewRuntime(F, size) ==
    /\ ~up
    /\ Fits(F, size, Addresses \ Used)
    /\ up' = TRUE
    /\ footprint' = [footprint EXCEPT ![RuntimeBlock] = F]
    /\ malloc_size' = Charge(F)
    /\ malloc_count' = 1
    /\ malloc_limit' = WordSize - 1
    /\ malloc_gc_threshold' = FirstThreshold
    /\ result' = "ok"

\* JS_SetMemoryLimit: also below what is allocated already.
JS_SetMemoryLimit(limit) ==
    /\ up
    /\ malloc_limit' = limit
    /\ result' = "ok"
    /\ UNCHANGED <<up, footprint, malloc_size, malloc_count, malloc_gc_threshold>>

JS_SetGCThreshold(threshold) ==
    /\ up
    /\ malloc_gc_threshold' = threshold
    /\ result' = "ok"
    /\ UNCHANGED <<up, footprint, malloc_size, malloc_count, malloc_limit>>

\* A call that returns NULL leaves everything as it is.
ReturnsNull ==
    /\ result' = "null"
    /\ UNCHANGED <<up, footprint, malloc_size, malloc_count, malloc_limit, malloc_gc_threshold>>

OverLimit(sum) == sum % WordSize > malloc_limit

\* js_def_malloc: NULL over the limit, NULL if malloc fails, else a block.
js_def_malloc(b, size) ==
    /\ up /\ b \notin Live
    /\ \/ ReturnsNull
       \/ \E F \in SUBSET (Addresses \ Used) :
              /\ ~OverLimit(malloc_size + size)
              /\ Fits(F, size, Addresses \ Used)
              /\ footprint' = [footprint EXCEPT ![b] = F]
              /\ malloc_size' = (malloc_size + Charge(F)) % WordSize
              /\ malloc_count' = malloc_count + 1
              /\ result' = "ok"
              /\ UNCHANGED <<up, malloc_limit, malloc_gc_threshold>>

\* Mutant: the overhead is charged and never given back.
FreeKeepsOverhead(b) ==
    /\ up /\ b \in Live \ {RuntimeBlock}
    /\ malloc_count' = malloc_count - 1
    /\ malloc_size' = (malloc_size - usable_size(footprint[b])) % WordSize
    /\ footprint' = [footprint EXCEPT ![b] = {}]
    /\ result' = "ok"
    /\ UNCHANGED <<up, malloc_limit, malloc_gc_threshold>>

\* js_def_free, and js_def_realloc to size 0.
js_def_free(b) ==
    /\ up /\ b \in Live \ {RuntimeBlock}
    /\ malloc_count' = malloc_count - 1
    /\ malloc_size' = (malloc_size - Charge(footprint[b])) % WordSize
    /\ footprint' = [footprint EXCEPT ![b] = {}]
    /\ result' = "ok"
    /\ UNCHANGED <<up, malloc_limit, malloc_gc_threshold>>

\* Mutant: only the growth of the block is compared with the limit.
ReallocChecksGrowth(b, size) ==
    /\ up /\ b \in Live \ {RuntimeBlock}
    /\ \/ ReturnsNull
       \/ LET available == (Addresses \ Used) \cup footprint[b]
              old == footprint[b]
          IN \E F \in SUBSET available :
              /\ ~OverLimit(size - usable_size(old))
              /\ Fits(F, size, available)
              /\ footprint' = [footprint EXCEPT ![b] = F]
              /\ malloc_size' = (malloc_size + usable_size(F) - usable_size(old)) % WordSize
              /\ result' = "ok"
              /\ UNCHANGED <<up, malloc_count, malloc_limit, malloc_gc_threshold>>

\* js_def_realloc of a block to a size other than 0: it may stay or move.
js_def_realloc(b, size) ==
    /\ up /\ b \in Live \ {RuntimeBlock}
    /\ \/ ReturnsNull
       \/ LET available == (Addresses \ Used) \cup footprint[b]
              old == footprint[b]
          IN \E F \in SUBSET available :
              /\ ~OverLimit(malloc_size + size - usable_size(old))
              /\ Fits(F, size, available)
              /\ footprint' = [footprint EXCEPT ![b] = F]
              /\ malloc_size' = (malloc_size + usable_size(F) - usable_size(old)) % WordSize
              /\ result' = "ok"
              /\ UNCHANGED <<up, malloc_count, malloc_limit, malloc_gc_threshold>>

\* The collector, or anything else the runtime does on its own, gives back the
\* blocks of G.
FreeBlocks(G) ==
    /\ footprint' = [b \in Blocks |-> IF b \in G THEN {} ELSE footprint[b]]
    /\ malloc_size' = (malloc_size - Charge(UNION {footprint[b] : b \in G})) % WordSize
    /\ malloc_count' = malloc_count - Cardinality(G)

\* Mutant: the threshold is compared as a signed number.
SignedThreshold(size, G) ==
    /\ up /\ G \subseteq Live \ {RuntimeBlock}
    /\ IF (malloc_size + size) % WordSize >
              (IF 2 * malloc_gc_threshold >= WordSize THEN malloc_gc_threshold - WordSize
               ELSE malloc_gc_threshold)
       THEN /\ FreeBlocks(G)
            /\ malloc_gc_threshold' = (malloc_size' + malloc_size' \div 2) % WordSize
            /\ result' = "collected"
       ELSE /\ result' = "kept"
            /\ UNCHANGED <<footprint, malloc_size, malloc_count, malloc_gc_threshold>>
    /\ UNCHANGED <<up, malloc_limit>>

\* js_trigger_gc: collect, and set the next threshold half above what is left.
js_trigger_gc(size, G) ==
    /\ up /\ G \subseteq Live \ {RuntimeBlock}
    /\ IF (malloc_size + size) % WordSize > malloc_gc_threshold
       THEN /\ FreeBlocks(G)
            /\ malloc_gc_threshold' = (malloc_size' + malloc_size' \div 2) % WordSize
            /\ result' = "collected"
       ELSE /\ result' = "kept"
            /\ UNCHANGED <<footprint, malloc_size, malloc_count, malloc_gc_threshold>>
    /\ UNCHANGED <<up, malloc_limit>>

\* JS_FreeRuntime, once it has given back the other blocks.
JS_FreeRuntime ==
    /\ up /\ Live = {RuntimeBlock}
    /\ footprint' = [footprint EXCEPT ![RuntimeBlock] = {}]
    /\ up' = FALSE
    /\ malloc_size' = (malloc_size - Charge(footprint[RuntimeBlock])) % WordSize
    /\ malloc_count' = malloc_count - 1
    /\ result' = "ok"
    /\ UNCHANGED <<malloc_limit, malloc_gc_threshold>>

Next ==
    \/ \E F \in SUBSET Addresses, size \in Sizes : JS_NewRuntime(F, size)
    \/ \E limit \in Limits : JS_SetMemoryLimit(limit)
    \/ \E threshold \in Thresholds : JS_SetGCThreshold(threshold)
    \/ \E b \in Blocks, size \in Sizes : js_def_malloc(b, size)
    \/ \E b \in Blocks : js_def_free(b)
    \/ \E b \in Blocks, size \in Sizes : js_def_realloc(b, size)
    \/ \E size \in Sizes, G \in SUBSET Blocks : js_trigger_gc(size, G)
    \/ JS_FreeRuntime

Spec == Init /\ [][Next]_vars

-----------------------------------------------------------------------------
(* Properties.                                                              *)

\* Every variable holds a value of its C type.
TypeOK ==
    /\ up \in BOOLEAN
    /\ footprint \in [Blocks -> SUBSET Addresses]
    /\ malloc_size \in size_t
    /\ malloc_count \in Nat
    /\ malloc_limit \in size_t
    /\ malloc_gc_threshold \in size_t
    /\ result \in {"ok", "null", "collected", "kept"}

\* No address belongs to two blocks (the promise of the C library).
Disjoint == \A b, c \in Blocks : b # c => footprint[b] \cap footprint[c] = {}

\* malloc_size and malloc_count are exactly what the live blocks take up,
\* although the amounts come from malloc_usable_size before and after each
\* call, although a realloc may move the block, and although the sums wrap:
\* nothing drifts over the life of a runtime, and both are 0 at its end.
Accounting ==
    /\ malloc_size = Cardinality(Used)
    /\ malloc_count = Cardinality(Live)

\* No call makes malloc_size grow beyond the limit by more than the overhead
\* and the slack of one block, even for sizes with which the sum of the test
\* wraps around and passes it.
LimitEnforced ==
    [][up /\ malloc_size' > malloc_size =>
           malloc_size' <= malloc_limit + MALLOC_OVERHEAD + MaxSlack]_vars

\* "use -1 to disable automatic GC": with that threshold, which JS::Run sets,
\* js_trigger_gc never collects, whatever the size.
GCDisabled ==
    [][malloc_gc_threshold = WordSize - 1 => result' # "collected"]_vars
=============================================================================
