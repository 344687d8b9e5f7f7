--------------------------- MODULE JSMallocProofs ---------------------------
(***************************************************************************)
(* The accounting of JSMalloc is exact and its limit holds, for every      *)
(* memory, word size, overhead and slack.                                  *)
(*                                                                         *)
(* The counters are sums of cardinalities: a call adds or takes away the   *)
(* addresses of a block, which are disjoint from those of the others, so   *)
(* the cardinality of their union changes by what the code adds or         *)
(* subtracts.  No sum wraps because there are fewer addresses than half of *)
(* WordSize; the sizes with which the test of the limit wraps are those    *)
(* malloc cannot serve.                                                    *)
(***************************************************************************)
EXTENDS JSMalloc, FiniteSetTheorems, TLAPS

\* The inductive invariant.
Inv == TypeOK /\ Disjoint /\ Accounting /\ (~up => Live = {})

-----------------------------------------------------------------------------
(* Arithmetic of size_t and cardinalities.                                  *)

\* A number in the range of size_t is not changed by wrapping.
LEMMA NoWrap == ASSUME NEW x \in size_t PROVE x % WordSize = x
  BY MemoryAssumption DEF size_t

\* Sets of addresses and of blocks are finite and no larger than the whole.
LEMMA FiniteMemory ==
  ASSUME NEW F \in SUBSET Addresses
  PROVE  IsFiniteSet(F) /\ Cardinality(F) \in 0..Cardinality(Addresses)
  BY FS_Subset, FS_CardinalityType, MemoryAssumption

\* Sets of addresses and of blocks are finite and no larger than the whole.
LEMMA FiniteBlocks ==
  ASSUME NEW G \in SUBSET Blocks
  PROVE  IsFiniteSet(G) /\ Cardinality(G) \in Nat
  BY FS_Subset, FS_CardinalityType, MemoryAssumption

\* Memory has less than half as many addresses as a size_t has values.
LEMMA WordType ==
  /\ WordSize \in Nat /\ Cardinality(Addresses) \in Nat
  /\ 2 * Cardinality(Addresses) < WordSize
  BY FS_CardinalityType, MemoryAssumption

\* Every number of addresses is a size_t, and so are one and a half times it.
LEMMA MemoryIsCounted ==
  /\ WordSize \in Nat /\ Cardinality(Addresses) \in Nat
  /\ \A n \in 0..Cardinality(Addresses) : n \in size_t /\ n + n \div 2 \in size_t
  BY FS_CardinalityType, MemoryAssumption DEF size_t

\* The counters of a new runtime, zero, are in range.
LEMMA ZeroIsCounted == 0 \in size_t /\ 0 % WordSize = 0
<1>1. 0 \in size_t
  BY MemoryIsCounted DEF size_t
<1>. QED BY <1>1, NoWrap

\* Cardinality of a union and a difference of sets of addresses.
LEMMA CardinalityPlus ==
  ASSUME NEW S \in SUBSET Addresses, NEW F \in SUBSET Addresses, S \cap F = {}
  PROVE  Cardinality(S \cup F) = Cardinality(S) + Cardinality(F)
<1>1. IsFiniteSet(S) /\ IsFiniteSet(F) /\ Cardinality(S) \in Nat /\ Cardinality(F) \in Nat
  BY FiniteMemory, FS_CardinalityType
<1>2. Cardinality(S \cup F) = Cardinality(S) + Cardinality(F) - Cardinality(S \cap F)
  BY <1>1, FS_Union
<1>3. Cardinality(S \cap F) = 0
  BY FS_EmptySet
<1>. QED BY <1>1, <1>2, <1>3

\* What is left of a finite set without a part of it.
LEMMA CardinalityMinus ==
  ASSUME NEW S \in SUBSET Addresses, NEW F \in SUBSET S
  PROVE  Cardinality(S \ F) = Cardinality(S) - Cardinality(F)
<1>1. S \cap F = F /\ F \in SUBSET Addresses
  OBVIOUS
<1>2. IsFiniteSet(S)
  BY FiniteMemory
<1>3. Cardinality(S \ F) = Cardinality(S) - Cardinality(S \cap F)
  BY <1>2, FS_Difference
<1>. QED BY <1>1, <1>3

-----------------------------------------------------------------------------
(* What a change of one footprint does to Used and Live.                    *)

\* The block b gets the addresses F, which no other block has.
LEMMA GiveBlock ==
  ASSUME TypeOK, Disjoint, NEW b \in Blocks, NEW F \in SUBSET Addresses,
         F \cap (Used \ footprint[b]) = {},
         footprint' = [footprint EXCEPT ![b] = F]
  PROVE  /\ footprint' \in [Blocks -> SUBSET Addresses]
         /\ Disjoint'
         /\ Used' = (Used \ footprint[b]) \cup F
         /\ Live' = IF F = {} THEN Live \ {b} ELSE Live \cup {b}
<1>1. \A c \in Blocks : footprint'[c] = IF c = b THEN F ELSE footprint[c]
  BY DEF TypeOK
<1>2. footprint' \in [Blocks -> SUBSET Addresses]
  BY DEF TypeOK
<1>3. \A c \in Blocks : c # b => /\ footprint[c] \subseteq Used
                                 /\ footprint[c] \cap footprint[b] = {}
  BY DEF Disjoint, Used
<1>4. Disjoint'
  BY <1>1, <1>3 DEF Disjoint
<1>5. Used' = (Used \ footprint[b]) \cup F
  <2>1. ASSUME NEW x \in Used' PROVE x \in (Used \ footprint[b]) \cup F
    BY <2>1, <1>1, <1>3 DEF Used
  <2>2. ASSUME NEW x \in (Used \ footprint[b]) \cup F PROVE x \in Used'
    <3>1. CASE x \in F
      BY <3>1, <1>1 DEF Used
    <3>2. CASE x \in Used \ footprint[b]
      <4>1. PICK c \in Blocks : x \in footprint[c]
        BY <3>2 DEF Used
      <4>. QED BY <4>1, <3>2, <1>1 DEF Used
    <3>. QED BY <3>1, <3>2
  <2>. QED BY <2>1, <2>2
<1>6. Live' = IF F = {} THEN Live \ {b} ELSE Live \cup {b}
  BY <1>1 DEF Live
<1>. QED BY <1>2, <1>4, <1>5, <1>6

\* The blocks of G lose their addresses.
LEMMA TakeBlocks ==
  ASSUME TypeOK, Disjoint, NEW G \in SUBSET Blocks,
         footprint' = [b \in Blocks |-> IF b \in G THEN {} ELSE footprint[b]]
  PROVE  /\ footprint' \in [Blocks -> SUBSET Addresses]
         /\ Disjoint'
         /\ Used' = Used \ UNION {footprint[b] : b \in G}
         /\ UNION {footprint[b] : b \in G} \subseteq Used
         /\ Live' = Live \ G
<1>1. \A c \in Blocks : footprint'[c] = IF c \in G THEN {} ELSE footprint[c]
  OBVIOUS
<1>2. footprint' \in [Blocks -> SUBSET Addresses]
  BY DEF TypeOK
<1>3. Disjoint'
  BY <1>1 DEF Disjoint
<1>4. Used' = Used \ UNION {footprint[b] : b \in G}
  <2>1. ASSUME NEW x \in Used' PROVE x \in Used \ UNION {footprint[b] : b \in G}
    <3>1. PICK c \in Blocks : x \in footprint'[c]
      BY <2>1 DEF Used
    <3>2. c \notin G /\ x \in footprint[c]
      BY <3>1, <1>1
    <3>3. \A b \in G : x \notin footprint[b]
      BY <3>2 DEF Disjoint
    <3>. QED BY <3>2, <3>3 DEF Used
  <2>2. ASSUME NEW x \in Used \ UNION {footprint[b] : b \in G} PROVE x \in Used'
    <3>1. PICK c \in Blocks : x \in footprint[c]
      BY <2>2 DEF Used
    <3>2. c \notin G
      BY <3>1, <2>2
    <3>. QED BY <3>1, <3>2, <1>1 DEF Used
  <2>. QED BY <2>1, <2>2
<1>5. UNION {footprint[b] : b \in G} \subseteq Used
  BY DEF Used
<1>6. Live' = Live \ G
  BY <1>1 DEF Live
<1>. QED BY <1>2, <1>3, <1>4, <1>5, <1>6

\* What a block takes up is part of the addresses in use, and these of the memory.
LEMMA UsedType ==
  ASSUME TypeOK
  PROVE  /\ Used \in SUBSET Addresses
         /\ Live \in SUBSET Blocks
         /\ \A b \in Blocks : footprint[b] \in SUBSET Addresses /\ footprint[b] \subseteq Used
  BY DEF TypeOK, Used, Live

-----------------------------------------------------------------------------
(* The invariant.                                                           *)

\* The invariant says nothing of result but its type.
LEMMA KeptInv ==
  ASSUME Inv, UNCHANGED <<up, footprint, malloc_size, malloc_count>>,
         malloc_limit' \in size_t, malloc_gc_threshold' \in size_t,
         result' \in {"ok", "null", "collected", "kept"}
  PROVE  Inv'
  BY DEF Inv, TypeOK, Disjoint, Accounting, Used, Live

\* JS_NewRuntime2 starts with counters that agree with the blocks, of which there are none.
LEMMA InitInv == Init => Inv
<1>. SUFFICES ASSUME Init PROVE Inv
  OBVIOUS
<1>1. Used = {} /\ Live = {}
  BY DEF Init, Used, Live
<1>2. TypeOK
  BY ZenonT(40), ZeroIsCounted DEF Init, TypeOK
<1>3. Disjoint
  BY DEF Init, Disjoint
<1>4. Accounting
  BY <1>1, FS_EmptySet DEF Init, Accounting
<1>. QED BY <1>1, <1>2, <1>3, <1>4 DEF Inv

\* JS_NewRuntime charges the first block of an empty account.
LEMMA NewRuntimeInv ==
  ASSUME Inv, NEW F \in SUBSET Addresses, NEW size \in Sizes, JS_NewRuntime(F, size)
  PROVE  Inv'
<1>1. TypeOK /\ Disjoint /\ Live = {} /\ RuntimeBlock \in Blocks /\ WordSize \in Nat
  BY MemoryAssumption DEF Inv, JS_NewRuntime
<1>2. Used = {}
  BY <1>1 DEF Used, Live
<1>3. Cardinality(F) \in Nat /\ F # {}
  BY OverheadAssumption, ArgumentAssumption, FiniteMemory, FS_EmptySet, MemoryIsCounted
     DEF JS_NewRuntime, Fits, usable_size, size_t
<1>4. F \cap (Used \ footprint[RuntimeBlock]) = {}
  BY <1>2
<1>5. /\ footprint' \in [Blocks -> SUBSET Addresses]
      /\ Disjoint' /\ Used' = F /\ Live' = {RuntimeBlock}
  <2>1. footprint' = [footprint EXCEPT ![RuntimeBlock] = F]
    BY DEF JS_NewRuntime
  <2>2. /\ footprint' \in [Blocks -> SUBSET Addresses]
        /\ Disjoint'
        /\ Used' = (Used \ footprint[RuntimeBlock]) \cup F
        /\ Live' = IF F = {} THEN Live \ {RuntimeBlock} ELSE Live \cup {RuntimeBlock}
    BY ZenonT(40), <1>1, <1>4, <2>1, GiveBlock
  <2>. QED BY <1>1, <1>2, <1>3, <2>2
<1>6. Accounting'
  BY ZenonT(40), <1>5, FS_Singleton DEF Accounting, JS_NewRuntime, Charge
<1>7. TypeOK'
  BY <1>1, <1>5, ArgumentAssumption, FiniteMemory, MemoryIsCounted
     DEF TypeOK, JS_NewRuntime, Charge, size_t
<1>. QED BY <1>5, <1>6, <1>7 DEF Inv, JS_NewRuntime

\* js_def_malloc adds a block.
LEMMA MallocInv ==
  ASSUME Inv, NEW b \in Blocks, NEW size \in Sizes, js_def_malloc(b, size)
  PROVE  Inv'
<1>1. TypeOK /\ Disjoint /\ Accounting /\ up /\ b \notin Live
  BY DEF Inv, js_def_malloc
<1>2. CASE ReturnsNull
  BY <1>1, <1>2, KeptInv DEF ReturnsNull, TypeOK
<1>3. CASE ~ReturnsNull
  <2>1. PICK F \in SUBSET (Addresses \ Used) :
              /\ Fits(F, size, Addresses \ Used)
              /\ footprint' = [footprint EXCEPT ![b] = F]
              /\ malloc_size' = (malloc_size + Charge(F)) % WordSize
              /\ malloc_count' = malloc_count + 1
              /\ result' = "ok"
              /\ UNCHANGED <<up, malloc_limit, malloc_gc_threshold>>
    BY ZenonT(40), <1>3 DEF js_def_malloc
  <2>2. F \in SUBSET Addresses /\ footprint[b] = {} /\ F \cap Used = {}
    BY <1>1 DEF Live
  <2>3. Cardinality(F) \in Nat /\ F # {}
    BY <2>1, <2>2, OverheadAssumption, ArgumentAssumption, FiniteMemory, FS_EmptySet,
       MemoryIsCounted DEF Fits, usable_size, size_t
  <2>4. /\ footprint' \in [Blocks -> SUBSET Addresses]
        /\ Disjoint' /\ Used' = Used \cup F /\ Live' = Live \cup {b}
    <3>1. footprint' = [footprint EXCEPT ![b] = F] /\ F \cap (Used \ footprint[b]) = {}
      BY <2>1, <2>2
    <3>2. /\ footprint' \in [Blocks -> SUBSET Addresses]
          /\ Disjoint' /\ Used' = (Used \ footprint[b]) \cup F
          /\ Live' = IF F = {} THEN Live \ {b} ELSE Live \cup {b}
      BY ZenonT(40), <1>1, <2>2, <3>1, GiveBlock
    <3>. QED BY <2>2, <2>3, <3>2
  <2>5. Used \in SUBSET Addresses /\ Live \in SUBSET Blocks /\ Used \cup F \in SUBSET Addresses
    BY <1>1, <2>2, UsedType
  <2>6. Cardinality(Used \cup F) = Cardinality(Used) + Cardinality(F)
    BY <2>2, <2>5, CardinalityPlus
  <2>7. /\ malloc_size' = Cardinality(Used') /\ malloc_size' \in size_t
    BY <1>1, <2>1, <2>4, <2>5, <2>6, FiniteMemory, MemoryIsCounted, NoWrap
       DEF Accounting, Charge
  <2>8. malloc_count' = Cardinality(Live')
    BY <1>1, <2>1, <2>4, <2>5, FiniteBlocks, FS_AddElement DEF Accounting
  <2>9. TypeOK'
    BY <1>1, <2>1, <2>4, <2>7 DEF TypeOK
  <2>. QED BY <1>1, <2>1, <2>4, <2>7, <2>8, <2>9 DEF Inv, Accounting
<1>. QED BY <1>2, <1>3

\* js_def_free takes a block away.
LEMMA FreeInv ==
  ASSUME Inv, NEW b \in Blocks, js_def_free(b)
  PROVE  Inv'
<1>1. TypeOK /\ Disjoint /\ Accounting /\ up /\ b \in Live
  BY DEF Inv, js_def_free
<1>2. /\ footprint' \in [Blocks -> SUBSET Addresses]
      /\ Disjoint' /\ Used' = Used \ footprint[b] /\ Live' = Live \ {b}
  <2>1. footprint' = [footprint EXCEPT ![b] = {}] /\ {} \cap (Used \ footprint[b]) = {}
    BY DEF js_def_free
  <2>2. /\ footprint' \in [Blocks -> SUBSET Addresses]
        /\ Disjoint' /\ Used' = (Used \ footprint[b]) \cup {}
        /\ Live' = IF {} = {} THEN Live \ {b} ELSE Live \cup {b}
    BY ZenonT(40), <1>1, <2>1, GiveBlock, {} \in SUBSET Addresses
  <2>. QED BY <2>2
<1>3. /\ Used \in SUBSET Addresses /\ Live \in SUBSET Blocks
      /\ footprint[b] \in SUBSET Used /\ Used' \in SUBSET Addresses
  BY <1>1, <1>2, UsedType
<1>4. Cardinality(Used') = Cardinality(Used) - Cardinality(footprint[b])
  BY <1>2, <1>3, CardinalityMinus
<1>5. malloc_size' = Cardinality(Used') /\ malloc_size' \in size_t
  BY <1>1, <1>3, <1>4, FiniteMemory, MemoryIsCounted, NoWrap
     DEF Accounting, Charge, js_def_free
<1>6. malloc_count' = Cardinality(Live') /\ malloc_count' \in Nat
  BY <1>1, <1>2, <1>3, FiniteBlocks, FS_RemoveElement DEF Accounting, js_def_free
<1>7. TypeOK'
  BY <1>1, <1>2, <1>5, <1>6 DEF TypeOK, js_def_free
<1>. QED BY <1>1, <1>2, <1>5, <1>6, <1>7 DEF Inv, Accounting, js_def_free

\* js_def_realloc exchanges the addresses of a block.
LEMMA ReallocInv ==
  ASSUME Inv, NEW b \in Blocks, NEW size \in Sizes, js_def_realloc(b, size)
  PROVE  Inv'
<1>1. TypeOK /\ Disjoint /\ Accounting /\ up /\ b \in Live
  BY DEF Inv, js_def_realloc
<1>2. CASE ReturnsNull
  BY <1>1, <1>2, KeptInv DEF ReturnsNull, TypeOK
<1>3. CASE ~ReturnsNull
  <2>. DEFINE old == footprint[b]
              available == (Addresses \ Used) \cup old
  <2>1. PICK F \in SUBSET available :
              /\ Fits(F, size, available)
              /\ footprint' = [footprint EXCEPT ![b] = F]
              /\ malloc_size' = (malloc_size + usable_size(F) - usable_size(old)) % WordSize
              /\ result' = "ok"
              /\ UNCHANGED <<up, malloc_count, malloc_limit, malloc_gc_threshold>>
    BY ZenonT(40), <1>3 DEF js_def_realloc
  <2>2. /\ old \in SUBSET Addresses /\ old \in SUBSET Used /\ Used \in SUBSET Addresses
        /\ Live \in SUBSET Blocks
    BY <1>1, UsedType
  <2>3. F \in SUBSET Addresses /\ F \cap (Used \ old) = {}
    BY <2>1, <2>2
  <2>4. Cardinality(F) \in Nat /\ F # {}
    BY <2>1, <2>3, OverheadAssumption, ArgumentAssumption, FiniteMemory, FS_EmptySet,
       MemoryIsCounted DEF Fits, usable_size, size_t
  <2>5. /\ footprint' \in [Blocks -> SUBSET Addresses]
        /\ Disjoint' /\ Used' = (Used \ old) \cup F /\ Live' = Live \cup {b}
    BY ZenonT(40), <1>1, <2>1, <2>3, <2>4, GiveBlock
  <2>6. Live' = Live
    BY <1>1, <2>5
  <2>7. Cardinality(Used \ old) = Cardinality(Used) - Cardinality(old)
    BY <2>2, CardinalityMinus
  <2>8. Cardinality(Used') = Cardinality(Used) - Cardinality(old) + Cardinality(F)
    BY <2>2, <2>3, <2>5, <2>7, CardinalityPlus, Used \ old \in SUBSET Addresses
  <2>9. Used' \in SUBSET Addresses
    BY <2>2, <2>3, <2>5
  <2>10. malloc_size + usable_size(F) - usable_size(old) = Cardinality(Used')
    BY <1>1, <2>2, <2>4, <2>8, FiniteMemory, OverheadAssumption DEF Accounting, usable_size
  <2>11. malloc_size' = Cardinality(Used') /\ malloc_size' \in size_t
    BY <2>1, <2>9, <2>10, FiniteMemory, MemoryIsCounted, NoWrap
  <2>12. TypeOK'
    BY <1>1, <2>1, <2>5, <2>11 DEF TypeOK
  <2>. QED BY ZenonT(40), <1>1, <2>1, <2>5, <2>6, <2>11, <2>12 DEF Inv, Accounting
<1>. QED BY <1>2, <1>3

\* js_trigger_gc takes some blocks away, or does nothing.
LEMMA TriggerInv ==
  ASSUME Inv, NEW size \in Sizes, NEW G \in SUBSET Blocks, js_trigger_gc(size, G)
  PROVE  Inv'
<1>1. TypeOK /\ Disjoint /\ Accounting /\ up /\ G \subseteq Live
  BY DEF Inv, js_trigger_gc
<1>2. CASE result' = "kept"
  <2>1. UNCHANGED <<up, footprint, malloc_size, malloc_count, malloc_limit, malloc_gc_threshold>>
    BY <1>2 DEF js_trigger_gc
  <2>. QED BY <1>1, <1>2, <2>1, KeptInv DEF TypeOK
<1>3. CASE result' # "kept"
  <2>. DEFINE freed == UNION {footprint[b] : b \in G}
  <2>1. /\ FreeBlocks(G) /\ result' = "collected" /\ UNCHANGED <<up, malloc_limit>>
        /\ malloc_gc_threshold' = (malloc_size' + malloc_size' \div 2) % WordSize
    BY <1>3 DEF js_trigger_gc
  <2>2. /\ footprint' \in [Blocks -> SUBSET Addresses] /\ Disjoint'
        /\ Used' = Used \ freed /\ freed \in SUBSET Used /\ Live' = Live \ G
    BY ZenonT(40), <1>1, <2>1, TakeBlocks DEF FreeBlocks
  <2>3. Used \in SUBSET Addresses /\ Live \in SUBSET Blocks /\ Used' \in SUBSET Addresses
    BY <1>1, <2>2, UsedType
  <2>4. Cardinality(Used') = Cardinality(Used) - Cardinality(freed)
    BY <2>2, <2>3, CardinalityMinus
  <2>5. malloc_size' = Cardinality(Used') /\ malloc_size' \in 0..Cardinality(Addresses)
    BY <1>1, <2>1, <2>3, <2>4, FiniteMemory, MemoryIsCounted, NoWrap
       DEF Accounting, Charge, FreeBlocks
  <2>6. malloc_size' \in size_t /\ malloc_gc_threshold' \in size_t
    BY <2>1, <2>5, MemoryIsCounted, NoWrap
  <2>7. Live \cap G = G
    BY <1>1
  <2>8. Cardinality(Live') = Cardinality(Live) - Cardinality(G) /\ Cardinality(Live') \in Nat
    <3>1. IsFiniteSet(Live) /\ Live' \in SUBSET Blocks
      BY <2>2, <2>3, FiniteBlocks
    <3>2. Cardinality(Live \ G) = Cardinality(Live) - Cardinality(Live \cap G)
      BY <3>1, FS_Difference
    <3>3. Cardinality(Live') \in Nat
      BY <3>1, FiniteBlocks
    <3>. QED BY ZenonT(40), <2>2, <2>7, <3>2, <3>3
  <2>9. malloc_count' = Cardinality(Live') /\ malloc_count' \in Nat
    BY <1>1, <2>1, <2>8 DEF Accounting, FreeBlocks
  <2>10. TypeOK'
    BY <1>1, <2>1, <2>2, <2>6, <2>9 DEF TypeOK
  <2>. QED BY <1>1, <2>1, <2>2, <2>5, <2>9, <2>10 DEF Inv, Accounting
<1>. QED BY <1>2, <1>3

\* JS_FreeRuntime takes the last block away.
LEMMA FreeRuntimeInv ==
  ASSUME Inv, JS_FreeRuntime
  PROVE  Inv'
<1>1. TypeOK /\ Disjoint /\ Accounting /\ Live = {RuntimeBlock} /\ RuntimeBlock \in Blocks
  BY MemoryAssumption DEF Inv, JS_FreeRuntime
<1>2. /\ footprint' \in [Blocks -> SUBSET Addresses]
      /\ Disjoint' /\ Used' = Used \ footprint[RuntimeBlock] /\ Live' = {}
  <2>1. /\ footprint' = [footprint EXCEPT ![RuntimeBlock] = {}]
        /\ {} \cap (Used \ footprint[RuntimeBlock]) = {}
    BY DEF JS_FreeRuntime
  <2>2. /\ footprint' \in [Blocks -> SUBSET Addresses]
        /\ Disjoint' /\ Used' = (Used \ footprint[RuntimeBlock]) \cup {}
        /\ Live' = IF {} = {} THEN Live \ {RuntimeBlock} ELSE Live \cup {RuntimeBlock}
    BY ZenonT(40), <1>1, <2>1, GiveBlock, {} \in SUBSET Addresses
  <2>. QED BY <1>1, <2>2
<1>3. Used = footprint[RuntimeBlock] /\ Used \in SUBSET Addresses
  BY <1>1, UsedType DEF Used, Live
<1>4. Used' = {} /\ malloc_size - Charge(footprint[RuntimeBlock]) = 0
  BY <1>1, <1>2, <1>3, FiniteMemory DEF Accounting, Charge
<1>5. malloc_size' = 0
  BY <1>4, ZeroIsCounted DEF JS_FreeRuntime
<1>6. malloc_count' = 0
  <2>1. malloc_count = Cardinality({RuntimeBlock})
    BY <1>1 DEF Accounting
  <2>2. malloc_count = 1
    BY <2>1, FS_Singleton
  <2>3. malloc_count' = malloc_count - 1
    BY DEF JS_FreeRuntime
  <2>. QED BY <2>2, <2>3
<1>7. Accounting'
  BY <1>2, <1>4, <1>5, <1>6, FS_EmptySet DEF Accounting
<1>8. TypeOK'
  <2>1. up' \in BOOLEAN /\ result' = "ok" /\ UNCHANGED <<malloc_limit, malloc_gc_threshold>>
    BY ZenonT(40) DEF JS_FreeRuntime
  <2>. QED BY <1>1, <1>2, <1>5, <1>6, <2>1, ZeroIsCounted DEF TypeOK
<1>. QED BY <1>2, <1>7, <1>8 DEF Inv

\* Every call keeps the counters in agreement with the blocks.
LEMMA NextInv == Inv /\ [Next]_vars => Inv'
<1>. SUFFICES ASSUME Inv, [Next]_vars PROVE Inv'
  OBVIOUS
<1>1. CASE \E F \in SUBSET Addresses, size \in Sizes : JS_NewRuntime(F, size)
  BY <1>1, NewRuntimeInv
<1>2. CASE \E limit \in Limits : JS_SetMemoryLimit(limit)
  BY <1>2, ArgumentAssumption, KeptInv DEF JS_SetMemoryLimit, Inv, TypeOK
<1>3. CASE \E threshold \in Thresholds : JS_SetGCThreshold(threshold)
  BY <1>3, ArgumentAssumption, KeptInv DEF JS_SetGCThreshold, Inv, TypeOK
<1>4. CASE \E b \in Blocks, size \in Sizes : js_def_malloc(b, size)
  BY <1>4, MallocInv
<1>5. CASE \E b \in Blocks : js_def_free(b)
  BY <1>5, FreeInv
<1>6. CASE \E b \in Blocks, size \in Sizes : js_def_realloc(b, size)
  BY <1>6, ReallocInv
<1>7. CASE \E size \in Sizes, G \in SUBSET Blocks : js_trigger_gc(size, G)
  BY <1>7, TriggerInv
<1>8. CASE JS_FreeRuntime
  BY <1>8, FreeRuntimeInv
<1>9. CASE UNCHANGED vars
  BY <1>9, KeptInv DEF vars, Inv, TypeOK
<1>. QED BY <1>1, <1>2, <1>3, <1>4, <1>5, <1>6, <1>7, <1>8, <1>9 DEF Next

\* The invariant holds throughout.
LEMMA AlwaysInv == Spec => []Inv
  BY InitInv, NextInv, PTL DEF Spec

\* malloc_size and malloc_count are exactly what the live blocks take up: the
\* bookkeeping of js_def_malloc, js_def_free and js_def_realloc never drifts.
THEOREM AccountingExact == Spec => []Accounting
<1>1. Inv => Accounting
  BY DEF Inv
<1>. QED BY <1>1, AlwaysInv, PTL

\* The counters stay within their C types.
THEOREM TypeCorrect == Spec => []TypeOK
<1>1. Inv => TypeOK
  BY DEF Inv
<1>. QED BY <1>1, AlwaysInv, PTL

-----------------------------------------------------------------------------
(* The limit and the threshold.                                             *)

\* The test of js_def_malloc and js_def_realloc bounds what a block may add.
LEMMA GrowthBounded ==
  ASSUME Inv, NEW F \in SUBSET Addresses, NEW size \in Sizes, NEW taken \in Int,
         -MALLOC_OVERHEAD <= taken, taken <= malloc_size,
         usable_size(F) \in size..(size + MaxSlack),
         ~OverLimit(malloc_size + size - taken)
  PROVE  malloc_size + usable_size(F) - taken <= malloc_limit + MaxSlack
<1>1. /\ malloc_size \in 0..Cardinality(Addresses) /\ malloc_limit \in Nat
      /\ Cardinality(F) \in 0..Cardinality(Addresses)
  BY FiniteMemory, UsedType DEF Inv, TypeOK, Accounting, size_t
<1>2. size \in Nat /\ size + MALLOC_OVERHEAD <= Cardinality(F)
  BY <1>1, OverheadAssumption, ArgumentAssumption, WordType DEF usable_size, size_t
<1>3. malloc_size + size - taken \in size_t
  BY <1>1, <1>2, OverheadAssumption, WordType DEF size_t
<1>4. malloc_size + size - taken <= malloc_limit
  BY <1>1, <1>2, <1>3, NoWrap DEF OverLimit, size_t
<1>. QED BY <1>1, <1>2, <1>4, OverheadAssumption DEF usable_size

\* The bound that LimitEnforced states for one step.
GrowthWithinLimit ==
    up /\ malloc_size' > malloc_size =>
        malloc_size' <= malloc_limit + MALLOC_OVERHEAD + MaxSlack

\* js_def_malloc grows malloc_size past the limit by the overhead and slack at most.
LEMMA MallocWithinLimit ==
  ASSUME Inv, NEW b \in Blocks, NEW size \in Sizes, js_def_malloc(b, size)
  PROVE  GrowthWithinLimit
<1>1. malloc_size \in size_t /\ malloc_limit \in size_t /\ Inv'
  BY MallocInv DEF Inv, TypeOK
<1>2. CASE ReturnsNull
  BY <1>1, <1>2, WordType DEF ReturnsNull, GrowthWithinLimit, size_t
<1>3. CASE ~ReturnsNull
  <2>1. PICK F \in SUBSET (Addresses \ Used) :
              /\ ~OverLimit(malloc_size + size)
              /\ Fits(F, size, Addresses \ Used)
              /\ malloc_size' = (malloc_size + Charge(F)) % WordSize
    BY ZenonT(40), <1>3 DEF js_def_malloc
  <2>2. F \in SUBSET Addresses /\ usable_size(F) \in size..(size + MaxSlack)
    BY <2>1 DEF Fits
  <2>3. size \in Int /\ malloc_size + size = malloc_size + size - 0
    BY <1>1, ArgumentAssumption, WordType DEF size_t
  <2>4. /\ 0 \in Int /\ -MALLOC_OVERHEAD <= 0 /\ 0 <= malloc_size
        /\ ~OverLimit(malloc_size + size - 0)
    BY <1>1, <2>1, <2>3, OverheadAssumption, WordType DEF size_t
  <2>5. malloc_size + usable_size(F) - 0 <= malloc_limit + MaxSlack
    BY <2>2, <2>4, GrowthBounded
  <2>6. malloc_size \in 0..Cardinality(Addresses) /\ Cardinality(F) \in 0..Cardinality(Addresses)
    BY <2>2, FiniteMemory, UsedType DEF Inv, Accounting
  <2>7. malloc_size + Cardinality(F) \in size_t
    BY <2>6, WordType DEF size_t
  <2>8. malloc_size' = malloc_size + Cardinality(F)
    BY <2>1, <2>7, NoWrap DEF Charge
  <2>. QED BY <1>1, <2>5, <2>6, <2>8, OverheadAssumption, WordType
           DEF GrowthWithinLimit, usable_size, size_t
<1>. QED BY <1>2, <1>3

\* js_def_realloc grows malloc_size past the limit by the overhead and slack at most.
LEMMA ReallocWithinLimit ==
  ASSUME Inv, NEW b \in Blocks, NEW size \in Sizes, js_def_realloc(b, size)
  PROVE  GrowthWithinLimit
<1>1. malloc_size \in size_t /\ malloc_limit \in size_t
  BY DEF Inv, TypeOK
<1>2. CASE ReturnsNull
  BY <1>1, <1>2, WordType DEF ReturnsNull, GrowthWithinLimit, size_t
<1>3. CASE ~ReturnsNull
  <2>. DEFINE old == footprint[b]
              available == (Addresses \ Used) \cup old
  <2>1. PICK F \in SUBSET available :
              /\ ~OverLimit(malloc_size + size - usable_size(old))
              /\ Fits(F, size, available)
              /\ malloc_size' = (malloc_size + usable_size(F) - usable_size(old)) % WordSize
    BY ZenonT(40), <1>3 DEF js_def_realloc
  <2>2. old \in SUBSET Addresses /\ old \in SUBSET Used /\ Used \in SUBSET Addresses
    BY UsedType DEF Inv
  <2>3. F \in SUBSET Addresses /\ usable_size(F) \in size..(size + MaxSlack)
    BY <2>1, <2>2 DEF Fits
  <2>4. /\ malloc_size \in 0..Cardinality(Addresses) /\ malloc_size = Cardinality(Used)
        /\ Cardinality(F) \in 0..Cardinality(Addresses) /\ Cardinality(old) \in Nat
        /\ Cardinality(Used \ old) \in 0..Cardinality(Addresses)
        /\ Cardinality(Used \ old) = Cardinality(Used) - Cardinality(old)
    <3>1. malloc_size = Cardinality(Used) /\ Used \ old \in SUBSET Addresses
      BY <2>2 DEF Inv, Accounting
    <3>2. Cardinality(Used \ old) = Cardinality(Used) - Cardinality(old)
      BY <2>2, CardinalityMinus
    <3>3. /\ Cardinality(Used) \in 0..Cardinality(Addresses)
          /\ Cardinality(F) \in 0..Cardinality(Addresses)
          /\ Cardinality(old) \in 0..Cardinality(Addresses)
          /\ Cardinality(Used \ old) \in 0..Cardinality(Addresses)
      BY <2>2, <2>3, <3>1, FiniteMemory
    <3>4. Cardinality(old) \in Nat
      BY <3>3, WordType
    <3>. QED BY <3>1, <3>2, <3>3, <3>4
  <2>5. usable_size(old) \in Int /\ -MALLOC_OVERHEAD <= usable_size(old)
                                 /\ usable_size(old) <= malloc_size
    BY <2>4, WordType, OverheadAssumption, SMTT(60) DEF usable_size
  <2>6. malloc_size + usable_size(F) - usable_size(old) <= malloc_limit + MaxSlack
    BY <2>1, <2>3, <2>5, GrowthBounded
  <2>7. malloc_size + usable_size(F) - usable_size(old) \in size_t
    <3>1. malloc_size + usable_size(F) - usable_size(old) = Cardinality(Used \ old) + Cardinality(F)
      BY <2>4, WordType, OverheadAssumption, SMTT(60) DEF usable_size
    <3>2. Cardinality(Used \ old) + Cardinality(F) \in 0..(WordSize - 1)
      BY <2>4, WordType
    <3>. QED BY <3>1, <3>2 DEF size_t
  <2>8. malloc_size' = malloc_size + usable_size(F) - usable_size(old)
    BY <2>1, <2>7, NoWrap
  <2>9. malloc_size' <= malloc_limit + MaxSlack /\ malloc_size' \in Int
    BY <2>6, <2>7, <2>8, WordType DEF size_t
  <2>. QED BY <1>1, <2>9, OverheadAssumption, WordType DEF GrowthWithinLimit, size_t
<1>. QED BY <1>2, <1>3

\* Freeing, and collecting, never make malloc_size grow.
LEMMA NothingElseGrows ==
  ASSUME Inv, Inv', Used' \in SUBSET Used
  PROVE  GrowthWithinLimit
<1>1. malloc_size = Cardinality(Used) /\ malloc_size' = Cardinality(Used')
  BY DEF Inv, Accounting
<1>2. Cardinality(Used) \in Nat /\ Cardinality(Used') \in Nat
      /\ Cardinality(Used') <= Cardinality(Used)
  BY FiniteMemory, FS_Subset, FS_CardinalityType, UsedType, WordType DEF Inv
<1>. QED BY <1>1, <1>2 DEF GrowthWithinLimit

\* No call makes malloc_size grow beyond the limit by more than the overhead
\* and slack of one block (js_def_malloc, js_def_realloc), for every memory,
\* size and limit: the sums that wrap past the test are never served.
THEOREM LimitHolds == Spec => LimitEnforced
<1>1. Inv /\ [Next]_vars => [GrowthWithinLimit]_vars
  <2>. SUFFICES ASSUME Inv, Next PROVE GrowthWithinLimit
    OBVIOUS
  <2>1. TypeOK /\ Disjoint /\ Inv' /\ [Next]_vars
    BY NextInv DEF Inv
  <2>2. CASE \E F \in SUBSET Addresses, size \in Sizes : JS_NewRuntime(F, size)
    BY <2>2 DEF JS_NewRuntime, GrowthWithinLimit
  <2>3. CASE \/ \E limit \in Limits : JS_SetMemoryLimit(limit)
             \/ \E threshold \in Thresholds : JS_SetGCThreshold(threshold)
    BY <2>1, <2>3, NothingElseGrows DEF JS_SetMemoryLimit, JS_SetGCThreshold, Used
  <2>4. CASE \E b \in Blocks, size \in Sizes : js_def_malloc(b, size)
    BY <2>4, MallocWithinLimit
  <2>5. CASE \E b \in Blocks, size \in Sizes : js_def_realloc(b, size)
    BY <2>5, ReallocWithinLimit
  <2>6. CASE \E b \in Blocks : js_def_free(b)
    <3>1. PICK b \in Blocks : footprint' = [footprint EXCEPT ![b] = {}]
      BY ZenonT(40), <2>6 DEF js_def_free
    <3>2. Used' \in SUBSET Used
      BY <2>1, <3>1 DEF Used, TypeOK
    <3>. QED BY <2>1, <3>2, NothingElseGrows
  <2>7. CASE \E size \in Sizes, G \in SUBSET Blocks : js_trigger_gc(size, G)
    <3>1. PICK G \in SUBSET Blocks :
                \/ footprint' = [b \in Blocks |-> IF b \in G THEN {} ELSE footprint[b]]
                \/ footprint' = footprint
      BY <2>7 DEF js_trigger_gc, FreeBlocks
    <3>2. \A b \in Blocks : footprint'[b] \subseteq footprint[b]
      BY <2>1, <3>1 DEF TypeOK
    <3>3. Used' \in SUBSET Used
      BY <3>2 DEF Used
    <3>. QED BY <2>1, <3>3, NothingElseGrows
  <2>8. CASE JS_FreeRuntime
    <3>1. footprint' = [footprint EXCEPT ![RuntimeBlock] = {}]
      BY <2>8 DEF JS_FreeRuntime
    <3>2. Used' \in SUBSET Used
      BY <2>1, <3>1, MemoryAssumption DEF Used, TypeOK
    <3>. QED BY <2>1, <3>2, NothingElseGrows
  <2>. QED BY <2>2, <2>3, <2>4, <2>5, <2>6, <2>7, <2>8 DEF Next
<1>2. [GrowthWithinLimit]_vars => [up /\ malloc_size' > malloc_size =>
           malloc_size' <= malloc_limit + MALLOC_OVERHEAD + MaxSlack]_vars
  BY DEF GrowthWithinLimit
<1>. QED BY <1>1, <1>2, AlwaysInv, PTL DEF Spec, LimitEnforced

\* With the threshold -1 js_trigger_gc never collects: no sum of size_t
\* exceeds the largest size_t.
THEOREM ThresholdDisables == Spec => GCDisabled
<1>1. Inv /\ [Next]_vars => [malloc_gc_threshold = WordSize - 1 => result' # "collected"]_vars
  <2>. SUFFICES ASSUME Inv, Next, malloc_gc_threshold = WordSize - 1
                PROVE  result' # "collected"
    OBVIOUS
  <2>1. malloc_size \in Nat /\ WordSize \in Nat \ {0}
    BY ZeroIsCounted, WordType DEF Inv, TypeOK, size_t
  <2>2. CASE \E size \in Sizes, G \in SUBSET Blocks : js_trigger_gc(size, G)
    <3>1. PICK size \in Sizes, G \in SUBSET Blocks : js_trigger_gc(size, G)
      BY <2>2
    <3>2. size \in Nat
      BY ArgumentAssumption, <2>1 DEF size_t
    <3>3. (malloc_size + size) % WordSize <= WordSize - 1
      BY <2>1, <3>2
    <3>4. ~((malloc_size + size) % WordSize > malloc_gc_threshold)
      BY <2>1, <3>2, <3>3
    <3>. QED BY <3>1, <3>4 DEF js_trigger_gc
  <2>. QED BY ZenonT(40), <2>2 DEF Next, JS_NewRuntime, JS_SetMemoryLimit, JS_SetGCThreshold,
           js_def_malloc, js_def_free, js_def_realloc, ReturnsNull, JS_FreeRuntime
<1>. QED BY <1>1, AlwaysInv, PTL DEF Spec, GCDisabled
=============================================================================
