--------------------------- MODULE PromiseProofs ----------------------------
(***************************************************************************)
(* What holds of every behaviour of module Promise: a promise has one      *)
(* resolver, its reactions start in order, and a promise resolved with     *)
(* another adopts its state.                                               *)
(***************************************************************************)
EXTENDS PromiseThen, FiniteSetTheorems

-----------------------------------------------------------------------------
(* The theorems.                                                            *)

\* The invariant holds initially.
LEMMA InitIInv ==
  Init => IInv
<1> SUFFICES ASSUME Init PROVE IInv
  BY Zenon
<1> USE DEF Init
<1>1. \A p \in Promises : /\ Len(promise_reactions[p]) = 0 /\ Len(order[p]) = 0 /\ Len(started[p]) = 0
                          /\ promise_state[p] = "none" /\ adopts[p] = 0 /\ promise_result[p] = Undefined
                          /\ started[p] = <<>>
  BY Zenon
<1>2. Len(job_list) = 0 /\ Len(stack) = 1 /\ stack[1] = Script /\ Script \in Frames /\ Script.kind = "script"
  BY Zenon DEF Script, Frame, Frames, JSKinds, Values
<1>3. \A f \in Pairs : promise[f] = 0 /\ ~already_resolved[f]
  BY Zenon
<1>4. Undefined \in Values /\ Undefined \notin Promises /\ 0 \notin Promises
  BY ValueAssumption, BoundAssumption, SMTT(30) DEF Values, Promises
<1>5. TypeAt(job_list, stack, started)
  BY <1>2, <1>4 DEF TypeAt
<1>6. RefsOK(job_list, stack)
  <2>1. PromiseOK
    BY <1>1, <1>3, <1>4, SMTT(30) DEF PromiseOK, Exists
  <2> QED BY <1>2, <2>1 DEF RefsOK, FrameOK
<1>7. ResolverOK(job_list, stack)
  <2>1. \A p \in Promises : ~Live(p) /\ NoPair(p)
    BY <1>1, <1>3, <1>4, ZenonT(40) DEF Live, NoPair
  <2>2. \A p \in Promises : NoneIn(job_list, ThenablesFor(p)) /\ NoneIn(stack, GettersFor(p))
    BY <1>2 DEF NoneIn, GettersFor
  <2> QED BY <2>1, <2>2, Zenon DEF ResolverOK, ResolverAt, NoResolver
<1>8. OrderOK(job_list, started)
  <2>1. AddedOK
    BY <1>1 DEF AddedOK, Increasing
  <2>2. SortedOK(job_list, started)
    BY <1>1, <1>2 DEF SortedOK, Increasing
  <2>3. AccountedOK(job_list, started)
    BY <1>1, <1>2 DEF AccountedOK, Accounted, Added
  <2> QED BY <2>1, <2>2, <2>3, Zenon DEF OrderOK
<1>9. AdoptOK(job_list, stack)
  BY <1>1, Zenon DEF AdoptOK, Adopted
<1> QED BY <1>5, <1>6, <1>7, <1>8, <1>9, SMTT(30) DEF IInv, At

\* Every step keeps it.
LEMMA NextIInv ==
  IInv /\ [Next]_vars => IInv'
<1> SUFFICES ASSUME IInv, [Next]_vars PROVE IInv'
  BY Zenon
<1>1. ASSUME NEW p \in FreshPromise, NEW f \in FreshPair, js_promise_constructor(p, f) PROVE IInv'
  BY <1>1, ConstructorStep, Zenon
<1>2. ASSUME NEW f \in given, NEW i \in 0..1, NEW v \in Held, CallGiven(f, i, v) PROVE IInv'
  BY <1>2, CallGivenStep, Zenon
<1>3. ASSUME NEW p2 \in FreshPromise, NEW f2 \in FreshPair, NEW p \in Created,
             NEW h0 \in HeldHandlers(0), NEW h1 \in HeldHandlers(1), js_promise_then(p, h0, h1, p2, f2)
      PROVE  IInv'
  BY <1>3, ThenStep, Zenon
<1>4. ASSUME NEW p \in FreshPromise, NEW f \in FreshPair, NEW i \in 0..1, NEW v \in Held,
             js_promise_resolve(i, v, p, f)
      PROVE  IInv'
  BY <1>4, ResolveStep, Zenon
<1>5. CASE Returns
  BY <1>5, ReturnsStep, Zenon
<1>6. ASSUME NEW e \in Held, Throws(e) PROVE IInv'
  BY <1>6, ThrowsStep, Zenon
<1>7. ASSUME NEW i \in 0..1, NEW v \in Held, HandlerEnds(i, v) PROVE IInv'
  BY <1>7, HandlerEndsStep
<1>8. CASE FunctionEnds
  BY <1>8, FunctionEndsStep, SMTT(30)
<1>9. CASE GetterEnds
  BY <1>9, GetterEndsStep, SMTT(30)
<1>10. CASE promise_reaction_job
  BY <1>10, ReactionJobStep
<1>11. ASSUME NEW f \in FreshPair, js_promise_resolve_thenable_job(f) PROVE IInv'
  BY <1>11, ThenableStep, SMTT(30)
<1>12. CASE ThenableJobFails
  BY <1>12, FailsStep, Zenon
<1>13. CASE UNCHANGED vars
  <2>1. /\ job_list' = job_list /\ stack' = stack /\ started' = started
        /\ UNCHANGED <<promise_state, promise_result, promise_reactions, promise, already_resolved, given,
                       order, lost, stranded, adopts>>
    BY <1>13, Zenon DEF vars, promiseVars, pairVars
  <2>2. At(job_list, stack, started)
    BY Zenon DEF IInv
  <2> QED BY <2>1, <2>2, Unchanged, ZenonT(40)
<1>14. CASE JSCode
  BY <1>1, <1>2, <1>3, <1>4, <1>14, SMTT(30) DEF JSCode
<1>15. CASE JSEnds
  BY <1>5, <1>6, <1>7, <1>8, <1>9, <1>15, SMTT(30) DEF JSEnds
<1>16. CASE JS_ExecutePendingJob
  BY <1>10, <1>11, <1>16, <1>12, ZenonT(40) DEF JS_ExecutePendingJob
<1> QED BY <1>13, <1>14, <1>15, <1>16, Zenon DEF Next

\* The invariant holds in every state that promises can reach.
THEOREM InvariantHolds ==
  Spec => []IInv
BY InitIInv, NextIInv, PTL DEF Spec

\* Every variable of the promises and their jobs holds a value of its type, in
\* every state: TypeOK.
THEOREM TypeCorrect ==
  Spec => []TypeOK
<1>1. IInv => TypeOK
  BY ZenonT(40) DEF IInv, At, TypeAt, TypeOK
<1> QED BY <1>1, InvariantHolds, PTL

\* OneResolver: a settled promise has nothing left that could settle it, and a
\* pending one exactly one thing, unless its thenable job could not be allocated.
THEOREM ResolvedOnce ==
  Spec => []OneResolver
<1>1. ASSUME IInv, NEW p \in Created
      PROVE  Cardinality(Resolvers(p)) = IF Settled(p) \/ p \in stranded THEN 0 ELSE 1
  <2> DEFINE P == {f \in Pairs : promise[f] = p /\ ~already_resolved[f]}
             J == {k \in DOMAIN job_list : job_list[k].kind = "thenable" /\ job_list[k].promise = p}
             F == {k \in DOMAIN stack : stack[k].kind = "getter" /\ promise[stack[k].f] = p}
  <2> HIDE DEF P, J, F
  <2>1. p \in Promises /\ promise_state[p] \in {"pending", "fulfilled", "rejected"}
    BY <1>1, Zenon DEF Created, IInv, At, TypeAt
  <2>2. Resolvers(p) = {<<"pair", f>> : f \in P} \cup {<<"job", k>> : k \in J} \cup {<<"frame", k>> : k \in F}
    BY Zenon DEF Resolvers, P, J, F
  <2>3. (Settled(p) \/ p \in stranded) <=> ~Live(p)
    BY <2>1, Zenon DEF Settled, Live
  <2>4. ResolverAt(p, job_list, stack)
    BY <1>1, <2>1, ZenonT(40) DEF IInv, At, ResolverOK
  <2>5. /\ job_list \in Seq(Jobs) /\ DOMAIN job_list = 1..Len(job_list)
        /\ stack \in Seq(Frames) /\ DOMAIN stack = 1..Len(stack)
    BY <1>1, SMTT(30) DEF IInv, At, TypeAt
  <2>6. \A k \in 1..Len(job_list) : k \in J <=> job_list[k] \in ThenablesFor(p)
    BY <2>5, SMTT(30) DEF ThenablesFor, J
  <2>7. \A k \in 1..Len(stack) : k \in F <=> stack[k] \in GettersFor(p)
    BY <2>5 DEF GettersFor, F
  <2>8. /\ NoPair(p) => P = {}
        /\ OnePair(p) => \E f : P = {f}
    BY Zenon DEF NoPair, OnePair, P
  <2>9. /\ NoneIn(job_list, ThenablesFor(p)) => J = {}
        /\ OneIn(job_list, ThenablesFor(p)) => \E k : J = {k}
    <3>1. J \subseteq 1..Len(job_list)
      BY <2>5, Zenon DEF J
    <3>2. NoneIn(job_list, ThenablesFor(p)) => J = {}
      BY <2>6, <3>1, Zenon DEF NoneIn
    <3>3. ASSUME OneIn(job_list, ThenablesFor(p)) PROVE \E k : J = {k}
      <4>1. PICK k \in 1..Len(job_list) : /\ job_list[k] \in ThenablesFor(p)
                                          /\ \A j \in 1..Len(job_list) : job_list[j] \in ThenablesFor(p) => j = k
        BY <3>3, Zenon DEF OneIn
      <4>2. J = {k}
        BY <2>6, <3>1, <4>1, ZenonT(40)
      <4> QED BY <4>2, Zenon
    <3> QED BY <3>2, <3>3, Zenon
  <2>10. /\ NoneIn(stack, GettersFor(p)) => F = {}
         /\ OneIn(stack, GettersFor(p)) => \E k : F = {k}
    <3>1. F \subseteq 1..Len(stack)
      BY <2>5, Zenon DEF F
    <3>2. NoneIn(stack, GettersFor(p)) => F = {}
      BY <2>7, <3>1, ZenonT(40) DEF NoneIn
    <3>3. ASSUME OneIn(stack, GettersFor(p)) PROVE \E k : F = {k}
      <4>1. PICK k \in 1..Len(stack) : /\ stack[k] \in GettersFor(p)
                                       /\ \A j \in 1..Len(stack) : stack[j] \in GettersFor(p) => j = k
        BY <3>3, Zenon DEF OneIn
      <4>2. F = {k}
        BY <2>7, <3>1, <4>1, ZenonT(40)
      <4> QED BY <4>2, SMTT(30)
    <3> QED BY <3>2, <3>3, ZenonT(40)
  <2>11. CASE ~Live(p)
    <3>1. P = {} /\ J = {} /\ F = {}
      BY <2>4, <2>8, <2>9, <2>10, <2>11, ZenonT(40) DEF ResolverAt, NoResolver
    <3>2. Resolvers(p) = {}
      BY <2>2, <3>1, ZenonT(40)
    <3> QED BY <2>3, <2>11, <3>2, FS_EmptySet, ZenonT(40)
  <2>12. CASE Live(p)
    <3>1. \E x : Resolvers(p) = {x}
      <4>1. ASSUME NEW f, P = {f} /\ J = {} /\ F = {} PROVE \E x : Resolvers(p) = {x}
        <5>1. Resolvers(p) = {<<"pair", f>>}
          BY <2>2, <4>1, ZenonT(40)
        <5> QED BY <5>1, ZenonT(40)
      <4>2. ASSUME NEW k, P = {} /\ J = {k} /\ F = {} PROVE \E x : Resolvers(p) = {x}
        <5>1. Resolvers(p) = {<<"job", k>>}
          BY <2>2, <4>2, ZenonT(40)
        <5> QED BY <5>1, ZenonT(40)
      <4>3. ASSUME NEW k, P = {} /\ J = {} /\ F = {k} PROVE \E x : Resolvers(p) = {x}
        <5>1. Resolvers(p) = {<<"frame", k>>}
          BY <2>2, <4>3, ZenonT(40)
        <5> QED BY <5>1, ZenonT(40)
      <4> QED BY <2>4, <2>8, <2>9, <2>10, <2>12, <4>1, <4>2, <4>3, ZenonT(40) DEF ResolverAt, ExactlyOne
    <3>2. Cardinality(Resolvers(p)) = 1
      BY <3>1, FS_Singleton, Zenon
    <3> QED BY <2>3, <2>12, <3>2, ZenonT(40)
  <2> QED BY <2>11, <2>12, ZenonT(40)
<1>2. IInv => OneResolver
  BY <1>1, Zenon DEF OneResolver
<1> QED BY <1>2, InvariantHolds, PTL

\* Of two reactions of a promise, the one with the lower number was added first.
LEMMA BeforeIf ==
  ASSUME IInv, NEW p \in Promises, NEW a \in Pairs, NEW b \in Pairs, Added(p, a), Added(p, b), a < b
  PROVE  Before(p, a, b)
<1>1. order[p] \in Seq(Pairs) /\ DOMAIN order[p] = 1..Len(order[p]) /\ Increasing(order[p])
  BY DEF IInv, At, TypeAt, OrderOK, AddedOK
<1>2. PICK i \in 1..Len(order[p]) : order[p][i] = a
  BY Zenon DEF Added
<1>3. PICK j \in 1..Len(order[p]) : order[p][j] = b
  BY Zenon DEF Added
<1>4. \A k \in 1..Len(order[p]) : order[p][k] \in Pairs /\ order[p][k] \in Int
  <2>1. \A k \in 1..Len(order[p]) : order[p][k] \in Pairs
    BY <1>1, SMTT(30)
  <2>2. \A k \in Pairs : k \in Int
    BY DEF Pairs
  <2> QED BY <2>1, <2>2, ZenonT(40)
<1>5. i < j
  BY <1>1, <1>2, <1>3, <1>4, SMTT(30) DEF Increasing
<1>6. \A k \in 1..Len(order[p]) : (order[p][k] = a => k = i) /\ (order[p][k] = b => k = j)
  BY <1>1, <1>2, <1>3, <1>4, SMTT(30) DEF Increasing
<1> QED BY <1>1, <1>2, <1>3, <1>5, <1>6, ZenonT(40) DEF Before

\* ReactionsInOrder: the reactions of a promise start in the order in which then
\* was called, each of them once, and only those whose job could not be allocated
\* are left out.
THEOREM ReactionsKeepOrder ==
  Spec => []ReactionsInOrder
<1>1. ASSUME IInv, NEW p \in Promises
      PROVE  /\ Started(p) \cup Queued(p) \cup Listed(p) = {order[p][k] : k \in DOMAIN order[p]} \ lost
             /\ \A i, j \in DOMAIN started[p] : i < j => Before(p, started[p][i], started[p][j])
             /\ \A i, j \in DOMAIN job_list :
                    i < j /\ JobFrom(p, i) /\ JobFrom(p, j) => Before(p, job_list[i].id, job_list[j].id)
             /\ \A i, j \in DOMAIN promise_reactions[p] :
                    i < j => Before(p, promise_reactions[p][i].id, promise_reactions[p][j].id)
             /\ \A a \in Started(p), b \in Queued(p) : Before(p, a, b)
             /\ \A a \in Started(p) \cup Queued(p), b \in Listed(p) : Before(p, a, b)
  <2>1. /\ TypeAt(job_list, stack, started) /\ PromiseOK /\ AddedOK
        /\ SortedOK(job_list, started) /\ AccountedOK(job_list, started)
        /\ \A k \in 1..Len(job_list) : JobOK(job_list[k])
    BY <1>1, Zenon DEF IInv, At, OrderOK, RefsOK
  <2>2. /\ job_list \in Seq(Jobs) /\ DOMAIN job_list = 1..Len(job_list)
        /\ order[p] \in Seq(Pairs) /\ DOMAIN order[p] = 1..Len(order[p])
        /\ started[p] \in Seq(Pairs) /\ DOMAIN started[p] = 1..Len(started[p])
        /\ promise_reactions[p] \in Seq(Reactions) /\ DOMAIN promise_reactions[p] = 1..Len(promise_reactions[p])
    BY <2>1 DEF TypeAt
  <2>3. \A k \in 1..Len(job_list) : JobFrom(p, k) <=> From(p, job_list[k])
    BY Zenon DEF JobFrom, From
  <2>4. \A id : id \in Started(p) <=> \E k \in 1..Len(started[p]) : started[p][k] = id
    BY <2>2, Zenon DEF Started
  <2>5. \A id : id \in Queued(p) <=> \E k \in 1..Len(job_list) : From(p, job_list[k]) /\ job_list[k].id = id
    BY <2>2, <2>3, Zenon DEF Queued
  <2>6. \A id : id \in Listed(p) <=> \E k \in 1..Len(promise_reactions[p]) : promise_reactions[p][k].id = id
    BY <2>2, Zenon DEF Listed
  <2>7. Started(p) \subseteq Pairs /\ Queued(p) \subseteq Pairs /\ Listed(p) \subseteq Pairs
    <3>1. Started(p) \subseteq Pairs
      BY <2>2, <2>4, SMTT(30)
    <3>2. Queued(p) \subseteq Pairs
      BY <2>2, <2>5, JobFields, SMTT(30) DEF From
    <3>3. Listed(p) \subseteq Pairs
      BY <2>2, <2>6, ReactionFields, SMTT(30)
    <3> QED BY <3>1, <3>2, <3>3, ZenonT(40)
  <2>8. \A id \in Pairs : id \in Started(p) \cup Queued(p) \cup Listed(p) <=> Added(p, id) /\ id \notin lost
    <3> SUFFICES ASSUME NEW id \in Pairs
                 PROVE  id \in Started(p) \cup Queued(p) \cup Listed(p) <=> Added(p, id) /\ id \notin lost
      BY Zenon
    <3>1. Accounted(p, id, job_list, started) <=> Added(p, id) /\ id \notin lost
      BY <2>1, Zenon DEF AccountedOK
    <3> QED BY <2>4, <2>5, <2>6, <3>1, ZenonT(40) DEF Accounted
  <2>9. Started(p) \cup Queued(p) \cup Listed(p) = {order[p][k] : k \in DOMAIN order[p]} \ lost
    <3>1. \A id : id \in {order[p][k] : k \in DOMAIN order[p]} <=> id \in Pairs /\ Added(p, id)
      <4>1. \A k \in 1..Len(order[p]) : order[p][k] \in Pairs
        BY <2>2, SMTT(30)
      <4> QED BY <2>2, <4>1, ZenonT(40) DEF Added
    <3> QED BY <2>7, <2>8, <3>1, ZenonT(40)
  <2>10. ASSUME NEW i \in DOMAIN started[p], NEW j \in DOMAIN started[p], i < j
         PROVE  Before(p, started[p][i], started[p][j])
    <3>1. started[p][i] < started[p][j]
      BY <2>1, <2>2, <2>10, Zenon DEF SortedOK, Increasing
    <3>2. started[p][i] \in Started(p) /\ started[p][j] \in Started(p)
      BY <2>2, <2>4, Zenon
    <3> QED BY <1>1, <2>7, <2>8, <3>1, <3>2, BeforeIf, ZenonT(40)
  <2>11. ASSUME NEW i \in DOMAIN job_list, NEW j \in DOMAIN job_list, i < j, JobFrom(p, i), JobFrom(p, j)
         PROVE  Before(p, job_list[i].id, job_list[j].id)
    <3>1. job_list[i].id < job_list[j].id
      BY <2>1, <2>2, <2>3, <2>11, ZenonT(40) DEF SortedOK
    <3>2. job_list[i].id \in Queued(p) /\ job_list[j].id \in Queued(p)
      BY <2>2, <2>3, <2>5, <2>11, ZenonT(40)
    <3> QED BY <1>1, <2>7, <2>8, <3>1, <3>2, BeforeIf, ZenonT(40)
  <2>12. ASSUME NEW i \in DOMAIN promise_reactions[p], NEW j \in DOMAIN promise_reactions[p], i < j
         PROVE  Before(p, promise_reactions[p][i].id, promise_reactions[p][j].id)
    <3>1. promise_reactions[p][i].id < promise_reactions[p][j].id
      BY <2>1, <2>2, <2>12, ZenonT(40) DEF SortedOK
    <3>2. promise_reactions[p][i].id \in Listed(p) /\ promise_reactions[p][j].id \in Listed(p)
      BY <2>2, <2>6, ZenonT(40)
    <3> QED BY <1>1, <2>7, <2>8, <3>1, <3>2, BeforeIf, ZenonT(40)
  <2>13. ASSUME NEW a \in Started(p), NEW b \in Queued(p) PROVE Before(p, a, b)
    <3>1. a < b
      BY <2>1, <2>4, <2>5, SMTT(30) DEF SortedOK
    <3> QED BY <1>1, <2>7, <2>8, <3>1, BeforeIf, ZenonT(40)
  <2>14. ASSUME NEW a \in Started(p) \cup Queued(p), NEW b \in Listed(p) PROVE FALSE
    <3>1. promise_state[p] = "pending"
      BY <2>1, <2>6, ZenonT(40) DEF PromiseOK, ReactionOK
    <3>2. Queued(p) = {}
      BY <2>1, <2>5, <3>1, ZenonT(40) DEF JobOK, From
    <3>3. started[p] = <<>>
      BY <2>1, <3>1, ZenonT(40) DEF SortedOK, Settled
    <3>4. Started(p) = {}
      BY <2>4, <3>3, SMTT(30)
    <3> QED BY <3>2, <3>4, ZenonT(40)
  <2> QED BY <2>9, <2>10, <2>11, <2>12, <2>13, <2>14, ZenonT(40)
<1>2. IInv => ReactionsInOrder
  BY <1>1, ZenonT(40) DEF ReactionsInOrder
<1> QED BY <1>2, InvariantHolds, PTL

\* AdoptsState: a promise resolved with another promise q settles only after q and
\* as q did, unless q's value is an object, and no promise is ever fulfilled with a
\* promise.
THEOREM StateIsAdopted ==
  Spec => []AdoptsState
<1>1. ASSUME IInv, NEW p \in Promises
      PROVE  /\ promise_state[p] = "fulfilled" => promise_result[p] \notin Promises
             /\ adopts[p] # 0 /\ Settled(p) =>
                    /\ Settled(adopts[p])
                    /\ promise_result[adopts[p]] \notin Objects =>
                           /\ promise_state[p] = promise_state[adopts[p]]
                           /\ promise_result[p] = promise_result[adopts[p]]
  <2>1. promise_state[p] = "fulfilled" => promise_result[p] \notin Promises
    BY <1>1, Zenon DEF IInv, At, RefsOK, PromiseOK
  <2>2. ASSUME adopts[p] # 0, Settled(p)
        PROVE  LooksAgain(adopts[p]) \/ SettledAs(p, adopts[p])
    <3>1. Adopted(p, job_list, stack) /\ ResolverAt(p, job_list, stack) /\ job_list \in Seq(Jobs)
      BY <1>1, Zenon DEF IInv, At, AdoptOK, ResolverOK, TypeAt
    <3>2. ~Live(p) /\ ~Stuck(p)
      BY <2>2, Zenon DEF Live, Stuck, Settled
    <3>3. NoPair(p) /\ NoneIn(job_list, ThenablesFor(p))
      BY <3>1, <3>2, Zenon DEF ResolverAt, NoResolver
    <3>4. ~PairWaits(p, adopts[p], job_list, stack)
      BY <3>3, Zenon DEF NoPair, PairWaits
    <3>5. ~JobWaits(p, adopts[p], job_list)
      <4> SUFFICES ASSUME NEW k \in 1..Len(job_list), job_list[k] = ThenableJob(p, adopts[p]) PROVE FALSE
        BY Zenon DEF JobWaits
      <4>1. job_list[k] \in Jobs /\ job_list[k].kind = "thenable" /\ job_list[k].promise = p
        BY <3>1, SMTT(30) DEF ThenableJob
      <4>2. job_list[k] \in ThenablesFor(p)
        BY <4>1, Zenon DEF ThenablesFor
      <4> QED BY <3>3, <4>2, ZenonT(40) DEF NoneIn
    <3> QED BY <2>2, <3>1, <3>2, <3>4, <3>5, SMTT(30) DEF Adopted
  <2> QED BY <2>1, <2>2, ZenonT(40) DEF LooksAgain, SettledAs
<1>2. IInv => AdoptsState
  BY <1>1, Zenon DEF AdoptsState
<1> QED BY <1>2, InvariantHolds, PTL
=============================================================================
