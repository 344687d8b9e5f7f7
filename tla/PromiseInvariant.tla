-------------------------- MODULE PromiseInvariant --------------------------
(***************************************************************************)
(* Proofs about promises (module Promise), for any number of promises,     *)
(* pairs of resolving functions and objects and any nesting of calls: the  *)
(* inductive invariant, and why a call of a resolving function keeps it.   *)
(*                                                                         *)
(* The invariant is stated for a job list jobs, a stack stk and started    *)
(* reactions strt that stand for the variables, since a job or a frame is  *)
(* taken off its list in the same step that calls a resolving function.    *)
(***************************************************************************)
EXTENDS Promise, TLAPS

-----------------------------------------------------------------------------
(* Sequences with no element, and with exactly one element, in a set.       *)

NoneIn(s, T) == \A k \in 1..Len(s) : s[k] \notin T
OneIn(s, T) == \E k \in 1..Len(s) : s[k] \in T /\ \A j \in 1..Len(s) : s[j] \in T => j = k

\* What an element appended to a sequence adds.
LEMMA AppendCount ==
  ASSUME NEW S, NEW s \in Seq(S), NEW e \in S, NEW T
  PROVE  /\ NoneIn(Append(s, e), T) <=> NoneIn(s, T) /\ e \notin T
         /\ OneIn(Append(s, e), T) <=> (OneIn(s, T) /\ e \notin T) \/ (NoneIn(s, T) /\ e \in T)
<1> DEFINE a == Append(s, e)
<1>1. Len(s) \in Nat /\ Len(a) = Len(s) + 1 /\ a[Len(s) + 1] = e /\ \A k \in 1..Len(s) : a[k] = s[k]
  OBVIOUS
<1> HIDE DEF a
<1>2. NoneIn(a, T) <=> NoneIn(s, T) /\ e \notin T
  BY <1>1 DEF NoneIn
<1>3. OneIn(a, T) => (OneIn(s, T) /\ e \notin T) \/ (NoneIn(s, T) /\ e \in T)
  BY <1>1 DEF NoneIn, OneIn
<1>4. OneIn(s, T) /\ e \notin T => OneIn(a, T)
  BY <1>1, SMTT(30) DEF OneIn
<1>5. NoneIn(s, T) /\ e \in T => OneIn(a, T)
  BY <1>1, SMTT(30) DEF NoneIn, OneIn
<1> QED BY <1>2, <1>3, <1>4, <1>5, Zenon DEF a

\* A sequence that has no element in the set adds nothing.
LEMMA ConcatCount ==
  ASSUME NEW S, NEW s \in Seq(S), NEW r \in Seq(S), NEW T, NoneIn(r, T)
  PROVE  /\ NoneIn(s \o r, T) <=> NoneIn(s, T)
         /\ OneIn(s \o r, T) <=> OneIn(s, T)
<1> DEFINE c == s \o r
<1>1. /\ Len(s) \in Nat /\ Len(r) \in Nat /\ Len(c) = Len(s) + Len(r)
      /\ \A k \in 1..Len(s) : c[k] = s[k]
      /\ \A k \in 1..Len(c) : k > Len(s) => c[k] = r[k - Len(s)]
  OBVIOUS
<1> HIDE DEF c
<1>2. \A k \in 1..Len(c) : k > Len(s) => c[k] \notin T
  BY <1>1 DEF NoneIn
<1>3. NoneIn(c, T) <=> NoneIn(s, T)
  BY <1>1, <1>2 DEF NoneIn
<1>4. ASSUME OneIn(c, T) PROVE OneIn(s, T)
  <2>1. PICK k \in 1..Len(c) : c[k] \in T /\ \A j \in 1..Len(c) : c[j] \in T => j = k
    BY <1>4, Zenon DEF OneIn
  <2>2. k \in 1..Len(s) /\ s[k] \in T
    BY <1>1, <1>2, <2>1
  <2>3. \A j \in 1..Len(s) : s[j] \in T => j = k
    BY <1>1, <2>1
  <2> QED BY <2>2, <2>3, Zenon DEF OneIn
<1>5. ASSUME OneIn(s, T) PROVE OneIn(c, T)
  <2>1. PICK k \in 1..Len(s) : s[k] \in T /\ \A j \in 1..Len(s) : s[j] \in T => j = k
    BY <1>5, Zenon DEF OneIn
  <2>2. k \in 1..Len(c) /\ c[k] \in T
    BY <1>1, <2>1
  <2>3. \A j \in 1..Len(c) : c[j] \in T => j \in 1..Len(s) /\ s[j] \in T
    BY <1>1, <1>2
  <2> QED BY <2>1, <2>2, <2>3, Zenon DEF OneIn
<1> QED BY <1>3, <1>4, <1>5, Zenon DEF c

\* What the first element of a sequence counts for.
LEMMA TailCount ==
  ASSUME NEW S, NEW s \in Seq(S), s # <<>>, NEW T
  PROVE  /\ NoneIn(s, T) <=> NoneIn(Tail(s), T) /\ Head(s) \notin T
         /\ OneIn(s, T) <=> (OneIn(Tail(s), T) /\ Head(s) \notin T) \/ (NoneIn(Tail(s), T) /\ Head(s) \in T)
<1> DEFINE t == Tail(s)
           e == Head(s)
<1>1. Len(t) \in Nat /\ Len(s) = Len(t) + 1 /\ s[1] = e /\ \A k \in 1..Len(t) : t[k] = s[k + 1]
  OBVIOUS
<1> HIDE DEF t, e
<1>2. \A k \in 1..Len(s) : k # 1 => k - 1 \in 1..Len(t) /\ t[k - 1] = s[k]
  BY <1>1
<1>3. NoneIn(s, T) <=> NoneIn(t, T) /\ e \notin T
  <2>1. \A k \in 1..Len(t) : k + 1 \in 1..Len(s)
    BY <1>1
  <2>2. NoneIn(s, T) => NoneIn(t, T) /\ e \notin T
    BY <1>1, <2>1 DEF NoneIn
  <2>3. NoneIn(t, T) /\ e \notin T => NoneIn(s, T)
    BY <1>1, <1>2, Zenon DEF NoneIn
  <2> QED BY <2>2, <2>3, Zenon
<1>4. OneIn(s, T) => (OneIn(t, T) /\ e \notin T) \/ (NoneIn(t, T) /\ e \in T)
  <2> SUFFICES ASSUME OneIn(s, T) PROVE (OneIn(t, T) /\ e \notin T) \/ (NoneIn(t, T) /\ e \in T)
    BY Zenon
  <2>1. PICK k \in 1..Len(s) : s[k] \in T /\ \A j \in 1..Len(s) : s[j] \in T => j = k
    BY Zenon DEF OneIn
  <2>2. CASE k = 1
    BY <1>1, <2>1, <2>2 DEF NoneIn
  <2>3. CASE k # 1
    <3>1. k - 1 \in 1..Len(t) /\ t[k - 1] \in T /\ \A j \in 1..Len(t) : t[j] \in T => j = k - 1
      BY <1>1, <1>2, <2>1, <2>3
    <3> QED BY <1>1, <2>1, <2>3, <3>1, SMTT(30) DEF OneIn
  <2> QED BY <2>2, <2>3, Zenon
<1>5. OneIn(t, T) /\ e \notin T => OneIn(s, T)
  <2> SUFFICES ASSUME OneIn(t, T), e \notin T PROVE OneIn(s, T)
    BY Zenon
  <2>1. PICK k \in 1..Len(t) : t[k] \in T /\ \A j \in 1..Len(t) : t[j] \in T => j = k
    BY Zenon DEF OneIn
  <2>2. k + 1 \in 1..Len(s) /\ s[k + 1] \in T
    BY <1>1, <2>1
  <2>3. ASSUME NEW j \in 1..Len(s), s[j] \in T PROVE j = k + 1
    <3>1. j # 1
      BY <1>1, <2>3, Zenon
    <3>2. j - 1 \in 1..Len(t) /\ t[j - 1] \in T
      BY <1>2, <2>3, <3>1, Zenon
    <3>3. j - 1 = k
      BY <2>1, <3>2, Zenon
    <3> QED BY <1>1, <3>3
  <2> QED BY <2>2, <2>3, Zenon DEF OneIn
<1>6. NoneIn(t, T) /\ e \in T => OneIn(s, T)
  <2> SUFFICES ASSUME NoneIn(t, T), e \in T PROVE OneIn(s, T)
    BY Zenon
  <2>1. 1 \in 1..Len(s) /\ s[1] \in T /\ \A j \in 1..Len(s) : s[j] \in T => j = 1
    BY <1>1, <1>2, SMTT(30) DEF NoneIn
  <2> QED BY <2>1, Zenon DEF OneIn
<1> QED BY <1>3, <1>4, <1>5, <1>6, Zenon DEF t, e

\* What the last element of a sequence counts for.
LEMMA FrontCount ==
  ASSUME NEW S, NEW s \in Seq(S), s # <<>>, NEW T
  PROVE  LET f == SubSeq(s, 1, Len(s) - 1)
             e == s[Len(s)]
         IN /\ NoneIn(s, T) <=> NoneIn(f, T) /\ e \notin T
            /\ OneIn(s, T) <=> (OneIn(f, T) /\ e \notin T) \/ (NoneIn(f, T) /\ e \in T)
<1> DEFINE f == SubSeq(s, 1, Len(s) - 1)
           e == s[Len(s)]
<1>1. Len(s) \in Nat \ {0}
  OBVIOUS
<1>2. f \in Seq(S) /\ e \in S /\ s = Append(f, e)
  BY <1>1
<1> HIDE DEF f, e
<1>3. /\ NoneIn(Append(f, e), T) <=> NoneIn(f, T) /\ e \notin T
      /\ OneIn(Append(f, e), T) <=> (OneIn(f, T) /\ e \notin T) \/ (NoneIn(f, T) /\ e \in T)
  BY <1>2, AppendCount, Zenon
<1>4. /\ NoneIn(s, T) <=> NoneIn(f, T) /\ e \notin T
      /\ OneIn(s, T) <=> (OneIn(f, T) /\ e \notin T) \/ (NoneIn(f, T) /\ e \in T)
  BY <1>2, <1>3, Zenon
<1> QED BY <1>4, Zenon DEF f, e

-----------------------------------------------------------------------------
(* The inductive invariant.                                                 *)

\* TypeOK.
TypeAt(jobs, stk, strt) ==
    /\ promise_state \in [Promises -> {"none", "pending", "fulfilled", "rejected"}]
    /\ promise_result \in [Promises -> Values]
    /\ promise_reactions \in [Promises -> Seq(Reactions)]
    /\ promise \in [Pairs -> Promises \cup {0}]
    /\ already_resolved \in [Pairs -> BOOLEAN]
    /\ given \subseteq {f \in Pairs : promise[f] # 0}
    /\ jobs \in Seq(Jobs)
    /\ stk \in Seq(Frames)
    /\ order \in [Promises -> Seq(Pairs)]
    /\ strt \in [Promises -> Seq(Pairs)]
    /\ lost \subseteq Pairs
    /\ stranded \subseteq Promises
    /\ adopts \in [Promises -> Promises \cup {0}]

\* The pair f exists.
Pair(f) == f \in Pairs /\ promise[f] # 0

\* The value v exists.
Exists(v) == v \in Values /\ (v \in Promises => promise_state[v] # "none")

\* A frame is the script's, or that of a call made with a pair that exists.  The
\* executor and the then method were given the pair; a getter is called by a
\* function of a pair that is resolved already.
FrameOK(fr) ==
    \/ fr.kind = "script"
    \/ fr.kind = "function" /\ fr.f = 0
    \/ /\ Pair(fr.f)
       /\ fr.kind \in {"executor", "then"} => fr.f \in given
       /\ fr.kind = "getter" => already_resolved[fr.f] /\ fr.v \in Objects

\* A handler that is a function is one of an existing pair.
HandlerOK(h) == h.kind = "function" => Pair(h.f)

\* Only a pending promise has reactions.  A reaction that then added has a
\* capability of its own; one that a thenable job added has the two functions
\* of its pair as handlers.
ReactionOK(p, rd) ==
    /\ promise_state[p] = "pending"
    /\ Pair(rd.id)
    /\ HandlerOK(rd.handler[0]) /\ HandlerOK(rd.handler[1])
    /\ \/ rd.cap = rd.id
       \/ rd.cap = Discarded /\ rd.handler[0] = Function(rd.id, 0) /\ rd.handler[1] = Function(rd.id, 1)

\* A job runs a reaction of a settled promise, with its state and result, or
\* resolves a promise with something that has a then method.
JobOK(j) ==
    IF j.kind = "thenable"
    THEN promise_state[j.promise] # "none" /\ Exists(j.thenable)
    ELSE /\ promise_state[j.from] = IF j.is_reject = 1 THEN "rejected" ELSE "fulfilled"
         /\ j.arg = promise_result[j.from]
         /\ Pair(j.id)
         /\ HandlerOK(j.handler)
         /\ \/ j.cap = j.id
            \/ j.cap = Discarded /\ j.handler = Function(j.id, j.is_reject)

\* Everything refers to promises and pairs that exist, and pairs are created in
\* order.
PromiseOK ==
    /\ \A f \in Pairs : promise[f] # 0 => promise_state[promise[f]] # "none"
    /\ \A f, g \in Pairs : f < g /\ promise[g] # 0 => promise[f] # 0
    /\ \A f \in Pairs : promise[f] = 0 => ~already_resolved[f]
    /\ \A p \in Promises : Exists(promise_result[p])
    /\ \A p \in Promises : promise_state[p] = "fulfilled" => promise_result[p] \notin Promises
    /\ \A p \in stranded : promise_state[p] # "none"
    /\ \A p \in Promises : adopts[p] # 0 => promise_state[p] # "none" /\ promise_state[adopts[p]] # "none"
    /\ \A p \in Promises : \A k \in 1..Len(promise_reactions[p]) : ReactionOK(p, promise_reactions[p][k])

RefsOK(jobs, stk) ==
    /\ PromiseOK
    /\ \A k \in 1..Len(stk) : FrameOK(stk[k])
    /\ \A k \in 1..Len(jobs) : JobOK(jobs[k])

\* The thenable jobs for the promise p, and the getters its resolving
\* functions wait for.
ThenablesFor(p) == {j \in Jobs : j.kind = "thenable" /\ j.promise = p}
GettersFor(p) == {fr \in Frames : fr.kind = "getter" /\ promise[fr.f] = p}
NoPair(p) == \A f \in Pairs : promise[f] = p => already_resolved[f]
OnePair(p) ==
    \E f \in Pairs : /\ promise[f] = p /\ ~already_resolved[f]
                     /\ \A g \in Pairs : promise[g] = p /\ ~already_resolved[g] => g = f

\* OneResolver, without cardinalities.
NoResolver(p, jobs, stk) == NoPair(p) /\ NoneIn(jobs, ThenablesFor(p)) /\ NoneIn(stk, GettersFor(p))
ExactlyOne(p, jobs, stk) ==
    \/ OnePair(p) /\ NoneIn(jobs, ThenablesFor(p)) /\ NoneIn(stk, GettersFor(p))
    \/ NoPair(p) /\ OneIn(jobs, ThenablesFor(p)) /\ NoneIn(stk, GettersFor(p))
    \/ NoPair(p) /\ NoneIn(jobs, ThenablesFor(p)) /\ OneIn(stk, GettersFor(p))

Live(p) == promise_state[p] = "pending" /\ p \notin stranded
ResolverAt(p, jobs, stk) == IF Live(p) THEN ExactlyOne(p, jobs, stk) ELSE NoResolver(p, jobs, stk)
ResolverOK(jobs, stk) == \A p \in Promises : ResolverAt(p, jobs, stk)

\* The reactions of every promise are numbered in the order they are added, no
\* two with the same number, and are started in that order.
Increasing(s) == \A i, j \in 1..Len(s) : i < j => s[i] < s[j]
AddedOK ==
    /\ \A p \in Promises : Increasing(order[p])
    /\ \A p \in Promises : \A i \in 1..Len(order[p]) : promise[order[p][i]] # 0
    /\ \A p, q \in Promises : \A i \in 1..Len(order[p]), j \in 1..Len(order[q]) :
           order[p][i] = order[q][j] => p = q
    /\ \A id \in lost : promise[id] # 0
From(p, j) == j.kind = "reaction" /\ j.from = p
SortedOK(jobs, strt) ==
    /\ \A p \in Promises : Increasing(strt[p])
    /\ \A p \in Promises : \A i, j \in 1..Len(promise_reactions[p]) :
           i < j => promise_reactions[p][i].id < promise_reactions[p][j].id
    /\ \A p \in Promises : \A i, j \in 1..Len(jobs) :
           i < j /\ From(p, jobs[i]) /\ From(p, jobs[j]) => jobs[i].id < jobs[j].id
    /\ \A p \in Promises : \A i \in 1..Len(strt[p]), j \in 1..Len(jobs) :
           From(p, jobs[j]) => strt[p][i] < jobs[j].id
    /\ \A p \in Promises : strt[p] # <<>> => Settled(p)

\* Where a reaction of p that was added may be.
Accounted(p, id, jobs, strt) ==
    \/ \E k \in 1..Len(strt[p]) : strt[p][k] = id
    \/ \E k \in 1..Len(jobs) : From(p, jobs[k]) /\ jobs[k].id = id
    \/ \E k \in 1..Len(promise_reactions[p]) : promise_reactions[p][k].id = id
Added(p, id) == \E k \in 1..Len(order[p]) : order[p][k] = id
AccountedOK(jobs, strt) ==
    \A p \in Promises : \A id \in Pairs :
        Accounted(p, id, jobs, strt) <=> Added(p, id) /\ id \notin lost

OrderOK(jobs, strt) == AddedOK /\ SortedOK(jobs, strt) /\ AccountedOK(jobs, strt)

\* Nothing can call the pair f but the job of a reaction of q, which passes
\* on how q settled.
OnlyFrom(q, f, jobs, stk) ==
    /\ f \notin given
    /\ \A k \in 1..Len(stk) : stk[k].f # f
    /\ \A k \in 1..Len(jobs) : jobs[k].kind = "reaction" =>
           /\ jobs[k].cap # f
           /\ jobs[k].handler.f = f => jobs[k].from = q /\ jobs[k].handler = Function(f, jobs[k].is_reject)
    /\ \A r \in Promises : \A k \in 1..Len(promise_reactions[r]) : \A i \in 0..1 :
           /\ promise_reactions[r][k].cap # f
           /\ promise_reactions[r][k].handler[i].f = f =>
                  r = q /\ promise_reactions[r][k].handler[i] = Function(f, i)

\* How far a promise p that was resolved with the promise q may have got.
Stuck(p) == p \in stranded /\ promise_state[p] = "pending"
JobWaits(p, q, jobs) == \E k \in 1..Len(jobs) : jobs[k] = ThenableJob(p, q)
PairWaits(p, q, jobs, stk) ==
    \E f \in Pairs : promise[f] = p /\ ~already_resolved[f] /\ OnlyFrom(q, f, jobs, stk)
LooksAgain(q) == Settled(q) /\ promise_result[q] \in Objects
SettledAs(p, q) ==
    /\ Settled(p) /\ Settled(q)
    /\ promise_state[p] = promise_state[q] /\ promise_result[p] = promise_result[q]

Adopted(p, jobs, stk) ==
    adopts[p] # 0 =>
        \/ Stuck(p)
        \/ JobWaits(p, adopts[p], jobs)
        \/ PairWaits(p, adopts[p], jobs, stk)
        \/ LooksAgain(adopts[p])
        \/ SettledAs(p, adopts[p])
AdoptOK(jobs, stk) == \A p \in Promises : Adopted(p, jobs, stk)

\* The invariant.
At(jobs, stk, strt) ==
    /\ TypeAt(jobs, stk, strt)
    /\ RefsOK(jobs, stk)
    /\ ResolverOK(jobs, stk)
    /\ OrderOK(jobs, strt)
    /\ AdoptOK(jobs, stk)

IInv == At(job_list, stack, started)

-----------------------------------------------------------------------------
(* The fields of records.                                                   *)

\* A handler is a function exactly if it has a pair.
LEMMA HandlerFields ==
  ASSUME NEW h \in Handlers
  PROVE  /\ h.f \in Pairs \cup {0} /\ h.i \in 0..1
         /\ h.kind \in {"undefined", "code", "function"}
         /\ h.kind = "function" <=> h.f # 0
         /\ h.kind = "function" => h = Function(h.f, h.i)
BY DEF Handlers, NoHandler, Code, Function, Pairs

\* What a job consists of.
LEMMA JobFields ==
  ASSUME NEW j \in Jobs
  PROVE  /\ j.kind \in {"reaction", "thenable"}
         /\ j.kind = "reaction" =>
                /\ j.from \in Promises /\ j.id \in Pairs /\ j.cap \in Pairs \cup {0}
                /\ j.handler \in Handlers /\ j.is_reject \in 0..1 /\ j.arg \in Values
         /\ j.kind = "thenable" => j.promise \in Promises /\ j.thenable \in Promises \cup Objects
BY Zenon DEF Jobs, Discarded

\* What a reaction consists of.
LEMMA ReactionFields ==
  ASSUME NEW rd \in Reactions
  PROVE  /\ rd.id \in Pairs /\ rd.cap \in Pairs \cup {0}
         /\ rd.handler[0] \in Handlers /\ rd.handler[1] \in Handlers
BY DEF Reactions, Discarded

\* The job of a reaction.
LEMMA ReactionJobFields ==
  ASSUME NEW p \in Promises, NEW rd \in Reactions, NEW r \in 0..1, NEW v \in Values
  PROVE  LET j == ReactionJob(p, rd, r, v) IN
         /\ j \in Jobs /\ j.kind = "reaction" /\ j.from = p /\ j.id = rd.id /\ j.cap = rd.cap
         /\ j.handler = rd.handler[r] /\ j.is_reject = r /\ j.arg = v
BY Zenon DEF ReactionJob, Jobs, Reactions

\* The job that resolves a promise with something that has a then method.
LEMMA ThenableJobFields ==
  ASSUME NEW p \in Promises, NEW t \in Promises \cup Objects
  PROVE  LET j == ThenableJob(p, t) IN
         j \in Jobs /\ j.kind = "thenable" /\ j.promise = p /\ j.thenable = t
BY Zenon DEF ThenableJob, Jobs

\* The thenable jobs of a promise, by their fields.
LEMMA ThenableIn ==
  ASSUME NEW p \in Promises, NEW j \in Jobs
  PROVE  j \in ThenablesFor(p) <=> j.kind = "thenable" /\ j.promise = p
BY Zenon DEF ThenablesFor

\* A frame.
LEMMA FrameFields ==
  ASSUME NEW k \in JSKinds \cup {"function"}, NEW f \in Pairs \cup {0}, NEW v \in Values
  PROVE  LET fr == Frame(k, f, v) IN fr \in Frames /\ fr.kind = k /\ fr.f = f /\ fr.v = v
BY Zenon DEF Frame, Frames

-----------------------------------------------------------------------------
(* A promise is settled.                                                    *)

\* The pair f alone, which is being called, can still settle its promise; all
\* else is as the invariant says.
Decides(f, jobs, stk, strt) ==
    /\ f \in Pairs /\ promise[f] # 0
    /\ TypeAt(jobs, stk, strt)
    /\ RefsOK(jobs, stk)
    /\ OrderOK(jobs, strt)
    /\ Live(promise[f])
    /\ \A g \in Pairs : promise[g] = promise[f] /\ g # f => already_resolved[g]
    /\ NoneIn(jobs, ThenablesFor(promise[f]))
    /\ NoneIn(stk, GettersFor(promise[f]))
    /\ \A q \in Promises : q # promise[f] => ResolverAt(q, jobs, stk) /\ Adopted(q, jobs, stk)

StateOf(r) == IF r = 1 THEN "rejected" ELSE "fulfilled"

\* What a promise that follows another may be settled with.
Follows(p, r, v) ==
    adopts[p] # 0 =>
        \/ LooksAgain(adopts[p])
        \/ Settled(adopts[p]) /\ promise_state[adopts[p]] = StateOf(r) /\ promise_result[adopts[p]] = v

\* The order of reactions depends on nothing else.
LEMMA OrderKept ==
  ASSUME NEW jobs, NEW strt, OrderOK(jobs, strt), job_list' = jobs, started' = strt,
         UNCHANGED <<promise_state, promise_reactions, promise, order, lost>>
  PROVE  OrderOK(job_list, started)'
<1>1. AddedOK /\ SortedOK(jobs, strt) /\ AccountedOK(jobs, strt)
  BY Zenon DEF OrderOK
<1>2. AddedOK'
  BY <1>1, Zenon DEF AddedOK, Increasing
<1>3. SortedOK(job_list, started)'
  BY <1>1, Zenon DEF SortedOK, Increasing, Settled, From
<1>4. AccountedOK(job_list, started)'
  <2> SUFFICES ASSUME NEW q \in Promises, NEW id \in Pairs
               PROVE  (Accounted(q, id, job_list, started) <=> Added(q, id) /\ id \notin lost)'
    BY Zenon DEF AccountedOK
  <2>1. Accounted(q, id, job_list, started)' <=> Accounted(q, id, jobs, strt)
    BY Zenon DEF Accounted, From
  <2>2. Added(q, id)' <=> Added(q, id)
    BY Zenon DEF Added
  <2> QED BY <1>1, <2>1, <2>2, Zenon DEF AccountedOK
<1> QED BY <1>2, <1>3, <1>4, Zenon DEF OrderOK

\* Nothing else comes to call the pair g when no reaction, job or frame does.
LEMMA OnlyFromKept ==
  ASSUME NEW q, NEW a, NEW g, NEW jobs, NEW stk, OnlyFrom(a, g, jobs, stk), adopts'[q] = a,
         g \notin given', \A k \in 1..Len(stack') : stack'[k].f # g,
         \A k \in 1..Len(job_list') :
             job_list'[k].kind = "reaction" => k \in 1..Len(jobs) /\ job_list'[k] = jobs[k],
         promise_reactions' = promise_reactions
  PROVE  OnlyFrom(adopts[q], g, job_list, stack)'
<1>1. OnlyFrom(adopts'[q], g, jobs, stk)
  BY Zenon
<1>2. \A k \in 1..Len(job_list') : job_list'[k].kind = "reaction" =>
         /\ job_list'[k].cap # g
         /\ job_list'[k].handler.f = g =>
                job_list'[k].from = adopts'[q] /\ job_list'[k].handler = Function(g, job_list'[k].is_reject)
  BY <1>1, Zenon DEF OnlyFrom
<1>3. \A s \in Promises : \A k \in 1..Len(promise_reactions'[s]) : \A i \in 0..1 :
         /\ promise_reactions'[s][k].cap # g
         /\ promise_reactions'[s][k].handler[i].f = g => s = adopts'[q] /\ promise_reactions'[s][k].handler[i] = Function(g, i)
  BY <1>1, Zenon DEF OnlyFrom
<1> QED BY <1>2, <1>3 DEF OnlyFrom

\* The promise of f is settled in state r with v.
LEMMA SettleStep ==
  ASSUME NEW f, NEW v, NEW r \in 0..1, NEW jobs, NEW stk, NEW strt,
         Decides(f, jobs, stk, strt),
         Exists(v), r = 0 => v \notin Promises, Follows(promise[f], r, v),
         fulfill_or_reject_promise(promise[f], v, r, jobs),
         already_resolved' = [already_resolved EXCEPT ![f] = TRUE],
         stack' = stk, started' = strt, UNCHANGED <<promise, given, order, adopts>>
  PROVE  IInv'
<1> DEFINE p == promise[f]
           rds == promise_reactions[p]
<1>1. /\ f \in Pairs /\ p \in Promises /\ promise_state[p] = "pending" /\ p \notin stranded
      /\ TypeAt(jobs, stk, strt) /\ RefsOK(jobs, stk) /\ OrderOK(jobs, strt)
  BY Zenon DEF Decides, TypeAt, Live
<1>2. /\ promise_result' = [promise_result EXCEPT ![p] = v]
      /\ promise_state' = [promise_state EXCEPT ![p] = StateOf(r)]
      /\ promise_reactions' = [promise_reactions EXCEPT ![p] = <<>>]
      /\ stranded' = stranded
  BY <1>1, Zenon DEF fulfill_or_reject_promise, StateOf
<1>3. PICK idx \in Picks(Len(rds)) :
             /\ job_list' = jobs \o ReactionJobs(p, rds, idx, r, v)
             /\ lost' = lost \cup {rds[i].id : i \in 1..Len(rds) \ {idx[n] : n \in DOMAIN idx}}
  BY <1>1, ZenonT(40) DEF fulfill_or_reject_promise
<1> DEFINE new == ReactionJobs(p, rds, idx, r, v)
<1>4. rds \in Seq(Reactions) /\ Len(rds) \in Nat /\ v \in Values
  BY <1>1 DEF TypeAt, Exists
<1>5. PICK m \in 0..Len(rds) : idx \in [1..m -> 1..Len(rds)]
  BY <1>4, Zenon DEF Picks
<1>6. /\ DOMAIN idx = 1..m /\ m \in Nat
      /\ \A n \in 1..m : idx[n] \in 1..Len(rds) /\ rds[idx[n]] \in Reactions
      /\ \A a, b \in 1..m : a < b => idx[a] < idx[b]
  BY <1>4, <1>5, SMTT(30) DEF Picks
<1>7. \A n \in 1..m : new[n] = ReactionJob(p, rds[idx[n]], r, v) /\ new[n] \in Jobs
  BY <1>1, <1>4, <1>6, ReactionJobFields, Zenon DEF ReactionJobs
<1>8. new \in Seq(Jobs) /\ Len(new) = m
  BY <1>6, <1>7 DEF ReactionJobs
<1>9. \A n \in 1..m : /\ new[n].kind = "reaction" /\ new[n].from = p /\ new[n].id = rds[idx[n]].id
                      /\ new[n].cap = rds[idx[n]].cap /\ new[n].handler = rds[idx[n]].handler[r]
                      /\ new[n].is_reject = r /\ new[n].arg = v
  BY <1>1, <1>4, <1>6, <1>7, ReactionJobFields, SMTT(30)
<1> HIDE DEF new
<1>10. /\ jobs \in Seq(Jobs) /\ Len(jobs) \in Nat /\ job_list' \in Seq(Jobs) /\ Len(job_list') = Len(jobs) + m
       /\ \A k \in 1..Len(jobs) : job_list'[k] = jobs[k]
       /\ \A k \in 1..Len(job_list') : k \notin 1..Len(jobs) => k - Len(jobs) \in 1..m /\ job_list'[k] = new[k - Len(jobs)]
  BY <1>1, <1>3, <1>6, <1>8 DEF TypeAt, new
<1>11. TypeAt(job_list, stack, started)'
  <2>1. (promise_state \in [Promises -> {"none", "pending", "fulfilled", "rejected"}])'
    BY <1>1, <1>2, Zenon DEF TypeAt, StateOf
  <2>2. (promise_result \in [Promises -> Values])'
    BY <1>1, <1>2, <1>4, Zenon DEF TypeAt
  <2>3. (promise_reactions \in [Promises -> Seq(Reactions)])'
    BY <1>1, <1>2, SMTT(30) DEF TypeAt
  <2>4. (lost \subseteq Pairs)'
    BY <1>1, <1>3, <1>4, ReactionFields DEF TypeAt
  <2>5. (already_resolved \in [Pairs -> BOOLEAN])'
    BY <1>1, Zenon DEF TypeAt
  <2> QED BY <1>1, <1>2, <1>10, <2>1, <2>2, <2>3, <2>4, <2>5, Zenon DEF TypeAt
<1>12. RefsOK(job_list, stack)'
  <2>1. PromiseOK /\ (\A k \in 1..Len(stk) : FrameOK(stk[k])) /\ (\A k \in 1..Len(jobs) : JobOK(jobs[k]))
    BY <1>1, Zenon DEF RefsOK
  <2>2. \A q \in Promises : promise_state[q] # "none" <=> promise_state'[q] # "none"
    BY <1>1, <1>2, Zenon DEF TypeAt, StateOf
  <2>3. /\ \A q \in Promises : q # p => promise_state'[q] = promise_state[q] /\ promise_result'[q] = promise_result[q]
        /\ promise_state'[p] = StateOf(r) /\ promise_result'[p] = v
    BY <1>1, <1>2, Zenon DEF TypeAt
  <2>4. PromiseOK'
    <3>1. (\A g \in Pairs : promise[g] # 0 => promise_state[promise[g]] # "none")'
      BY <1>1, <2>1, <2>2, Zenon DEF PromiseOK, TypeAt
    <3>2. (\A g, h \in Pairs : g < h /\ promise[h] # 0 => promise[g] # 0)'
      BY <2>1, Zenon DEF PromiseOK
    <3>3. (\A q \in Promises : Exists(promise_result[q]))'
      BY <2>1, <2>2, <2>3, Zenon DEF PromiseOK, Exists
    <3>4. (\A q \in Promises : promise_state[q] = "fulfilled" => promise_result[q] \notin Promises)'
      BY <2>1, <2>3 DEF PromiseOK, StateOf
    <3>5. (\A q \in stranded : promise_state[q] # "none")'
      BY <1>1, <1>2, <2>1, <2>2, Zenon DEF PromiseOK, TypeAt
    <3>6. (\A q \in Promises : adopts[q] # 0 => promise_state[q] # "none" /\ promise_state[adopts[q]] # "none")'
      BY <1>1, <2>1, <2>2, Zenon DEF PromiseOK, TypeAt
    <3>7. (\A q \in Promises : \A k \in 1..Len(promise_reactions[q]) : ReactionOK(q, promise_reactions[q][k]))'
      <4> SUFFICES ASSUME NEW q \in Promises, NEW k \in 1..Len(promise_reactions'[q])
                   PROVE  ReactionOK(q, promise_reactions[q][k])'
        BY Zenon
      <4>1. q # p /\ promise_reactions'[q] = promise_reactions[q]
        BY <1>1, <1>2 DEF TypeAt
      <4>2. ReactionOK(q, promise_reactions[q][k])
        BY <2>1, <4>1, Zenon DEF PromiseOK
      <4> QED BY <2>3, <4>1, <4>2, Zenon DEF ReactionOK, Pair, HandlerOK
    <3>8. (\A g \in Pairs : promise[g] = 0 => ~already_resolved[g])'
      <4>1. promise[f] # 0 /\ already_resolved \in [Pairs -> BOOLEAN]
        BY <1>1, Zenon DEF Decides, TypeAt
      <4> QED BY <1>1, <2>1, <4>1, Zenon DEF PromiseOK
    <3> QED BY <3>1, <3>2, <3>3, <3>4, <3>5, <3>6, <3>7, <3>8, Zenon DEF PromiseOK
  <2>5. (\A k \in 1..Len(stack) : FrameOK(stack[k]))'
    <3> SUFFICES ASSUME NEW k \in 1..Len(stk) PROVE FrameOK(stack[k])'
      BY Zenon
    <3>1. FrameOK(stk[k])
      BY <2>1, Zenon
    <3>2. \A g \in Pairs : already_resolved[g] => already_resolved'[g]
      BY <1>1, Zenon DEF TypeAt
    <3> QED BY <3>1, <3>2, Zenon DEF FrameOK, Pair
  <2>6. (\A k \in 1..Len(job_list) : JobOK(job_list[k]))'
    <3> SUFFICES ASSUME NEW k \in 1..Len(job_list') PROVE JobOK(job_list[k])'
      BY Zenon
    <3>1. CASE k \in 1..Len(jobs)
      <4>1. JobOK(jobs[k]) /\ jobs[k] \in Jobs /\ job_list'[k] = jobs[k]
        BY <1>10, <2>1, <3>1
      <4>2. CASE jobs[k].kind = "thenable"
        BY <2>2, <4>1, <4>2, JobFields, Zenon DEF JobOK, Exists
      <4>3. CASE jobs[k].kind = "reaction"
        <5>1. jobs[k].from \in Promises /\ jobs[k].from # p
          BY <1>1, <4>1, <4>3, JobFields, Zenon DEF JobOK
        <5> QED BY <2>3, <4>1, <4>3, <5>1 DEF JobOK, Pair, HandlerOK
      <4> QED BY <4>1, <4>2, <4>3, JobFields, Zenon
    <3>2. CASE k \notin 1..Len(jobs)
      <4>1. PICK n \in 1..m : job_list'[k] = new[n]
        BY <1>10, <3>2, Zenon
      <4> DEFINE rd == rds[idx[n]]
      <4>2. ReactionOK(p, rd)
        BY <1>1, <1>6, <2>1, Zenon DEF PromiseOK
      <4>3. /\ job_list'[k].kind = "reaction" /\ job_list'[k].from = p /\ job_list'[k].id = rd.id
            /\ job_list'[k].cap = rd.cap /\ job_list'[k].handler = rd.handler[r]
            /\ job_list'[k].is_reject = r /\ job_list'[k].arg = v
        BY <1>9, <4>1, ZenonT(40)
      <4> HIDE DEF rd
      <4> QED BY <2>3, <4>2, <4>3 DEF JobOK, ReactionOK, Pair, HandlerOK, StateOf
    <3> QED BY <3>1, <3>2, Zenon
  <2> QED BY <2>4, <2>5, <2>6, Zenon DEF RefsOK
<1>13. ResolverOK(job_list, stack)'
  <2>1. \A q \in Promises : NoneIn(new, ThenablesFor(q))
    BY <1>7, <1>8, <1>9, ThenableIn, Zenon DEF NoneIn
  <2>2. \A q \in Promises : /\ NoneIn(job_list', ThenablesFor(q)) <=> NoneIn(jobs, ThenablesFor(q))
                            /\ OneIn(job_list', ThenablesFor(q)) <=> OneIn(jobs, ThenablesFor(q))
    BY <1>3, <1>8, <1>10, <2>1, ConcatCount DEF new
  <2>3. \A q \in Promises : GettersFor(q)' = GettersFor(q)
    BY Zenon DEF GettersFor
  <2>4. ASSUME NEW q \in Promises PROVE ResolverAt(q, job_list, stack)'
    <3>1. CASE q = p
      <4>1. ~Live(p)'
        BY <1>1, <1>2, Zenon DEF Live, StateOf, TypeAt
      <4>2. NoPair(p)'
        BY <1>1, Zenon DEF NoPair, Decides, TypeAt
      <4>3. NoneIn(job_list', ThenablesFor(p)) /\ NoneIn(stack', GettersFor(p)')
        BY <1>1, <2>2, <2>3, Zenon DEF Decides
      <4>4. (ThenablesFor(p) = ThenablesFor(p))' /\ ThenablesFor(p)' = ThenablesFor(p)
        BY Zenon DEF ThenablesFor
      <4> QED BY <3>1, <4>1, <4>2, <4>3, <4>4, Zenon DEF ResolverAt, NoResolver, NoneIn
    <3>2. CASE q # p
      <4>1. ResolverAt(q, jobs, stk)
        BY <3>2, Zenon DEF Decides
      <4>2. Live(q)' <=> Live(q)
        BY <1>1, <1>2, <3>2, Zenon DEF Live, TypeAt
      <4>3. (NoPair(q)' <=> NoPair(q)) /\ (OnePair(q)' <=> OnePair(q))
        <5>1. \A g \in Pairs : promise[g] = q => already_resolved'[g] = already_resolved[g]
          BY <1>1, <3>2, ZenonT(40) DEF TypeAt
        <5> QED BY <5>1, ZenonT(40) DEF NoPair, OnePair
      <4> QED BY <2>2, <2>3, <4>1, <4>2, <4>3, Zenon DEF ResolverAt, NoResolver, ExactlyOne
    <3> QED BY <3>1, <3>2, Zenon
  <2> QED BY <2>4, Zenon DEF ResolverOK
<1>14. OrderOK(job_list, started)'
  <2>1. AddedOK /\ SortedOK(jobs, strt) /\ AccountedOK(jobs, strt)
    BY <1>1, Zenon DEF OrderOK
  <2>2. strt[p] = <<>> /\ \A k \in 1..Len(jobs) : ~From(p, jobs[k])
    <3>1. strt[p] = <<>>
      BY <1>1, <2>1, Zenon DEF SortedOK, Settled
    <3>2. ASSUME NEW k \in 1..Len(jobs), From(p, jobs[k]) PROVE FALSE
      BY <1>1, <3>2, Zenon DEF RefsOK, JobOK, From
    <3> QED BY <3>1, <3>2, Zenon
  <2>3. AddedOK'
    <3>1. \A i \in 1..Len(rds) : promise[rds[i].id] # 0
      BY <1>1, Zenon DEF RefsOK, PromiseOK, ReactionOK, Pair
    <3>2. \A id \in lost' : promise'[id] # 0
      BY <1>3, <2>1, <3>1, Zenon DEF AddedOK
    <3> QED BY <2>1, <3>2, Zenon DEF AddedOK, Increasing
  <2>4. \A i, j \in 1..Len(rds) : i < j => rds[i].id < rds[j].id
    BY <1>1, <2>1, Zenon DEF SortedOK
  <2>5. \A q \in Promises : q # p => promise_reactions'[q] = promise_reactions[q]
    BY <1>1, <1>2, Zenon DEF TypeAt
  <2>6. promise_reactions'[p] = <<>> /\ Len(promise_reactions'[p]) = 0
    BY <1>1, <1>2, Zenon DEF TypeAt
  <2>7. SortedOK(job_list, started)'
    <3>1. (\A q \in Promises : Increasing(started[q]))'
      BY <2>1, Zenon DEF SortedOK, Increasing
    <3>2. (\A q \in Promises : \A i, j \in 1..Len(promise_reactions[q]) :
              i < j => promise_reactions[q][i].id < promise_reactions[q][j].id)'
      BY <2>1, <2>5, <2>6 DEF SortedOK
    <3>3. ASSUME NEW q \in Promises, NEW i \in 1..Len(job_list'), NEW j \in 1..Len(job_list'),
                 i < j, From(q, job_list'[i]), From(q, job_list'[j])
          PROVE  job_list'[i].id < job_list'[j].id
      <4>1. CASE j \in 1..Len(jobs)
        <5>1. i \in 1..Len(jobs)
          BY <1>10, <3>3, <4>1
        <5> QED BY <1>10, <2>1, <3>3, <4>1, <5>1, Zenon DEF SortedOK
      <4>2. CASE j \notin 1..Len(jobs)
        <5>0. j - Len(jobs) \in 1..m /\ job_list'[j] = new[j - Len(jobs)]
          BY <1>10, <4>2, Zenon
        <5>1. j - Len(jobs) \in 1..m /\ job_list'[j] = new[j - Len(jobs)] /\ q = p
          BY <1>9, <3>3, <5>0, Zenon DEF From
        <5>2. i \notin 1..Len(jobs)
          BY <1>10, <2>2, <3>3, <5>1, Zenon
        <5>3. i - Len(jobs) \in 1..m /\ job_list'[i] = new[i - Len(jobs)] /\ i - Len(jobs) < j - Len(jobs)
          BY <1>10, <3>3, <5>2
        <5>4. idx[i - Len(jobs)] < idx[j - Len(jobs)]
          BY <1>6, <5>1, <5>3, Zenon
        <5>5. rds[idx[i - Len(jobs)]].id < rds[idx[j - Len(jobs)]].id
          BY <1>6, <2>4, <5>1, <5>3, <5>4, Zenon
        <5> QED BY <1>9, <5>1, <5>3, <5>5, Zenon
      <4> QED BY <4>1, <4>2, Zenon
    <3>4. ASSUME NEW q \in Promises, NEW i \in 1..Len(strt[q]), NEW j \in 1..Len(job_list'), From(q, job_list'[j])
          PROVE  strt[q][i] < job_list'[j].id
      <4>1. CASE j \in 1..Len(jobs)
        BY <1>10, <2>1, <3>4, <4>1, Zenon DEF SortedOK
      <4>2. CASE j \notin 1..Len(jobs)
        <5>1. q = p
          BY <1>9, <1>10, <3>4, <4>2, SMTT(30) DEF From
        <5> QED BY <2>2, <3>4, <5>1, SMTT(30)
      <4> QED BY <4>1, <4>2, Zenon
    <3>5. (\A q \in Promises : started[q] # <<>> => Settled(q))'
      BY <1>1, <1>2, <2>1, Zenon DEF SortedOK, Settled, StateOf, TypeAt
    <3> QED BY <3>1, <3>2, <3>3, <3>4, <3>5, Zenon DEF SortedOK, From
  <2>8. ASSUME NEW q \in Promises, NEW id \in Pairs
        PROVE  (Accounted(q, id, job_list, started) <=> Added(q, id) /\ id \notin lost)'
    <3>1. Accounted(q, id, jobs, strt) <=> Added(q, id) /\ id \notin lost
      BY <2>1, Zenon DEF AccountedOK
    <3>2. Added(q, id)' <=> Added(q, id)
      BY Zenon DEF Added
    <3>3. CASE q # p
      <4>1. (\E k \in 1..Len(job_list') : From(q, job_list'[k]) /\ job_list'[k].id = id)
              <=> (\E k \in 1..Len(jobs) : From(q, jobs[k]) /\ jobs[k].id = id)
        <5>1. ASSUME NEW k \in 1..Len(job_list'), From(q, job_list'[k]) PROVE k \in 1..Len(jobs)
          BY <1>9, <1>10, <3>3, <5>1, SMTT(30) DEF From
        <5>2. \A k \in 1..Len(jobs) : k \in 1..Len(job_list')
          BY <1>10, <1>6
        <5> QED BY <1>10, <5>1, <5>2, Zenon
      <4>2. Accounted(q, id, job_list, started)' <=> Accounted(q, id, jobs, strt)
        BY <2>5, <3>3, <4>1, ZenonT(40) DEF Accounted, From
      <4>3. Added(q, id) => (id \in lost' <=> id \in lost)
        <5> SUFFICES ASSUME Added(q, id), NEW i \in 1..Len(rds), rds[i].id = id PROVE FALSE
          BY <1>3, Zenon
        <5>1. Accounted(p, id, jobs, strt)
          BY Zenon DEF Accounted
        <5>2. Added(p, id)
          BY <1>1, <2>1, <5>1, Zenon DEF AccountedOK
        <5> QED BY <1>1, <2>1, <3>3, <5>2 DEF AddedOK, Added
      <4> QED BY <3>1, <3>2, <4>2, <4>3, Zenon
    <3>4. CASE q = p
      <4>1. Accounted(p, id, jobs, strt) <=> \E k \in 1..Len(rds) : rds[k].id = id
        BY <2>2 DEF Accounted
      <4>2. Accounted(p, id, job_list, started)' <=> \E n \in 1..m : rds[idx[n]].id = id
        <5>1. ASSUME Accounted(p, id, job_list, started)' PROVE \E n \in 1..m : rds[idx[n]].id = id
          <6>1. PICK k \in 1..Len(job_list') : From(p, job_list'[k]) /\ job_list'[k].id = id
            BY <2>2, <2>6, <5>1 DEF Accounted, From
          <6>2. k \notin 1..Len(jobs)
            BY <1>10, <2>2, <6>1, Zenon
          <6> QED BY <1>9, <1>10, <6>1, <6>2, ZenonT(40)
        <5>2. ASSUME NEW n \in 1..m, rds[idx[n]].id = id PROVE Accounted(p, id, job_list, started)'
          <6>1. n + Len(jobs) \in 1..Len(job_list') /\ n + Len(jobs) \notin 1..Len(jobs) /\ (n + Len(jobs)) - Len(jobs) = n
            BY <1>6, <1>10
          <6>2. job_list'[n + Len(jobs)] = new[n]
            BY <1>10, <6>1, Zenon
          <6>3. From(p, job_list'[n + Len(jobs)]) /\ job_list'[n + Len(jobs)].id = id
            BY <1>9, <5>2, <6>2, Zenon DEF From
          <6> QED BY <6>1, <6>3, Zenon DEF Accounted, From
        <5> QED BY <5>1, <5>2, Zenon
      <4>3. \A i, j \in 1..Len(rds) : rds[i].id = rds[j].id => i = j
        <5> SUFFICES ASSUME NEW i \in 1..Len(rds), NEW j \in 1..Len(rds), rds[i].id = rds[j].id, i # j PROVE FALSE
          BY Zenon
        <5>1. rds[i].id \in Int
          BY <1>4, ReactionFields, SMTT(30) DEF Pairs
        <5>2. i < j \/ j < i
          BY <1>4
        <5> QED BY <2>4, <5>1, <5>2
      <4>4. ASSUME NEW n \in 1..m, rds[idx[n]].id = id PROVE Added(p, id) /\ id \notin lost'
        <5>1. Added(p, id) /\ id \notin lost
          BY <1>6, <3>1, <3>4, <4>1, <4>4, Zenon
        <5>2. ASSUME NEW i \in 1..Len(rds) \ {idx[a] : a \in DOMAIN idx}, rds[i].id = id PROVE FALSE
          BY <1>6, <4>3, <4>4, <5>2, ZenonT(40)
        <5> QED BY <1>3, <5>1, <5>2, Zenon
      <4>5. ASSUME Added(p, id), id \notin lost' PROVE \E n \in 1..m : rds[idx[n]].id = id
        <5>1. PICK k \in 1..Len(rds) : rds[k].id = id
          BY <1>3, <3>1, <3>4, <4>1, <4>5, Zenon
        <5>2. k \in {idx[a] : a \in DOMAIN idx}
          BY <1>3, <4>5, <5>1, Zenon
        <5> QED BY <1>6, <5>1, <5>2, Zenon
      <4> QED BY <3>2, <3>4, <4>2, <4>4, <4>5, ZenonT(40)
    <3> QED BY <3>3, <3>4, Zenon
  <2> QED BY <2>3, <2>7, <2>8, Zenon DEF OrderOK, AccountedOK
<1>15. AdoptOK(job_list, stack)'
  <2> SUFFICES ASSUME NEW q \in Promises, adopts[q] # 0 PROVE Adopted(q, job_list, stack)'
    BY Zenon DEF AdoptOK, Adopted
  <2> DEFINE a == adopts[q]
  <2>1. a \in Promises
    BY <1>1, Zenon DEF TypeAt
  <2>2. \A s \in Promises : s # p => promise_state'[s] = promise_state[s] /\ promise_result'[s] = promise_result[s]
    BY <1>1, <1>2, Zenon DEF TypeAt
  <2>3. LooksAgain(a) => LooksAgain(a)'
    BY <1>1, <2>1, <2>2, Zenon DEF LooksAgain, Settled
  <2>4. CASE q = p
    <3>1. CASE LooksAgain(a)
      BY <2>3, <3>1, Zenon DEF Adopted
    <3>2. CASE Settled(a) /\ promise_state[a] = StateOf(r) /\ promise_result[a] = v
      <4>1. a # p
        BY <1>1, <3>2, Zenon DEF Settled
      <4>2. promise_state'[p] = StateOf(r) /\ promise_result'[p] = v
        BY <1>1, <1>2, Zenon DEF TypeAt
      <4>3. SettledAs(q, a)'
        BY <2>1, <2>2, <2>4, <3>2, <4>1, <4>2, Zenon DEF SettledAs, Settled, StateOf
      <4> QED BY <4>3, Zenon DEF Adopted
    <3> QED BY <2>4, <3>1, <3>2, Zenon DEF Follows
  <2>5. CASE q # p
    <3>1. Adopted(q, jobs, stk)
      BY <2>5, Zenon DEF Decides
    <3>2. CASE Stuck(q)
      <4>1. Stuck(q)'
        BY <1>2, <2>2, <2>5, <3>2, Zenon DEF Stuck
      <4> QED BY <4>1, Zenon DEF Adopted
    <3>3. CASE JobWaits(q, a, jobs)
      <4>1. PICK k \in 1..Len(jobs) : jobs[k] = ThenableJob(q, a)
        BY <3>3, Zenon DEF JobWaits
      <4>2. k \in 1..Len(job_list') /\ job_list'[k] = ThenableJob(q, a)
        BY <1>6, <1>10, <4>1
      <4>3. JobWaits(q, a, job_list)'
        BY <4>2, Zenon DEF JobWaits, ThenableJob
      <4> QED BY <4>3, Zenon DEF Adopted
    <3>4. CASE PairWaits(q, a, jobs, stk)
      <4>1. PICK g \in Pairs : promise[g] = q /\ ~already_resolved[g] /\ OnlyFrom(a, g, jobs, stk)
        BY <3>4, Zenon DEF PairWaits
      <4>2. promise'[g] = q /\ ~already_resolved'[g]
        BY <1>1, <2>5, <4>1, ZenonT(40) DEF TypeAt
      <4>3. OnlyFrom(a, g, job_list, stack)'
        <5>1. \A k \in 1..Len(job_list') : job_list'[k].kind = "reaction" =>
                 /\ job_list'[k].cap # g
                 /\ job_list'[k].handler.f = g => job_list'[k].from = a /\ job_list'[k].handler = Function(g, job_list'[k].is_reject)
          <6> SUFFICES ASSUME NEW k \in 1..Len(job_list'), job_list'[k].kind = "reaction"
                       PROVE  /\ job_list'[k].cap # g
                              /\ job_list'[k].handler.f = g => job_list'[k].from = a /\ job_list'[k].handler = Function(g, job_list'[k].is_reject)
            BY Zenon
          <6>1. CASE k \in 1..Len(jobs)
            BY <1>10, <4>1, <6>1, ZenonT(40) DEF OnlyFrom
          <6>2. CASE k \notin 1..Len(jobs)
            <7>1. PICK n \in 1..m : job_list'[k] = new[n]
              BY <1>10, <6>2, Zenon
            <7>2. /\ rds[idx[n]].cap # g
                  /\ rds[idx[n]].handler[r].f = g => p = a /\ rds[idx[n]].handler[r] = Function(g, r)
              BY <1>1, <1>6, <4>1, Zenon DEF OnlyFrom
            <7> QED BY <1>9, <7>1, <7>2, ZenonT(40)
          <6> QED BY <6>1, <6>2, Zenon
        <5>2. \A s \in Promises : \A k \in 1..Len(promise_reactions'[s]) : \A i \in 0..1 :
                 /\ promise_reactions'[s][k].cap # g
                 /\ promise_reactions'[s][k].handler[i].f = g => s = a /\ promise_reactions'[s][k].handler[i] = Function(g, i)
          <6> SUFFICES ASSUME NEW s \in Promises, NEW k \in 1..Len(promise_reactions'[s]), NEW i \in 0..1
                       PROVE  /\ promise_reactions'[s][k].cap # g
                              /\ promise_reactions'[s][k].handler[i].f = g =>
                                     s = a /\ promise_reactions'[s][k].handler[i] = Function(g, i)
            BY Zenon
          <6>1. k \in 1..Len(promise_reactions[s]) /\ promise_reactions'[s][k] = promise_reactions[s][k]
            BY <1>1, <1>2 DEF TypeAt
          <6>2. /\ promise_reactions[s][k].cap # g
                /\ promise_reactions[s][k].handler[i].f = g =>
                       s = a /\ promise_reactions[s][k].handler[i] = Function(g, i)
            BY <4>1, <6>1, Zenon DEF OnlyFrom
          <6> QED BY <6>1, <6>2, Zenon
        <5>3. g \notin given' /\ \A k \in 1..Len(stack') : stack'[k].f # g
          BY <4>1, Zenon DEF OnlyFrom
        <5>4. adopts'[q] = a
          BY Zenon
        <5> QED BY <5>1, <5>2, <5>3, <5>4 DEF OnlyFrom
      <4>4. PairWaits(q, a, job_list, stack)'
        BY <4>2, <4>3, Zenon DEF PairWaits
      <4> QED BY <4>4, Zenon DEF Adopted
    <3>5. CASE LooksAgain(a)
      BY <2>3, <3>5 DEF Adopted
    <3>6. CASE SettledAs(q, a)
      <4>1. a # p
        BY <1>1, <3>6, Zenon DEF SettledAs, Settled
      <4>2. SettledAs(q, a)'
        BY <2>1, <2>2, <2>5, <3>6, <4>1, Zenon DEF SettledAs, Settled
      <4> QED BY <4>2 DEF Adopted
    <3> QED BY <3>1, <3>2, <3>3, <3>4, <3>5, <3>6, Zenon DEF Adopted
  <2> QED BY <2>4, <2>5, Zenon
<1> QED BY <1>11, <1>12, <1>13, <1>14, <1>15, Zenon DEF IInv, At

-----------------------------------------------------------------------------
(* A promise is resolved with something that has, or may have, a then      *)
(* method.                                                                  *)

\* A thenable job is queued for the promise of f, or cannot be.
LEMMA EnqueueStep ==
  ASSUME NEW f, NEW t \in Promises \cup Objects, NEW jobs, NEW stk, NEW strt,
         Decides(f, jobs, stk, strt),
         Exists(t),
         EnqueueThenable(promise[f], t, jobs),
         already_resolved' = [already_resolved EXCEPT ![f] = TRUE],
         stack' = stk, started' = strt, UNCHANGED <<promise, given, order>>,
         \/ t \in Promises /\ adopts' = [adopts EXCEPT ![promise[f]] = t]
         \/ t \notin Promises /\ adopts' = adopts /\ (adopts[promise[f]] # 0 => LooksAgain(adopts[promise[f]]))
  PROVE  IInv'
<1> DEFINE p == promise[f]
           job == ThenableJob(p, t)
           queued == job_list' = Append(jobs, job) /\ stranded' = stranded
           dropped == job_list' = jobs /\ stranded' = stranded \cup {p}
<1>1. /\ f \in Pairs /\ p \in Promises /\ promise_state[p] = "pending" /\ p \notin stranded
      /\ TypeAt(jobs, stk, strt) /\ RefsOK(jobs, stk) /\ OrderOK(jobs, strt)
  BY Zenon DEF Decides, TypeAt, Live
<1>2. UNCHANGED <<promise_state, promise_result, promise_reactions, lost>> /\ (queued \/ dropped)
  BY Zenon DEF EnqueueThenable, promiseVars
<1>3. job \in Jobs /\ job.kind = "thenable" /\ job.promise = p /\ job.thenable = t
  BY <1>1, ThenableJobFields
<1> HIDE DEF job
<1>4. /\ jobs \in Seq(Jobs) /\ Len(jobs) \in Nat /\ job_list' \in Seq(Jobs)
      /\ \A k \in 1..Len(jobs) : k \in 1..Len(job_list') /\ job_list'[k] = jobs[k]
      /\ \A k \in 1..Len(job_list') : k \notin 1..Len(jobs) => job_list'[k] = job
  <2>1. jobs \in Seq(Jobs) /\ Len(jobs) \in Nat
    BY <1>1 DEF TypeAt
  <2>2. CASE queued
    BY <1>3, <2>1, <2>2
  <2>3. CASE dropped
    BY <2>1, <2>3, Zenon
  <2> QED BY <1>2, <2>1, <2>2, <2>3, Zenon
<1>5. \A q \in Promises : q # p => adopts'[q] = adopts[q]
  BY <1>1, Zenon DEF TypeAt
<1>6. TypeAt(job_list, stack, started)'
  <2>1. (adopts \in [Promises -> Promises \cup {0}])'
    BY <1>1, ZenonT(40) DEF TypeAt
  <2>2. (already_resolved \in [Pairs -> BOOLEAN])' /\ (stranded \subseteq Promises)'
    BY <1>1, <1>2, Zenon DEF TypeAt
  <2> QED BY <1>1, <1>2, <1>4, <2>1, <2>2, Zenon DEF TypeAt
<1>7. RefsOK(job_list, stack)'
  <2>1. PromiseOK /\ (\A k \in 1..Len(stk) : FrameOK(stk[k])) /\ (\A k \in 1..Len(jobs) : JobOK(jobs[k]))
    BY <1>1, Zenon DEF RefsOK
  <2>2. PromiseOK'
    <3>1. (\A q \in Promises : adopts[q] # 0 => promise_state[q] # "none" /\ promise_state[adopts[q]] # "none")'
      <4> SUFFICES ASSUME NEW q \in Promises, adopts'[q] # 0
                   PROVE  promise_state[q] # "none" /\ promise_state[adopts'[q]] # "none"
        BY <1>2, Zenon
      <4>1. CASE adopts'[q] = adopts[q]
        BY <2>1, <4>1, Zenon DEF PromiseOK
      <4>2. CASE adopts'[q] # adopts[q]
        <5>1. q = p /\ t \in Promises /\ adopts'[q] = t
          BY <1>1, <1>5, <4>2, Zenon DEF TypeAt
        <5> QED BY <1>1, <5>1, Zenon DEF Exists
      <4> QED BY <4>1, <4>2, Zenon
    <3>2. (\A q \in stranded : promise_state[q] # "none")'
      BY <1>1, <1>2, <2>1, Zenon DEF PromiseOK
    <3>3. (\A q \in Promises : \A k \in 1..Len(promise_reactions[q]) : ReactionOK(q, promise_reactions[q][k]))'
      BY <1>2, <2>1, ZenonT(40) DEF PromiseOK, ReactionOK, Pair, HandlerOK
    <3>4. (\A q \in Promises : Exists(promise_result[q]))'
      BY <1>2, <2>1, Zenon DEF PromiseOK, Exists
    <3>5. (\A g \in Pairs : promise[g] = 0 => ~already_resolved[g])'
      <4>1. promise[f] # 0 /\ already_resolved \in [Pairs -> BOOLEAN]
        BY <1>1, Zenon DEF Decides, TypeAt
      <4> QED BY <1>1, <2>1, <4>1, Zenon DEF PromiseOK
    <3> QED BY <1>2, <2>1, <3>1, <3>2, <3>3, <3>4, <3>5, Zenon DEF PromiseOK
  <2>3. (\A k \in 1..Len(stack) : FrameOK(stack[k]))'
    <3> SUFFICES ASSUME NEW k \in 1..Len(stk) PROVE FrameOK(stack[k])'
      BY Zenon
    <3>1. FrameOK(stk[k])
      BY <2>1, Zenon
    <3>2. \A g \in Pairs : already_resolved[g] => already_resolved'[g]
      BY <1>1, Zenon DEF TypeAt
    <3> QED BY <3>1, <3>2, Zenon DEF FrameOK, Pair
  <2>4. (\A k \in 1..Len(job_list) : JobOK(job_list[k]))'
    <3> SUFFICES ASSUME NEW k \in 1..Len(job_list') PROVE JobOK(job_list[k])'
      BY Zenon
    <3>1. CASE k \in 1..Len(jobs)
      BY <1>2, <1>4, <2>1, <3>1 DEF JobOK, Exists, Pair, HandlerOK
    <3>2. CASE k \notin 1..Len(jobs)
      BY <1>1, <1>2, <1>3, <1>4, <3>2, Zenon DEF JobOK, Exists
    <3> QED BY <3>1, <3>2, Zenon
  <2> QED BY <2>2, <2>3, <2>4, Zenon DEF RefsOK
<1>8. ResolverOK(job_list, stack)'
  <2>1. \A q \in Promises : GettersFor(q)' = GettersFor(q) /\ ThenablesFor(q)' = ThenablesFor(q)
    BY Zenon DEF GettersFor, ThenablesFor
  <2>2. ASSUME NEW q \in Promises PROVE ResolverAt(q, job_list, stack)'
    <3>1. CASE q = p
      <4>1. NoPair(p)'
        BY <1>1, Zenon DEF NoPair, Decides, TypeAt
      <4>2. NoneIn(jobs, ThenablesFor(p)) /\ NoneIn(stack', GettersFor(p)')
        BY <1>1, <2>1, Zenon DEF Decides
      <4>3. CASE queued
        <5>1. Live(p)'
          BY <1>1, <1>2, <4>3, Zenon DEF Live
        <5>2. job \in ThenablesFor(p)
          BY <1>1, <1>3, ThenableIn, ZenonT(40)
        <5>3. OneIn(Append(jobs, job), ThenablesFor(p))
          BY <1>3, <1>4, <4>2, <5>2, AppendCount
        <5>4. OneIn(job_list', ThenablesFor(p)')
          BY <2>1, <4>3, <5>3, <1>1, Zenon
        <5> QED BY <3>1, <4>1, <4>2, <5>1, <5>4, Zenon DEF ResolverAt, ExactlyOne, NoneIn, OneIn
      <4>4. CASE dropped
        <5>1. ~Live(p)'
          BY <4>4, Zenon DEF Live
        <5>2. NoneIn(job_list', ThenablesFor(p)')
          BY <2>1, <4>2, <4>4, <1>1, Zenon
        <5> QED BY <3>1, <4>1, <4>2, <5>1, <5>2, Zenon DEF ResolverAt, NoResolver, NoneIn
      <4> QED BY <1>2, <4>3, <4>4, Zenon
    <3>2. CASE q # p
      <4>1. ResolverAt(q, jobs, stk)
        BY <3>2, Zenon DEF Decides
      <4>2. Live(q)' <=> Live(q)
        BY <1>2, <3>2, Zenon DEF Live
      <4>3. (NoPair(q)' <=> NoPair(q)) /\ (OnePair(q)' <=> OnePair(q))
        <5>1. \A g \in Pairs : promise[g] = q => already_resolved'[g] = already_resolved[g]
          BY <1>1, <3>2, ZenonT(40) DEF TypeAt
        <5> QED BY <5>1, ZenonT(40) DEF NoPair, OnePair
      <4>4. /\ NoneIn(job_list', ThenablesFor(q)) <=> NoneIn(jobs, ThenablesFor(q))
            /\ OneIn(job_list', ThenablesFor(q)) <=> OneIn(jobs, ThenablesFor(q))
        <5>1. job \notin ThenablesFor(q)
          BY <1>3, <3>2, ThenableIn, Zenon
        <5>2. CASE queued
          <6>1. /\ NoneIn(Append(jobs, job), ThenablesFor(q)) <=> NoneIn(jobs, ThenablesFor(q))
                /\ OneIn(Append(jobs, job), ThenablesFor(q)) <=> OneIn(jobs, ThenablesFor(q))
            BY <1>3, <1>4, <5>1, AppendCount, Zenon
          <6> QED BY <5>2, <6>1, Zenon
        <5>3. CASE dropped
          BY <5>3, Zenon
        <5> QED BY <1>2, <5>2, <5>3, Zenon
      <4> QED BY <2>1, <4>1, <4>2, <4>3, <4>4, Zenon DEF ResolverAt, NoResolver, ExactlyOne
    <3> QED BY <3>1, <3>2, Zenon
  <2> QED BY <2>2, Zenon DEF ResolverOK
<1>9. OrderOK(job_list, started)'
  <2>1. AddedOK /\ SortedOK(jobs, strt) /\ AccountedOK(jobs, strt)
    BY <1>1, Zenon DEF OrderOK
  <2>2. AddedOK'
    BY <1>2, <2>1, Zenon DEF AddedOK, Increasing
  <2>3. \A q \in Promises : \A k \in 1..Len(job_list') : From(q, job_list'[k]) => k \in 1..Len(jobs) /\ From(q, jobs[k])
    BY <1>3, <1>4, Zenon DEF From
  <2>4. SortedOK(job_list, started)'
    <3>1. \A q \in Promises : \A i, j \in 1..Len(job_list') :
             i < j /\ From(q, job_list'[i]) /\ From(q, job_list'[j]) => job_list'[i].id < job_list'[j].id
      BY <1>4, <2>1, <2>3, Zenon DEF SortedOK
    <3>2. \A q \in Promises : \A i \in 1..Len(strt[q]), j \in 1..Len(job_list') :
             From(q, job_list'[j]) => strt[q][i] < job_list'[j].id
      BY <1>4, <2>1, <2>3, Zenon DEF SortedOK
    <3> QED BY <1>2, <2>1, <3>1, <3>2, Zenon DEF SortedOK, From, Increasing, Settled
  <2>5. AccountedOK(job_list, started)'
    <3> SUFFICES ASSUME NEW q \in Promises, NEW id \in Pairs
                 PROVE  (Accounted(q, id, job_list, started) <=> Added(q, id) /\ id \notin lost)'
      BY Zenon DEF AccountedOK
    <3>1. (\E k \in 1..Len(job_list') : From(q, job_list'[k]) /\ job_list'[k].id = id)
            <=> (\E k \in 1..Len(jobs) : From(q, jobs[k]) /\ jobs[k].id = id)
      BY <1>4, <2>3, Zenon
    <3>2. Accounted(q, id, job_list, started)' <=> Accounted(q, id, jobs, strt)
      BY <1>2, <3>1, Zenon DEF Accounted, From
    <3> QED BY <1>2, <2>1, <3>2, Zenon DEF AccountedOK, Added
  <2> QED BY <2>2, <2>4, <2>5, Zenon DEF OrderOK
<1>10. AdoptOK(job_list, stack)'
  <2> SUFFICES ASSUME NEW q \in Promises, adopts'[q] # 0 PROVE Adopted(q, job_list, stack)'
    BY Zenon DEF AdoptOK, Adopted
  <2>1. CASE q = p /\ t \in Promises
    <3>1. adopts'[q] = t
      BY <1>1, <2>1, Zenon DEF TypeAt
    <3>2. CASE queued
      <4>1. Len(job_list') \in 1..Len(job_list') /\ job_list'[Len(job_list')] = ThenableJob(q, adopts'[q])
        BY <1>3, <1>4, <2>1, <3>1, <3>2 DEF job
      <4>2. JobWaits(q, adopts[q], job_list)'
        BY <4>1, Zenon DEF JobWaits, ThenableJob
      <4> QED BY <4>2, Zenon DEF Adopted
    <3>3. CASE dropped
      <4>1. Stuck(q)'
        BY <1>1, <1>2, <2>1, <3>3, Zenon DEF Stuck
      <4> QED BY <4>1, Zenon DEF Adopted
    <3> QED BY <1>2, <3>2, <3>3, Zenon
  <2>2. CASE q = p /\ t \notin Promises
    <3>1. LooksAgain(adopts[q])'
      BY <1>2, <2>2, Zenon DEF LooksAgain, Settled
    <3> QED BY <3>1, Zenon DEF Adopted
  <2>3. CASE q # p
    <3> DEFINE a == adopts[q]
    <3>1. Adopted(q, jobs, stk) /\ adopts'[q] = a
      BY <1>5, <2>3, Zenon DEF Decides
    <3>2. CASE Stuck(q)
      <4>1. Stuck(q)'
        BY <1>2, <3>2, Zenon DEF Stuck
      <4> QED BY <4>1 DEF Adopted
    <3>3. CASE JobWaits(q, a, jobs)
      <4>1. JobWaits(q, adopts[q], job_list)'
        BY <1>4, <3>1, <3>3, Zenon DEF JobWaits, ThenableJob
      <4> QED BY <4>1 DEF Adopted
    <3>4. CASE PairWaits(q, a, jobs, stk)
      <4>1. PICK g \in Pairs : promise[g] = q /\ ~already_resolved[g] /\ OnlyFrom(a, g, jobs, stk)
        BY <3>4, Zenon DEF PairWaits
      <4>2. promise'[g] = q /\ ~already_resolved'[g]
        BY <1>1, <2>3, <4>1, Zenon DEF TypeAt
      <4>3. OnlyFrom(adopts[q], g, job_list, stack)'
        <5>1. \A k \in 1..Len(job_list') : job_list'[k].kind = "reaction" => k \in 1..Len(jobs) /\ job_list'[k] = jobs[k]
          BY <1>3, <1>4, Zenon
        <5>2. g \notin given' /\ \A k \in 1..Len(stack') : stack'[k].f # g
          BY <4>1, Zenon DEF OnlyFrom
        <5>3. promise_reactions' = promise_reactions
          BY <1>2, Zenon
        <5> QED BY <3>1, <4>1, <5>1, <5>2, <5>3, OnlyFromKept, ZenonT(40)
      <4>4. PairWaits(q, adopts[q], job_list, stack)'
        BY <4>2, <4>3, Zenon DEF PairWaits
      <4> QED BY <4>4, Zenon DEF Adopted
    <3>5. CASE LooksAgain(a)
      <4>1. LooksAgain(adopts[q])'
        BY <1>2, <3>1, <3>5, Zenon DEF LooksAgain, Settled
      <4> QED BY <4>1 DEF Adopted
    <3>6. CASE SettledAs(q, a)
      <4>1. SettledAs(q, adopts[q])'
        BY <1>2, <3>1, <3>6, Zenon DEF SettledAs, Settled
      <4> QED BY <4>1, Zenon DEF Adopted
    <3> QED BY <3>1, <3>2, <3>3, <3>4, <3>5, <3>6, Zenon DEF Adopted
  <2> QED BY <2>1, <2>2, <2>3, Zenon
<1> QED BY <1>6, <1>7, <1>8, <1>9, <1>10, Zenon DEF IInv, At

\* The function of f waits for the getter of a then property.
LEMMA GetterStep ==
  ASSUME NEW f, NEW v \in Objects, NEW jobs, NEW stk, NEW strt,
         Decides(f, jobs, stk, strt),
         adopts[promise[f]] # 0 => LooksAgain(adopts[promise[f]]),
         stack' = Append(stk, Frame("getter", f, v)), job_list' = jobs, started' = strt,
         already_resolved' = [already_resolved EXCEPT ![f] = TRUE],
         UNCHANGED <<promiseVars, promise, given, order, lost, stranded, adopts>>
  PROVE  IInv'
<1> DEFINE p == promise[f]
           fr == Frame("getter", f, v)
<1>1. /\ f \in Pairs /\ p \in Promises /\ Live(p)
      /\ TypeAt(jobs, stk, strt) /\ RefsOK(jobs, stk) /\ OrderOK(jobs, strt)
  BY Zenon DEF Decides, TypeAt
<1>2. UNCHANGED <<promise_state, promise_result, promise_reactions>>
  BY Zenon DEF promiseVars
<1>3. fr \in Frames /\ fr.kind = "getter" /\ fr.f = f /\ fr.v = v
  <2>1. f \in Pairs \cup {0} /\ v \in Values /\ "getter" \in JSKinds \cup {"function"}
    BY <1>1, Zenon DEF Values, JSKinds
  <2> QED BY <2>1, Zenon DEF Frame, Frames
<1> HIDE DEF fr
<1>4. /\ stk \in Seq(Frames) /\ Len(stk) \in Nat /\ stack' \in Seq(Frames)
      /\ \A k \in 1..Len(stack') : k \notin 1..Len(stk) => stack'[k] = fr
      /\ \A k \in 1..Len(stk) : k \in 1..Len(stack') /\ stack'[k] = stk[k]
  <2>1. stk \in Seq(Frames) /\ Len(stk) \in Nat
    BY <1>1 DEF TypeAt
  <2>2. stack' = Append(stk, fr)
    BY Zenon DEF fr
  <2> QED BY <1>3, <2>1, <2>2
<1>5. \A g \in Pairs : g # f => already_resolved'[g] = already_resolved[g]
  BY <1>1, Zenon DEF TypeAt
<1>6. already_resolved'[f]
  BY <1>1, Zenon DEF TypeAt
<1>7. TypeAt(job_list, stack, started)'
  <2>1. (already_resolved \in [Pairs -> BOOLEAN])'
    BY <1>1, Zenon DEF TypeAt
  <2> QED BY <1>1, <1>2, <1>4, <2>1, Zenon DEF TypeAt
<1>8. RefsOK(job_list, stack)'
  <2>1. PromiseOK /\ (\A k \in 1..Len(stk) : FrameOK(stk[k])) /\ (\A k \in 1..Len(jobs) : JobOK(jobs[k]))
    BY <1>1, Zenon DEF RefsOK
  <2>2. PromiseOK'
    <3>1. (\A g \in Pairs : promise[g] = 0 => ~already_resolved[g])'
      <4>1. promise[f] # 0 /\ already_resolved \in [Pairs -> BOOLEAN]
        BY <1>1, Zenon DEF Decides, TypeAt
      <4> QED BY <1>1, <2>1, <4>1, Zenon DEF PromiseOK
    <3>2. (\A q \in Promises : \A k \in 1..Len(promise_reactions[q]) : ReactionOK(q, promise_reactions[q][k]))'
      BY <1>2, <2>1, ZenonT(40) DEF PromiseOK, ReactionOK, Pair, HandlerOK
    <3>3. (\A q \in Promises : Exists(promise_result[q]))'
      BY <1>2, <2>1, Zenon DEF PromiseOK, Exists
    <3> QED BY <1>2, <2>1, <3>1, <3>2, <3>3, Zenon DEF PromiseOK
  <2>3. (\A k \in 1..Len(stack) : FrameOK(stack[k]))'
    <3> SUFFICES ASSUME NEW k \in 1..Len(stack') PROVE FrameOK(stack[k])'
      BY Zenon
    <3>1. CASE k \in 1..Len(stk)
      <4>1. FrameOK(stk[k]) /\ stack'[k] = stk[k]
        BY <1>4, <2>1, <3>1, Zenon
      <4>2. \A g \in Pairs : already_resolved[g] => already_resolved'[g]
        BY <1>1, Zenon DEF TypeAt
      <4> QED BY <4>1, <4>2, Zenon DEF FrameOK, Pair
    <3>2. CASE k \notin 1..Len(stk)
      <4>1. stack'[k] = fr /\ promise'[f] # 0
        BY <1>4, <3>2, Zenon DEF Decides
      <4> QED BY <1>1, <1>3, <1>6, <4>1, Zenon DEF FrameOK, Pair
    <3> QED BY <3>1, <3>2, Zenon
  <2>4. (\A k \in 1..Len(job_list) : JobOK(job_list[k]))'
    BY <1>2, <2>1, Zenon DEF JobOK, Exists, Pair, HandlerOK
  <2> QED BY <2>2, <2>3, <2>4, Zenon DEF RefsOK
<1>9. ResolverOK(job_list, stack)'
  <2>1. \A q \in Promises : /\ GettersFor(q)' = GettersFor(q) /\ ThenablesFor(q)' = ThenablesFor(q)
                            /\ Live(q)' <=> Live(q)
    BY <1>2, Zenon DEF GettersFor, ThenablesFor, Live
  <2>2. ASSUME NEW q \in Promises PROVE ResolverAt(q, job_list, stack)'
    <3>1. stack' = Append(stk, fr)
      BY Zenon DEF fr
    <3>2. CASE q = p
      <4>1. NoPair(p)'
        BY <1>1, <1>5, <1>6, Zenon DEF NoPair, Decides
      <4>2. NoneIn(jobs, ThenablesFor(p)) /\ NoneIn(stk, GettersFor(p))
        BY Zenon DEF Decides
      <4>3. fr \in GettersFor(p)
        BY <1>3, Zenon DEF GettersFor
      <4>4. OneIn(Append(stk, fr), GettersFor(p))
        BY <1>3, <1>4, <4>2, <4>3, AppendCount
      <4>5. OneIn(stack', GettersFor(p)') /\ NoneIn(job_list', ThenablesFor(p)')
        BY <1>1, <2>1, <3>1, <4>2, <4>4, Zenon
      <4>6. Live(p)'
        BY <1>1, <2>1, Zenon
      <4> QED BY <3>2, <4>1, <4>5, <4>6, Zenon DEF ResolverAt, ExactlyOne, NoneIn, OneIn
    <3>3. CASE q # p
      <4>1. ResolverAt(q, jobs, stk)
        BY <3>3, Zenon DEF Decides
      <4>2. (NoPair(q)' <=> NoPair(q)) /\ (OnePair(q)' <=> OnePair(q))
        <5>1. \A g \in Pairs : promise[g] = q => already_resolved'[g] = already_resolved[g]
          BY <1>5, <3>3, ZenonT(40)
        <5> QED BY <5>1, ZenonT(40) DEF NoPair, OnePair
      <4>3. fr \notin GettersFor(q)
        BY <1>3, <3>3, Zenon DEF GettersFor
      <4>4. /\ NoneIn(Append(stk, fr), GettersFor(q)) <=> NoneIn(stk, GettersFor(q))
            /\ OneIn(Append(stk, fr), GettersFor(q)) <=> OneIn(stk, GettersFor(q))
        BY <1>3, <1>4, <4>3, AppendCount, Zenon
      <4>5. /\ NoneIn(stack', GettersFor(q)) <=> NoneIn(stk, GettersFor(q))
            /\ OneIn(stack', GettersFor(q)) <=> OneIn(stk, GettersFor(q))
        BY <3>1, <4>4, Zenon
      <4> QED BY <2>1, <4>1, <4>2, <4>5, Zenon DEF ResolverAt, NoResolver, ExactlyOne
    <3> QED BY <3>2, <3>3, Zenon
  <2> QED BY <2>2, Zenon DEF ResolverOK
<1>10. OrderOK(job_list, started)'
  <2>1. UNCHANGED <<promise_state, promise_reactions, promise, order, lost>>
    BY <1>2, Zenon
  <2> QED BY <1>1, <2>1, OrderKept, ZenonT(40)
<1>11. AdoptOK(job_list, stack)'
  <2> SUFFICES ASSUME NEW q \in Promises, adopts'[q] # 0 PROVE Adopted(q, job_list, stack)'
    BY Zenon DEF AdoptOK, Adopted
  <2> DEFINE a == adopts[q]
  <2>1. /\ Stuck(q)' <=> Stuck(q)
        /\ JobWaits(q, adopts[q], job_list)' <=> JobWaits(q, a, jobs)
        /\ LooksAgain(adopts[q])' <=> LooksAgain(a)
        /\ SettledAs(q, adopts[q])' <=> SettledAs(q, a)
    BY <1>2, Zenon DEF Stuck, JobWaits, LooksAgain, SettledAs, Settled, ThenableJob
  <2>2. CASE q = p
    BY <2>1, <2>2, Zenon DEF Adopted
  <2>3. CASE q # p
    <3>1. Adopted(q, jobs, stk)
      BY <2>3, Zenon DEF Decides
    <3>2. ASSUME PairWaits(q, a, jobs, stk) PROVE PairWaits(q, adopts[q], job_list, stack)'
      <4>1. PICK g \in Pairs : promise[g] = q /\ ~already_resolved[g] /\ OnlyFrom(a, g, jobs, stk)
        BY <3>2, Zenon DEF PairWaits
      <4>2. g # f /\ promise'[g] = q /\ ~already_resolved'[g]
        BY <1>5, <2>3, <4>1, Zenon
      <4>3. OnlyFrom(adopts[q], g, job_list, stack)'
        <5>1. \A k \in 1..Len(stack') : stack'[k].f # g
          BY <1>3, <1>4, <4>1, <4>2 DEF OnlyFrom
        <5>2. job_list' = jobs /\ promise_reactions' = promise_reactions /\ given' = given /\ adopts'[q] = a
          BY <1>2, Zenon
        <5>3. g \notin given'
          BY <4>1, <5>2, Zenon DEF OnlyFrom
        <5>4. \A k \in 1..Len(job_list') :
                 job_list'[k].kind = "reaction" => k \in 1..Len(jobs) /\ job_list'[k] = jobs[k]
          BY <5>2, Zenon
        <5> QED BY <4>1, <5>1, <5>2, <5>3, <5>4, OnlyFromKept, ZenonT(40)
      <4> QED BY <4>2, <4>3, Zenon DEF PairWaits
    <3> QED BY <2>1, <3>1, <3>2, Zenon DEF Adopted
  <2> QED BY <2>2, <2>3, Zenon
<1> QED BY <1>7, <1>8, <1>9, <1>10, <1>11, Zenon DEF IInv, At

-----------------------------------------------------------------------------
(* A resolving function is called.                                          *)

\* A pair that is not resolved alone decides about its promise.
LEMMA Unresolved ==
  ASSUME NEW f \in Pairs, NEW jobs, NEW stk, NEW strt,
         At(jobs, stk, strt), promise[f] # 0, ~already_resolved[f]
  PROVE  Decides(f, jobs, stk, strt)
<1> DEFINE p == promise[f]
<1>1. p \in Promises /\ TypeAt(jobs, stk, strt) /\ RefsOK(jobs, stk) /\ OrderOK(jobs, strt)
  BY Zenon DEF At, TypeAt
<1>2. ResolverAt(p, jobs, stk) /\ \A q \in Promises : ResolverAt(q, jobs, stk) /\ Adopted(q, jobs, stk)
  BY <1>1, Zenon DEF At, ResolverOK, AdoptOK
<1>3. ~NoPair(p)
  BY Zenon DEF NoPair
<1>4. Live(p) /\ OnePair(p) /\ NoneIn(jobs, ThenablesFor(p)) /\ NoneIn(stk, GettersFor(p))
  BY <1>2, <1>3, Zenon DEF ResolverAt, NoResolver, ExactlyOne
<1>5. \A g \in Pairs : promise[g] = p /\ g # f => already_resolved[g]
  BY <1>4, Zenon DEF OnePair
<1> QED BY <1>1, <1>2, <1>4, <1>5, Zenon DEF Decides

\* The rest stays as it is.
LEMMA Unchanged ==
  ASSUME NEW jobs, NEW stk, NEW strt, At(jobs, stk, strt),
         job_list' = jobs, stack' = stk, started' = strt,
         UNCHANGED <<promise_state, promise_result, promise_reactions, promise, already_resolved, given,
                     order, lost, stranded, adopts>>
  PROVE  IInv'
<1>1. TypeAt(job_list, stack, started)'
  BY Zenon DEF At, TypeAt
<1>2. RefsOK(job_list, stack)'
  <2>1. RefsOK(jobs, stk)
    BY Zenon DEF At
  <2>2. PromiseOK'
    BY <2>1, ZenonT(40) DEF RefsOK, PromiseOK, ReactionOK, HandlerOK, Pair, Exists
  <2>3. \A k \in 1..Len(stk) : FrameOK(stk[k])'
    BY <2>1, Zenon DEF RefsOK, FrameOK, Pair
  <2>4. \A k \in 1..Len(jobs) : JobOK(jobs[k])'
    BY <2>1, Zenon DEF RefsOK, JobOK, HandlerOK, Pair, Exists
  <2> QED BY <2>2, <2>3, <2>4 DEF RefsOK, JobOK, FrameOK
<1>3. ResolverOK(job_list, stack)'
  <2> SUFFICES ASSUME NEW q \in Promises PROVE ResolverAt(q, job_list, stack)'
    BY Zenon DEF ResolverOK
  <2>1. ResolverAt(q, jobs, stk)
    BY Zenon DEF At, ResolverOK
  <2>2. GettersFor(q)' = GettersFor(q) /\ ThenablesFor(q)' = ThenablesFor(q)
    BY Zenon DEF GettersFor, ThenablesFor
  <2>3. (NoPair(q)' <=> NoPair(q)) /\ (OnePair(q)' <=> OnePair(q)) /\ (Live(q)' <=> Live(q))
    BY Zenon DEF NoPair, OnePair, Live
  <2> QED BY <2>1, <2>2, <2>3 DEF ResolverAt, NoResolver, ExactlyOne, NoneIn, OneIn
<1>4. OrderOK(job_list, started)'
  <2>1. UNCHANGED <<promise_state, promise_reactions, promise, order, lost>>
    BY Zenon
  <2>2. OrderOK(jobs, strt)
    BY Zenon DEF At
  <2> QED BY <2>1, <2>2, OrderKept, ZenonT(40)
<1>5. AdoptOK(job_list, stack)'
  <2> SUFFICES ASSUME NEW q \in Promises PROVE Adopted(q, job_list, stack)'
    BY Zenon DEF AdoptOK
  <2>1. Adopted(q, jobs, stk)
    BY Zenon DEF At, AdoptOK
  <2>2. /\ Stuck(q)' <=> Stuck(q)
        /\ JobWaits(q, adopts[q], job_list)' <=> JobWaits(q, adopts[q], jobs)
        /\ LooksAgain(adopts[q])' <=> LooksAgain(adopts[q])
        /\ SettledAs(q, adopts[q])' <=> SettledAs(q, adopts[q])
    BY Zenon DEF Stuck, JobWaits, LooksAgain, SettledAs, Settled, ThenableJob
  <2>3. ASSUME PairWaits(q, adopts[q], jobs, stk) PROVE PairWaits(q, adopts[q], job_list, stack)'
    <3>1. PICK g \in Pairs : promise[g] = q /\ ~already_resolved[g] /\ OnlyFrom(adopts[q], g, jobs, stk)
      BY <2>3, Zenon DEF PairWaits
    <3>2. adopts'[q] = adopts[q] /\ g \notin given' /\ \A k \in 1..Len(stack') : stack'[k].f # g
      BY <3>1, Zenon DEF OnlyFrom
    <3>3. /\ \A k \in 1..Len(job_list') :
                job_list'[k].kind = "reaction" => k \in 1..Len(jobs) /\ job_list'[k] = jobs[k]
          /\ promise_reactions' = promise_reactions
      BY Zenon
    <3>4. OnlyFrom(adopts[q], g, job_list, stack)'
      BY <3>1, <3>2, <3>3, OnlyFromKept, ZenonT(40)
    <3> QED BY <3>1, <3>4, Zenon DEF PairWaits
  <2> QED BY <2>1, <2>2, <2>3, Zenon DEF Adopted
<1> QED BY <1>1, <1>2, <1>3, <1>4, <1>5, Zenon DEF IInv, At

\* js_promise_resolve_function_call keeps the invariant, when what it is called
\* with is how the promise that is followed has settled.
LEMMA CallStep ==
  ASSUME NEW f \in Pairs, NEW i \in 0..1, NEW v, NEW jobs, NEW stk, NEW strt,
         At(jobs, stk, strt), promise[f] # 0, Exists(v),
         ~already_resolved[f] => Follows(promise[f], i, v),
         js_promise_resolve_function_call(f, i, v, stk, jobs),
         started' = strt, UNCHANGED <<promise, given, order>>
  PROVE  IInv'
<1> DEFINE p == promise[f]
<1>1. CASE already_resolved[f]
  <2>1. /\ stack' = stk /\ job_list' = jobs
        /\ UNCHANGED <<promise_state, promise_result, promise_reactions, promise, already_resolved, given,
                       order, lost, stranded, adopts>>
    BY <1>1, Zenon DEF js_promise_resolve_function_call, promiseVars
  <2> QED BY <2>1, Unchanged, ZenonT(40)
<1>2. CASE ~already_resolved[f]
  <2>0. Decides(f, jobs, stk, strt) /\ Follows(p, i, v)
    BY <1>2, Unresolved, Zenon
  <2>1. Decides(f, jobs, stk, strt) /\ Follows(p, i, v) /\ p \in Promises
    BY <2>0, Zenon DEF Decides, TypeAt
  <2>2. already_resolved' = [already_resolved EXCEPT ![f] = TRUE]
    BY <1>2, Zenon DEF js_promise_resolve_function_call
  <2>3. \/ /\ i = 1 \/ v \notin Promises \cup Objects
           /\ fulfill_or_reject_promise(p, v, i, jobs) /\ stack' = stk /\ adopts' = adopts
        \/ /\ i = 0 /\ v = p
           /\ fulfill_or_reject_promise(p, TypeError, 1, jobs) /\ stack' = stk /\ adopts' = adopts
        \/ /\ i = 0 /\ v \in Promises \ {p}
           /\ EnqueueThenable(p, v, jobs) /\ stack' = stk /\ adopts' = [adopts EXCEPT ![p] = v]
        \/ /\ i = 0 /\ v \in Objects
           /\ stack' = Append(stk, Frame("getter", f, v)) /\ job_list' = jobs
           /\ UNCHANGED <<promiseVars, lost, stranded, adopts>>
    BY <1>2, Zenon DEF js_promise_resolve_function_call
  <2>4. CASE /\ i = 1 \/ v \notin Promises \cup Objects
             /\ fulfill_or_reject_promise(p, v, i, jobs) /\ stack' = stk /\ adopts' = adopts
    <3>1. i = 0 => v \notin Promises
      BY <2>4
    <3>2. UNCHANGED <<promise, given, order, adopts>>
      BY <2>4, Zenon
    <3> QED BY <2>1, <2>2, <2>4, <3>1, <3>2, SettleStep, ZenonT(40)
  <2>5. CASE /\ i = 0 /\ v = p
             /\ fulfill_or_reject_promise(p, TypeError, 1, jobs) /\ stack' = stk /\ adopts' = adopts
    <3>1. Exists(TypeError) /\ 1 \in 0..1 /\ (1 = 0 => TypeError \notin Promises)
      BY ValueAssumption DEF Exists, Values
    <3>2. Follows(p, 1, TypeError)
      <4> SUFFICES ASSUME adopts[p] # 0, ~LooksAgain(adopts[p]) PROVE FALSE
        BY Zenon DEF Follows
      <4>1. adopts[p] \in Promises /\ promise_state[adopts[p]] = "fulfilled" /\ promise_result[adopts[p]] = p
        BY <2>1, <2>5 DEF Follows, StateOf, At, TypeAt
      <4>2. PromiseOK
        BY Zenon DEF At, RefsOK
      <4> QED BY <2>1, <4>1, <4>2, Zenon DEF PromiseOK
    <3>3. UNCHANGED <<promise, given, order, adopts>>
      BY <2>5, Zenon
    <3> QED BY <2>1, <2>2, <2>5, <3>1, <3>2, <3>3, SettleStep, ZenonT(40)
  <2>6. CASE /\ i = 0 /\ v \in Promises \ {p}
             /\ EnqueueThenable(p, v, jobs) /\ stack' = stk /\ adopts' = [adopts EXCEPT ![p] = v]
    <3>1. v \in Promises \cup Objects /\ v \in Promises
      BY <2>6, Zenon
    <3>2. UNCHANGED <<promise, given, order>>
      BY Zenon
    <3> QED BY <2>1, <2>2, <2>6, <3>1, <3>2, EnqueueStep, ZenonT(40)
  <2>7. CASE /\ i = 0 /\ v \in Objects
             /\ stack' = Append(stk, Frame("getter", f, v)) /\ job_list' = jobs
             /\ UNCHANGED <<promiseVars, lost, stranded, adopts>>
    <3>1. adopts[p] # 0 => LooksAgain(adopts[p])
      BY <2>1, <2>7, Zenon DEF Follows, LooksAgain
    <3>2. UNCHANGED <<promiseVars, promise, given, order, lost, stranded, adopts>>
      BY <2>7, Zenon DEF promiseVars
    <3> QED BY <2>1, <2>2, <2>7, <3>1, <3>2, GetterStep, ZenonT(40)
  <2> QED BY <2>3, <2>4, <2>5, <2>6, <2>7, Zenon
<1> QED BY <1>1, <1>2, Zenon
=============================================================================
