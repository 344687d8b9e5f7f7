---------------------------- MODULE PromiseSteps ----------------------------
(***************************************************************************)
(* The steps of module Promise that call resolving functions or create     *)
(* promises keep the invariant of module PromiseInvariant.                 *)
(***************************************************************************)
EXTENDS PromiseInvariant

-----------------------------------------------------------------------------
\* A promise that follows another has seen it settle with an object, or else its
\* pair is left to the job of a reaction of that promise.
LEMMA Waits ==
  ASSUME NEW f \in Pairs, NEW jobs, NEW stk, NEW strt,
         At(jobs, stk, strt), promise[f] # 0, ~already_resolved[f]
  PROVE  adopts[promise[f]] # 0 => LooksAgain(adopts[promise[f]]) \/ OnlyFrom(adopts[promise[f]], f, jobs, stk)
<1> DEFINE p == promise[f]
           q == adopts[p]
<1> SUFFICES ASSUME q # 0 PROVE LooksAgain(q) \/ OnlyFrom(q, f, jobs, stk)
  BY Zenon
<1>1. Decides(f, jobs, stk, strt)
  BY Unresolved, Zenon
<1>2. p \in Promises /\ Adopted(p, jobs, stk) /\ TypeAt(jobs, stk, strt)
  BY Zenon DEF At, TypeAt, AdoptOK
<1>3. ~Stuck(p) /\ ~SettledAs(p, q)
  BY <1>1, Zenon DEF Decides, Live, Stuck, SettledAs, Settled
<1>4. ~JobWaits(p, q, jobs)
  <2> SUFFICES ASSUME NEW k \in 1..Len(jobs), jobs[k] = ThenableJob(p, q) PROVE FALSE
    BY Zenon DEF JobWaits
  <2>1. jobs[k] \in Jobs /\ jobs[k].kind = "thenable" /\ jobs[k].promise = p
    BY <1>2 DEF TypeAt, ThenableJob
  <2>2. jobs[k] \in ThenablesFor(p)
    BY <1>2, <2>1, ThenableIn, Zenon
  <2> QED BY <1>1, <2>2, Zenon DEF Decides, NoneIn
<1>5. PairWaits(p, q, jobs, stk) => OnlyFrom(q, f, jobs, stk)
  BY <1>1, Zenon DEF PairWaits, Decides
<1> QED BY <1>2, <1>3, <1>4, <1>5, Zenon DEF Adopted

-----------------------------------------------------------------------------
(* A frame or a job is taken off its list.                                  *)

\* What is left below the top of the stack.
\* A sequence without its last elements.
LEMMA FrontSeq ==
  ASSUME NEW S, NEW s, NEW n \in Nat, \A k \in 1..n : s[k] \in S
  PROVE  /\ SubSeq(s, 1, n) \in Seq(S) /\ Len(SubSeq(s, 1, n)) = n
         /\ \A k \in 1..n : SubSeq(s, 1, n)[k] = s[k]
OBVIOUS

LEMMA BelowFacts ==
  ASSUME IInv, stack # <<>>
  PROVE  /\ Len(stack) \in 1..Len(stack) /\ Top \in Frames /\ FrameOK(Top)
         /\ TypeAt(job_list, Below, started)
         /\ RefsOK(job_list, Below)
         /\ \A q \in Promises : Adopted(q, job_list, Below)
         /\ \A q \in Promises :
                /\ NoneIn(stack, GettersFor(q)) <=> NoneIn(Below, GettersFor(q)) /\ Top \notin GettersFor(q)
                /\ OneIn(stack, GettersFor(q)) <=> \/ OneIn(Below, GettersFor(q)) /\ Top \notin GettersFor(q)
                                                   \/ NoneIn(Below, GettersFor(q)) /\ Top \in GettersFor(q)
<1>1. stack \in Seq(Frames) /\ TypeAt(job_list, stack, started) /\ RefsOK(job_list, stack) /\ AdoptOK(job_list, stack)
  BY Zenon DEF IInv, At, TypeAt
<1>2. Len(stack) \in Nat \ {0}
  BY <1>1
<1>3. /\ Below \in Seq(Frames) /\ Len(Below) = Len(stack) - 1
      /\ \A k \in 1..Len(Below) : k \in 1..Len(stack) /\ Below[k] = stack[k]
  <2> DEFINE n == Len(stack) - 1
             b == SubSeq(stack, 1, n)
  <2>1. n \in Nat /\ n < Len(stack) /\ \A k \in 1..n : k \in 1..Len(stack) /\ stack[k] \in Frames
    BY <1>1, <1>2
  <2>2. n \in Int /\ 1 \in Int /\ \A k \in 1..n : stack[k] \in Frames
    BY <2>1
  <2> HIDE DEF n
  <2>3. b \in Seq(Frames) /\ Len(b) = n
    BY <2>1, <2>2, FrontSeq
  <2>4. \A k \in 1..n : b[k] = stack[k]
    BY <2>1, <2>2, FrontSeq
  <2>5. Below = b
    BY Zenon DEF Below, n
  <2> HIDE DEF b
  <2> QED BY <2>1, <2>3, <2>4, <2>5, Zenon DEF n
<1>4. Len(stack) \in 1..Len(stack) /\ Top \in Frames /\ FrameOK(Top)
  BY <1>1, <1>2 DEF Top, RefsOK
<1>5. TypeAt(job_list, Below, started)
  BY <1>1, <1>3, Zenon DEF TypeAt
<1>6. RefsOK(job_list, Below)
  BY <1>1, <1>3, Zenon DEF RefsOK
<1>7. ASSUME NEW q \in Promises PROVE Adopted(q, job_list, Below)
  <2>1. Adopted(q, job_list, stack)
    BY <1>1, Zenon DEF AdoptOK
  <2>2. PairWaits(q, adopts[q], job_list, stack) => PairWaits(q, adopts[q], job_list, Below)
    BY <1>3, SMTT(30) DEF PairWaits, OnlyFrom
  <2> QED BY <2>1, <2>2, Zenon DEF Adopted
<1>8. ASSUME NEW T
      PROVE  /\ NoneIn(stack, T) <=> NoneIn(Below, T) /\ Top \notin T
             /\ OneIn(stack, T) <=> \/ OneIn(Below, T) /\ Top \notin T
                                    \/ NoneIn(Below, T) /\ Top \in T
  <2> DEFINE b == SubSeq(stack, 1, Len(stack) - 1)
             e == stack[Len(stack)]
  <2>1. /\ NoneIn(stack, T) <=> NoneIn(b, T) /\ e \notin T
        /\ OneIn(stack, T) <=> (OneIn(b, T) /\ e \notin T) \/ (NoneIn(b, T) /\ e \in T)
    BY <1>1, FrontCount, ZenonT(40)
  <2> QED BY <2>1, Zenon DEF Below, Top
<1> QED BY <1>4, <1>5, <1>6, <1>7, <1>8, Zenon

\* A call that is not a getter ends.
LEMMA PopFrame ==
  ASSUME IInv, stack # <<>>, Top.kind # "getter"
  PROVE  At(job_list, Below, started)
<1>1. \A q \in Promises : ResolverAt(q, job_list, stack)
  BY Zenon DEF IInv, At, ResolverOK
<1>2. \A q \in Promises : Top \notin GettersFor(q)
  BY Zenon DEF GettersFor
<1>3. ASSUME NEW q \in Promises PROVE ResolverAt(q, job_list, Below)
  <2>1. /\ NoneIn(stack, GettersFor(q)) <=> NoneIn(Below, GettersFor(q))
        /\ OneIn(stack, GettersFor(q)) <=> OneIn(Below, GettersFor(q))
    BY <1>2, BelowFacts, Zenon
  <2> QED BY <1>1, <2>1, Zenon DEF ResolverAt, NoResolver, ExactlyOne
<1>4. OrderOK(job_list, started)
  BY Zenon DEF IInv, At
<1>5. ResolverOK(job_list, Below)
  BY <1>3, Zenon DEF ResolverOK
<1>6. AdoptOK(job_list, Below) /\ TypeAt(job_list, Below, started) /\ RefsOK(job_list, Below)
  BY BelowFacts, Zenon DEF AdoptOK
<1> QED BY <1>4, <1>5, <1>6, Zenon DEF At

\* A getter ends: the pair that waited for it decides about its promise.
LEMMA PopGetter ==
  ASSUME IInv, stack # <<>>, Top.kind = "getter"
  PROVE  /\ Decides(Top.f, job_list, Below, started)
         /\ already_resolved[Top.f] /\ Top.v \in Objects
         /\ adopts[promise[Top.f]] # 0 => LooksAgain(adopts[promise[Top.f]])
<1> DEFINE f == Top.f
           p == promise[f]
<1>1. /\ Top \in Frames /\ FrameOK(Top)
      /\ TypeAt(job_list, Below, started) /\ RefsOK(job_list, Below)
      /\ \A q \in Promises : Adopted(q, job_list, Below)
  BY BelowFacts, Zenon
<1>2. f \in Pairs /\ promise[f] # 0 /\ already_resolved[f] /\ Top.v \in Objects
  BY <1>1, Zenon DEF FrameOK, Pair
<1>3. p \in Promises
  BY <1>1, <1>2, Zenon DEF TypeAt
<1>4. \A q \in Promises : ResolverAt(q, job_list, stack)
  BY Zenon DEF IInv, At, ResolverOK
<1>5. Top \in GettersFor(p) /\ \A q \in Promises : q # p => Top \notin GettersFor(q)
  BY <1>1, Zenon DEF GettersFor
<1>6. Live(p) /\ NoPair(p) /\ NoneIn(job_list, ThenablesFor(p)) /\ NoneIn(Below, GettersFor(p))
  <2>1. /\ NoneIn(stack, GettersFor(p)) <=> NoneIn(Below, GettersFor(p)) /\ Top \notin GettersFor(p)
        /\ OneIn(stack, GettersFor(p)) <=> \/ OneIn(Below, GettersFor(p)) /\ Top \notin GettersFor(p)
                                           \/ NoneIn(Below, GettersFor(p)) /\ Top \in GettersFor(p)
    BY <1>3, BelowFacts, Zenon
  <2>2. ResolverAt(p, job_list, stack)
    BY <1>3, <1>4, Zenon
  <2> QED BY <1>5, <2>1, <2>2, Zenon DEF ResolverAt, NoResolver, ExactlyOne
<1>7. ASSUME NEW q \in Promises, q # p PROVE ResolverAt(q, job_list, Below)
  <2>1. /\ NoneIn(stack, GettersFor(q)) <=> NoneIn(Below, GettersFor(q))
        /\ OneIn(stack, GettersFor(q)) <=> OneIn(Below, GettersFor(q))
    BY <1>5, <1>7, BelowFacts, Zenon
  <2> QED BY <1>4, <2>1, Zenon DEF ResolverAt, NoResolver, ExactlyOne
<1>8. OrderOK(job_list, started)
  BY Zenon DEF IInv, At
<1>9. Decides(f, job_list, Below, started)
  BY <1>1, <1>2, <1>6, <1>7, <1>8, Zenon DEF Decides, NoPair
<1>10. ASSUME adopts[p] # 0 PROVE LooksAgain(adopts[p])
  <2>1. Adopted(p, job_list, Below)
    BY <1>1, <1>3, Zenon
  <2>2. ~Stuck(p) /\ ~SettledAs(p, adopts[p])
    BY <1>6, Zenon DEF Live, Stuck, SettledAs, Settled
  <2>3. ~JobWaits(p, adopts[p], job_list)
    <3> SUFFICES ASSUME NEW k \in 1..Len(job_list), job_list[k] = ThenableJob(p, adopts[p]) PROVE FALSE
      BY Zenon DEF JobWaits
    <3>1. job_list[k] \in Jobs /\ job_list[k].kind = "thenable" /\ job_list[k].promise = p
      BY <1>1 DEF TypeAt, ThenableJob
    <3>2. job_list[k] \in ThenablesFor(p)
      BY <1>3, <3>1, ThenableIn, Zenon
    <3> QED BY <1>6, <3>2, Zenon DEF NoneIn
  <2>4. ~PairWaits(p, adopts[p], job_list, Below)
    BY <1>6, Zenon DEF PairWaits, NoPair
  <2> QED BY <1>10, <2>1, <2>2, <2>3, <2>4, Zenon DEF Adopted
<1> QED BY <1>2, <1>9, <1>10, Zenon

\* A reaction job is started: its handler is called, with the frame of a
\* call that waits for it below, or there is none.
LEMMA PopJob ==
  ASSUME IInv, stack = <<>>, job_list # <<>>, Head(job_list).kind = "reaction", NEW stk,
         \/ stk = <<>>
         \/ stk = <<Frame("function", Head(job_list).cap, Undefined)>>
         \/ stk = <<Frame("handler", Head(job_list).cap, Undefined)>> /\ Head(job_list).cap # 0
  PROVE  At(Tail(job_list), stk,
            [started EXCEPT ![Head(job_list).from] = Append(started[Head(job_list).from], Head(job_list).id)])
<1> DEFINE job == Head(job_list)
           jobs == Tail(job_list)
           p == job.from
           strt == [started EXCEPT ![p] = Append(started[p], job.id)]
<1>1. /\ TypeAt(job_list, stack, started) /\ RefsOK(job_list, stack) /\ OrderOK(job_list, started)
      /\ ResolverOK(job_list, stack) /\ AdoptOK(job_list, stack) /\ job_list \in Seq(Jobs)
  BY Zenon DEF IInv, At, TypeAt
<1>2. /\ jobs \in Seq(Jobs) /\ Len(jobs) \in Nat /\ Len(job_list) = Len(jobs) + 1 /\ job = job_list[1]
      /\ \A k \in 1..Len(jobs) : jobs[k] = job_list[k + 1]
  BY <1>1
<1>3. /\ job \in Jobs /\ 1 \in 1..Len(job_list) /\ JobOK(job)
      /\ \A k \in 1..Len(jobs) : k + 1 \in 1..Len(job_list) /\ k + 1 # 1
      /\ \A k \in 1..Len(job_list) : k # 1 => k - 1 \in 1..Len(jobs) /\ job_list[k] = jobs[k - 1]
  BY <1>1, <1>2 DEF RefsOK
<1> HIDE DEF job, jobs
<1>4. job.kind = "reaction" /\ p \in Promises /\ job.id \in Pairs /\ job.cap \in Pairs \cup {0}
  BY <1>3, JobFields, Zenon DEF job
<1>5. /\ stk \in Seq(Frames)
      /\ \A k \in 1..Len(stk) : stk[k].f = job.cap /\ stk[k].kind # "getter" /\ FrameOK(stk[k])
  <2>1. Undefined \in Values
    BY Zenon DEF Values
  <2>2. ASSUME NEW kind \in {"function", "handler"}, kind = "handler" => job.cap # 0,
               stk = <<Frame(kind, job.cap, Undefined)>>
        PROVE  /\ stk \in Seq(Frames)
               /\ \A k \in 1..Len(stk) : stk[k].f = job.cap /\ stk[k].kind # "getter" /\ FrameOK(stk[k])
    <3> DEFINE fr == Frame(kind, job.cap, Undefined)
    <3>1. fr \in Frames /\ fr.kind = kind /\ fr.f = job.cap
      BY <1>4, <2>1, Zenon DEF Frame, Frames, JSKinds
    <3>2. FrameOK(fr)
      <4>1. job.cap = 0 \/ Pair(job.cap)
        BY <1>3, <1>4, Zenon DEF JobOK, Discarded
      <4> QED BY <2>2, <3>1, <4>1, Zenon DEF FrameOK
    <3> HIDE DEF fr
    <3>3. stk = <<fr>>
      BY <2>2, Zenon DEF fr
    <3>4. stk \in Seq(Frames) /\ Len(stk) = 1 /\ stk[1] = fr
      BY <3>1, <3>3
    <3> QED BY <2>2, <3>1, <3>2, <3>4
  <2>3. CASE stk = <<>>
    BY <2>3
  <2>4. CASE stk = <<Frame("function", job.cap, Undefined)>>
    BY <2>2, <2>4, Zenon
  <2>5. CASE stk = <<Frame("handler", job.cap, Undefined)>> /\ job.cap # 0
    BY <2>2, <2>5, Zenon
  <2> QED BY <2>3, <2>4, <2>5, Zenon DEF job
<1>6. TypeAt(jobs, stk, strt)
  <2>1. strt \in [Promises -> Seq(Pairs)]
    BY <1>1, <1>4 DEF TypeAt
  <2> QED BY <1>1, <1>2, <1>5, <2>1, Zenon DEF TypeAt
<1>7. RefsOK(jobs, stk)
  BY <1>1, <1>2, <1>3, <1>5, Zenon DEF RefsOK
<1>8. ResolverOK(jobs, stk)
  <2> SUFFICES ASSUME NEW q \in Promises PROVE ResolverAt(q, jobs, stk)
    BY Zenon DEF ResolverOK
  <2>1. ResolverAt(q, job_list, stack)
    BY <1>1, Zenon DEF ResolverOK
  <2>2. NoneIn(stack, GettersFor(q)) /\ ~OneIn(stack, GettersFor(q))
    BY DEF NoneIn, OneIn
  <2>3. NoneIn(stk, GettersFor(q))
    BY <1>5, Zenon DEF NoneIn, GettersFor
  <2>4. job \notin ThenablesFor(q)
    BY <1>4, Zenon DEF ThenablesFor
  <2>5. /\ NoneIn(job_list, ThenablesFor(q)) <=> NoneIn(jobs, ThenablesFor(q))
        /\ OneIn(job_list, ThenablesFor(q)) <=> OneIn(jobs, ThenablesFor(q))
    BY <1>1, <2>4, TailCount, Zenon DEF job, jobs
  <2> QED BY <2>1, <2>2, <2>3, <2>5, Zenon DEF ResolverAt, NoResolver, ExactlyOne
<1>9. /\ \A q \in Promises : q # p => strt[q] = started[q]
      /\ started[p] \in Seq(Pairs) /\ strt[p] = Append(started[p], job.id)
  BY <1>1, <1>4, Zenon DEF TypeAt
<1>10. /\ Len(started[p]) \in Nat /\ Len(strt[p]) = Len(started[p]) + 1
       /\ \A k \in 1..Len(started[p]) : strt[p][k] = started[p][k] /\ started[p][k] \in Pairs
       /\ strt[p][Len(started[p]) + 1] = job.id
  BY <1>4, <1>9
<1> HIDE DEF strt
<1>11. OrderOK(jobs, strt)
  <2>1. AddedOK /\ SortedOK(job_list, started) /\ AccountedOK(job_list, started)
    BY <1>1, Zenon DEF OrderOK
  <2>2. SortedOK(jobs, strt)
    <3>1. \A i \in 1..Len(started[p]) : started[p][i] < job.id
      BY <1>2, <1>3, <1>4, <2>1, Zenon DEF SortedOK, From
    <3>2. ASSUME NEW q \in Promises PROVE Increasing(strt[q])
      <4>1. Increasing(started[q])
        BY <2>1, Zenon DEF SortedOK
      <4>2. CASE q # p
        BY <1>9, <4>1, <4>2, Zenon
      <4>3. CASE q = p
        <5> SUFFICES ASSUME NEW i \in 1..Len(strt[p]), NEW j \in 1..Len(strt[p]), i < j PROVE strt[p][i] < strt[p][j]
          BY <4>3, Zenon DEF Increasing
        <5>1. i \in 1..Len(started[p])
          BY <1>10
        <5>2. CASE j \in 1..Len(started[p])
          BY <1>10, <4>1, <4>3, <5>1, <5>2, Zenon DEF Increasing
        <5>3. CASE j \notin 1..Len(started[p])
          <6>1. j = Len(started[p]) + 1
            BY <1>10, <5>3
          <6> QED BY <1>10, <3>1, <5>1, <6>1, Zenon
        <5> QED BY <5>2, <5>3, Zenon
      <4> QED BY <4>2, <4>3, Zenon
    <3>3. ASSUME NEW q \in Promises, NEW i \in 1..Len(jobs), NEW j \in 1..Len(jobs),
                 i < j, From(q, jobs[i]), From(q, jobs[j])
          PROVE  jobs[i].id < jobs[j].id
      <4>1. i + 1 < j + 1 /\ i + 1 \in 1..Len(job_list) /\ j + 1 \in 1..Len(job_list)
        BY <1>2, <1>3, <3>3
      <4> QED BY <1>2, <2>1, <3>3, <4>1, Zenon DEF SortedOK
    <3>4. ASSUME NEW q \in Promises, NEW i \in 1..Len(strt[q]), NEW j \in 1..Len(jobs), From(q, jobs[j])
          PROVE  strt[q][i] < jobs[j].id
      <4>1. j + 1 \in 1..Len(job_list) /\ 1 < j + 1 /\ job_list[j + 1] = jobs[j]
        BY <1>2, <1>3
      <4>2. CASE i \in 1..Len(started[q]) /\ strt[q][i] = started[q][i]
        BY <2>1, <3>4, <4>1, <4>2, Zenon DEF SortedOK
      <4>3. CASE q = p /\ strt[q][i] = job.id
        <5>1. From(q, job_list[1])
          BY <1>2, <1>4, <4>3, Zenon DEF From
        <5> QED BY <1>2, <1>3, <2>1, <3>4, <4>1, <4>3, <5>1, Zenon DEF SortedOK
      <4>4. CASE q # p
        BY <1>9, <4>2, <4>4, Zenon
      <4>5. CASE q = p /\ i \in 1..Len(started[p])
        BY <1>10, <4>2, <4>5, Zenon
      <4>6. CASE q = p /\ i \notin 1..Len(started[p])
        <5>1. i = Len(started[p]) + 1
          BY <1>10, <4>6
        <5> QED BY <1>10, <4>3, <4>6, <5>1, Zenon
      <4> QED BY <4>4, <4>5, <4>6, Zenon
    <3>5. ASSUME NEW q \in Promises, strt[q] # <<>> PROVE Settled(q)
      <4>1. CASE q = p
        BY <1>3, <1>4, <4>1, Zenon DEF JobOK, Settled
      <4>2. CASE q # p
        BY <1>9, <2>1, <3>5, <4>2, Zenon DEF SortedOK
      <4> QED BY <4>1, <4>2, Zenon
    <3> QED BY <2>1, <3>2, <3>3, <3>4, <3>5, Zenon DEF SortedOK
  <2>3. AccountedOK(jobs, strt)
    <3> SUFFICES ASSUME NEW q \in Promises, NEW id \in Pairs
                 PROVE  Accounted(q, id, jobs, strt) <=> Added(q, id) /\ id \notin lost
      BY Zenon DEF AccountedOK
    <3>1. Accounted(q, id, jobs, strt) => Accounted(q, id, job_list, started)
      <4>1. ASSUME NEW k \in 1..Len(strt[q]), strt[q][k] = id
            PROVE  Accounted(q, id, job_list, started)
        <5>1. CASE k \in 1..Len(started[q]) /\ started[q][k] = id
          BY <5>1, Zenon DEF Accounted
        <5>2. CASE q = p /\ job.id = id
          <6>1. From(q, job_list[1]) /\ job_list[1].id = id
            BY <1>2, <1>4, <5>2, Zenon DEF From
          <6> QED BY <1>3, <6>1, Zenon DEF Accounted
        <5>3. CASE q = p
          <6>1. k \in 1..Len(started[p]) \/ k = Len(started[p]) + 1
            BY <1>10, <5>3
          <6> QED BY <1>10, <4>1, <5>1, <5>2, <5>3, <6>1, Zenon
        <5> QED BY <1>9, <4>1, <5>1, <5>3, Zenon
      <4>2. ASSUME NEW k \in 1..Len(jobs), From(q, jobs[k]), jobs[k].id = id
            PROVE  Accounted(q, id, job_list, started)
        BY <1>2, <1>3, <4>2, Zenon DEF Accounted
      <4> QED BY <4>1, <4>2, Zenon DEF Accounted
    <3>2. Accounted(q, id, job_list, started) => Accounted(q, id, jobs, strt)
      <4>1. ASSUME NEW k \in 1..Len(started[q]), started[q][k] = id
            PROVE  Accounted(q, id, jobs, strt)
        <5>1. k \in 1..Len(strt[q]) /\ strt[q][k] = id
          <6>1. CASE q # p
            BY <1>9, <4>1, <6>1, Zenon
          <6>2. CASE q = p
            <7>1. k \in 1..Len(strt[p])
              BY <1>10, <6>2
            <7> QED BY <1>10, <4>1, <6>2, <7>1, Zenon
          <6> QED BY <6>1, <6>2, Zenon
        <5> QED BY <5>1, Zenon DEF Accounted
      <4>2. ASSUME NEW k \in 1..Len(job_list), From(q, job_list[k]), job_list[k].id = id
            PROVE  Accounted(q, id, jobs, strt)
        <5>1. CASE k = 1
          <6>1. q = p /\ job.id = id
            BY <1>2, <4>2, <5>1, Zenon DEF From
          <6>2. Len(started[p]) + 1 \in 1..Len(strt[q]) /\ strt[q][Len(started[p]) + 1] = id
            BY <1>10, <6>1
          <6> QED BY <6>2, Zenon DEF Accounted
        <5>2. CASE k # 1
          BY <1>3, <4>2, <5>2, Zenon DEF Accounted
        <5> QED BY <5>1, <5>2, Zenon
      <4> QED BY <4>1, <4>2, Zenon DEF Accounted
    <3> QED BY <2>1, <3>1, <3>2, Zenon DEF AccountedOK
  <2> QED BY <2>1, <2>2, <2>3, Zenon DEF OrderOK
<1>12. AdoptOK(jobs, stk)
  <2> SUFFICES ASSUME NEW q \in Promises PROVE Adopted(q, jobs, stk)
    BY DEF AdoptOK
  <2>1. Adopted(q, job_list, stack)
    BY <1>1, Zenon DEF AdoptOK
  <2>2. JobWaits(q, adopts[q], job_list) => JobWaits(q, adopts[q], jobs)
    <3> SUFFICES ASSUME NEW k \in 1..Len(job_list), job_list[k] = ThenableJob(q, adopts[q])
                 PROVE  JobWaits(q, adopts[q], jobs)
      BY Zenon DEF JobWaits
    <3>1. k # 1
      BY <1>2, <1>4 DEF ThenableJob
    <3> QED BY <1>3, <3>1, Zenon DEF JobWaits
  <2>3. PairWaits(q, adopts[q], job_list, stack) => PairWaits(q, adopts[q], jobs, stk)
    <3> SUFFICES ASSUME NEW g \in Pairs, OnlyFrom(adopts[q], g, job_list, stack)
                 PROVE  OnlyFrom(adopts[q], g, jobs, stk)
      BY Zenon DEF PairWaits
    <3>1. \A k \in 1..Len(stk) : stk[k].f # g
      BY <1>2, <1>3, <1>4, <1>5, Zenon DEF OnlyFrom
    <3>2. \A k \in 1..Len(jobs) : jobs[k].kind = "reaction" =>
             /\ jobs[k].cap # g
             /\ jobs[k].handler.f = g => jobs[k].from = adopts[q] /\ jobs[k].handler = Function(g, jobs[k].is_reject)
      BY <1>2, <1>3 DEF OnlyFrom
    <3> QED BY <3>1, <3>2, Zenon DEF OnlyFrom
  <2> QED BY <2>1, <2>2, <2>3, Zenon DEF Adopted
<1>13. At(jobs, stk, strt)
  BY <1>6, <1>7, <1>8, <1>11, <1>12, Zenon DEF At
<1> QED BY <1>13, Zenon DEF job, jobs, strt

-----------------------------------------------------------------------------
(* The steps that create no pair.                                           *)

\* What JavaScript code holds exists.
LEMMA HeldExists ==
  ASSUME IInv, NEW v \in Held
  PROVE  Exists(v)
<1>1. v \in Values
  BY Zenon DEF Held, Created, Values
<1>2. v \in Promises => promise_state[v] # "none"
  BY ValueAssumption, Zenon DEF Held, Created
<1> QED BY <1>1, <1>2, Zenon DEF Exists

\* The resolving function of a frame, or one that was given to JavaScript code,
\* may settle a promise that follows another only as that one allows.
LEMMA FollowsAny ==
  ASSUME IInv, NEW f \in Pairs, promise[f] # 0, NEW i, NEW v,
         f \in given \/ \E k \in 1..Len(stack) : stack[k].f = f
  PROVE  ~already_resolved[f] => Follows(promise[f], i, v)
<1> SUFFICES ASSUME ~already_resolved[f] PROVE Follows(promise[f], i, v)
  BY Zenon
<1>1. At(job_list, stack, started)
  BY Zenon DEF IInv
<1>2. adopts[promise[f]] # 0 => LooksAgain(adopts[promise[f]]) \/ OnlyFrom(adopts[promise[f]], f, job_list, stack)
  BY <1>1, Waits, Zenon
<1>3. ~OnlyFrom(adopts[promise[f]], f, job_list, stack)
  BY Zenon DEF OnlyFrom
<1> QED BY <1>2, <1>3, Zenon DEF Follows

\* The pair of the frame on top of the stack.
LEMMA TopPair ==
  ASSUME IInv, stack # <<>>, Top.kind \in {"executor", "then", "throwing", "handler"} \/ (Top.kind = "function" /\ Top.f # 0)
  PROVE  /\ Top.f \in Pairs /\ promise[Top.f] # 0
         /\ \E k \in 1..Len(stack) : stack[k].f = Top.f
         /\ At(job_list, Below, started)
<1>1. FrameOK(Top) /\ Len(stack) \in 1..Len(stack) /\ Top.kind # "getter"
  BY BelowFacts, Zenon
<1>2. Pair(Top.f)
  BY <1>1, Zenon DEF FrameOK
<1>3. At(job_list, Below, started)
  BY <1>1, PopFrame, Zenon
<1> QED BY <1>1, <1>2, <1>3, Zenon DEF Pair, Top

\* A call of a resolving function by JavaScript code keeps the invariant.
LEMMA CallGivenStep ==
  ASSUME IInv, NEW f \in given, NEW i \in 0..1, NEW v \in Held, CallGiven(f, i, v)
  PROVE  IInv'
<1>1. At(job_list, stack, started) /\ f \in Pairs /\ promise[f] # 0
  BY Zenon DEF IInv, At, TypeAt
<1>2. Exists(v) /\ (~already_resolved[f] => Follows(promise[f], i, v))
  <2>1. ~already_resolved[f] => Follows(promise[f], i, v)
    BY <1>1, FollowsAny, ZenonT(40)
  <2> QED BY <2>1, HeldExists, Zenon
<1>3. /\ js_promise_resolve_function_call(f, i, v, stack, job_list)
      /\ started' = started /\ UNCHANGED <<promise, given, order>>
  BY Zenon DEF CallGiven
<1> QED BY <1>1, <1>2, <1>3, CallStep, ZenonT(40)

\* So does the end of the script, of an executor or of a then method,
LEMMA ReturnsStep ==
  ASSUME IInv, Returns
  PROVE  IInv'
<1>1. stack # <<>> /\ Top.kind # "getter"
  BY Zenon DEF Returns, InJS
<1>2. At(job_list, Below, started)
  BY <1>1, PopFrame, Zenon
<1>3. /\ job_list' = job_list /\ stack' = Below /\ started' = started
      /\ UNCHANGED <<promise_state, promise_result, promise_reactions, promise, already_resolved, given,
                     order, lost, stranded, adopts>>
  BY Zenon DEF Returns, promiseVars, pairVars
<1> QED BY <1>2, <1>3, Unchanged, ZenonT(40)

\* an exception thrown by one of them,
LEMMA ThrowsStep ==
  ASSUME IInv, NEW e \in Held, Throws(e)
  PROVE  IInv'
<1>1. stack # <<>> /\ Top.kind \in {"executor", "then", "throwing"}
  BY Zenon DEF Throws, InJS
<1>2. /\ Top.f \in Pairs /\ promise[Top.f] # 0 /\ At(job_list, Below, started)
      /\ \E k \in 1..Len(stack) : stack[k].f = Top.f
  BY <1>1, TopPair, Zenon
<1>3. Exists(e) /\ (~already_resolved[Top.f] => Follows(promise[Top.f], 1, e)) /\ 1 \in 0..1
  <2>1. ~already_resolved[Top.f] => Follows(promise[Top.f], 1, e)
    BY <1>2, FollowsAny, ZenonT(40)
  <2> QED BY <2>1, HeldExists
<1>4. /\ js_promise_resolve_function_call(Top.f, 1, e, Below, job_list)
      /\ started' = started /\ UNCHANGED <<promise, given, order>>
  BY Zenon DEF Throws
<1> QED BY <1>2, <1>3, <1>4, CallStep, ZenonT(40)

\* the end of a handler,
LEMMA HandlerEndsStep ==
  ASSUME IInv, NEW i \in 0..1, NEW v \in Held, HandlerEnds(i, v)
  PROVE  IInv'
<1>1. stack # <<>> /\ Top.kind = "handler"
  BY Zenon DEF HandlerEnds, InJS
<1>2. /\ Top.f \in Pairs /\ promise[Top.f] # 0 /\ At(job_list, Below, started)
      /\ \E k \in 1..Len(stack) : stack[k].f = Top.f
  BY <1>1, TopPair, Zenon
<1>3. Exists(v) /\ (~already_resolved[Top.f] => Follows(promise[Top.f], i, v))
  <2>1. ~already_resolved[Top.f] => Follows(promise[Top.f], i, v)
    BY <1>2, FollowsAny, ZenonT(40)
  <2> QED BY <2>1, HeldExists, Zenon
<1>4. /\ js_promise_resolve_function_call(Top.f, i, v, Below, job_list)
      /\ started' = started /\ UNCHANGED <<promise, given, order>>
  BY Zenon DEF HandlerEnds
<1> QED BY <1>2, <1>3, <1>4, CallStep, ZenonT(40)

\* the end of a handler that is a resolving function,
LEMMA FunctionEndsStep ==
  ASSUME IInv, FunctionEnds
  PROVE  IInv'
<1>1. stack # <<>> /\ Top.kind = "function"
  BY Zenon DEF FunctionEnds, InJS
<1>2. CASE Top.f = Discarded
  <2>1. At(job_list, Below, started)
    BY <1>1, PopFrame, Zenon
  <2>2. /\ job_list' = job_list /\ stack' = Below /\ started' = started
        /\ UNCHANGED <<promise_state, promise_result, promise_reactions, promise, already_resolved, given,
                       order, lost, stranded, adopts>>
    BY <1>2, Zenon DEF FunctionEnds, promiseVars
  <2> QED BY <2>1, <2>2, Unchanged, ZenonT(40)
<1>3. CASE Top.f # Discarded
  <2>1. /\ Top.f \in Pairs /\ promise[Top.f] # 0 /\ At(job_list, Below, started)
        /\ \E k \in 1..Len(stack) : stack[k].f = Top.f
    BY <1>1, <1>3, TopPair, Zenon DEF Discarded
  <2>2. Exists(Undefined) /\ 0 \in 0..1
    BY ValueAssumption DEF Exists, Values
  <2>3. ~already_resolved[Top.f] => Follows(promise[Top.f], 0, Undefined)
    BY <2>1, FollowsAny, ZenonT(40)
  <2>4. /\ js_promise_resolve_function_call(Top.f, 0, Undefined, Below, job_list)
        /\ started' = started /\ UNCHANGED <<promise, given, order>>
    BY <1>3, Zenon DEF FunctionEnds
  <2> QED BY <2>1, <2>2, <2>3, <2>4, CallStep, ZenonT(40)
<1> QED BY <1>2, <1>3, Zenon

\* the end of a getter,
LEMMA GetterEndsStep ==
  ASSUME IInv, GetterEnds
  PROVE  IInv'
<1> DEFINE f == Top.f
           p == promise[f]
<1>1. stack # <<>> /\ Top.kind = "getter"
  BY Zenon DEF GetterEnds, InJS
<1>2. Decides(f, job_list, Below, started) /\ Top.v \in Objects /\ already_resolved[f]
  BY <1>1, PopGetter, Zenon
<1>3. adopts[p] # 0 => LooksAgain(adopts[p])
  BY <1>1, PopGetter, Zenon
<1>4. already_resolved' = [already_resolved EXCEPT ![f] = TRUE]
  <2>1. already_resolved \in [Pairs -> BOOLEAN] /\ f \in Pairs
    BY <1>2, Zenon DEF Decides, TypeAt
  <2>2. already_resolved[f] = TRUE
    BY <1>2, <2>1, Zenon
  <2>3. already_resolved' = already_resolved
    BY Zenon DEF GetterEnds, pairVars
  <2> QED BY <2>1, <2>2, <2>3, Zenon
<1>5. /\ stack' = Below /\ started' = started
      /\ UNCHANGED <<promise, given, order>> /\ UNCHANGED <<promise, given, order, adopts>>
  BY Zenon DEF GetterEnds, pairVars
<1>6. /\ Exists(Top.v) /\ Top.v \notin Promises /\ Top.v \in Promises \cup Objects
  BY <1>2, ValueAssumption, Zenon DEF Exists, Values
<1>7. CASE EnqueueThenable(p, Top.v, job_list)
  <2>1. \/ Top.v \in Promises /\ adopts' = [adopts EXCEPT ![p] = Top.v]
        \/ Top.v \notin Promises /\ adopts' = adopts /\ (adopts[p] # 0 => LooksAgain(adopts[p]))
    BY <1>3, <1>5, <1>6, Zenon
  <2> QED BY <1>2, <1>4, <1>5, <1>6, <1>7, <2>1, EnqueueStep, ZenonT(40)
<1>8. ASSUME NEW v, NEW r \in 0..1, Exists(v), r = 0 => v \notin Promises,
             fulfill_or_reject_promise(p, v, r, job_list)
      PROVE  IInv'
  <2>1. Follows(p, r, v)
    BY <1>3, Zenon DEF Follows
  <2> QED BY <1>2, <1>4, <1>5, <1>8, <2>1, SettleStep, ZenonT(40)
<1>9. CASE fulfill_or_reject_promise(p, Top.v, 0, job_list)
  <2>1. 0 \in 0..1
    OBVIOUS
  <2> QED BY <1>6, <1>8, <1>9, <2>1, ZenonT(40)
<1>10. ASSUME NEW e \in Held, fulfill_or_reject_promise(p, e, 1, job_list) PROVE IInv'
  <2>1. Exists(e) /\ 1 \in 0..1 /\ 1 # 0
    BY HeldExists
  <2> QED BY <1>8, <1>10, <2>1, ZenonT(40)
<1> QED BY <1>7, <1>9, <1>10, Zenon DEF GetterEnds

\* and promise_reaction_job.
LEMMA ReactionJobStep ==
  ASSUME IInv, promise_reaction_job
  PROVE  IInv'
<1> DEFINE job == Head(job_list)
           h == job.handler
           jobs == Tail(job_list)
           strt == [started EXCEPT ![job.from] = Append(started[job.from], job.id)]
<1>1. /\ stack = <<>> /\ job_list # <<>> /\ job.kind = "reaction" /\ started' = strt
      /\ UNCHANGED <<promise, given, order>>
  BY Zenon DEF promise_reaction_job
<1>2. At(job_list, stack, started) /\ job_list \in Seq(Jobs)
  BY Zenon DEF IInv, At, TypeAt
<1>3. job \in Jobs /\ 1 \in 1..Len(job_list) /\ job = job_list[1]
  BY <1>1, <1>2
<1>4. JobOK(job)
  BY <1>2, <1>3, Zenon DEF At, RefsOK
<1>5. /\ h \in Handlers /\ job.cap \in Pairs \cup {0} /\ job.is_reject \in 0..1 /\ job.from \in Promises
  BY <1>1, <1>3, JobFields, Zenon
<1>6. Exists(job.arg) /\ job.arg = promise_result[job.from] /\ promise_state[job.from] = StateOf(job.is_reject)
  BY <1>1, <1>2, <1>4, <1>5, Zenon DEF JobOK, At, RefsOK, PromiseOK, StateOf
<1>7. ASSUME NEW stk,
             \/ stk = <<>>
             \/ stk = <<Frame("function", job.cap, Undefined)>>
             \/ stk = <<Frame("handler", job.cap, Undefined)>> /\ job.cap # 0
      PROVE  At(jobs, stk, strt)
  BY <1>1, <1>7, PopJob, ZenonT(40)
<1> HIDE DEF jobs, strt
<1>8. CASE h.kind = "code" /\ stack' = <<Frame("handler", job.cap, Undefined)>> /\ job_list' = jobs
           /\ UNCHANGED <<promiseVars, already_resolved, lost, stranded, adopts>>
  <2>1. job.cap # 0
    BY <1>1, <1>4, <1>8, BoundAssumption DEF JobOK, Function, Discarded, Pair, Pairs
  <2>2. At(jobs, <<Frame("handler", job.cap, Undefined)>>, strt)
    BY <1>7, <1>8, <2>1, Zenon
  <2>3. UNCHANGED <<promise_state, promise_result, promise_reactions, promise, already_resolved, given,
                    order, lost, stranded, adopts>>
    BY <1>1, <1>8, Zenon DEF promiseVars
  <2> QED BY <1>1, <1>8, <2>2, <2>3, Unchanged, ZenonT(40)
<1>9. CASE h.kind = "function"
           /\ js_promise_resolve_function_call(h.f, h.i, job.arg, <<Frame("function", job.cap, Undefined)>>, jobs)
  <2>1. h.f \in Pairs /\ h.i \in 0..1 /\ promise[h.f] # 0
    BY <1>1, <1>4, <1>5, <1>9, HandlerFields, Zenon DEF JobOK, HandlerOK, Pair
  <2>2. At(jobs, <<Frame("function", job.cap, Undefined)>>, strt)
    BY <1>7, Zenon
  <2>3. ASSUME ~already_resolved[h.f] PROVE Follows(promise[h.f], h.i, job.arg)
    <3> DEFINE q == adopts[promise[h.f]]
    <3> SUFFICES ASSUME q # 0, ~LooksAgain(q)
                 PROVE  Settled(q) /\ promise_state[q] = StateOf(h.i) /\ promise_result[q] = job.arg
      BY Zenon DEF Follows
    <3>1. OnlyFrom(q, h.f, job_list, stack)
      BY <1>2, <2>1, <2>3, Waits, Zenon
    <3>2. job.from = q /\ h = Function(h.f, job.is_reject)
      BY <1>1, <1>3, <3>1, Zenon DEF OnlyFrom
    <3>3. h.i = job.is_reject
      BY <3>2 DEF Function
    <3> QED BY <1>5, <1>6, <3>2, <3>3, Zenon DEF StateOf, Settled
  <2> QED BY <1>1, <1>6, <1>9, <2>1, <2>2, <2>3, CallStep, ZenonT(40)
<1>10. CASE h.kind = "undefined"
            /\ js_promise_resolve_function_call(job.cap, job.is_reject, job.arg, <<>>, jobs)
  <2>1. job.cap \in Pairs /\ promise[job.cap] # 0
    BY <1>1, <1>4, <1>10 DEF JobOK, Function, Pair
  <2>2. At(jobs, <<>>, strt)
    BY <1>7, Zenon
  <2>3. ASSUME ~already_resolved[job.cap] PROVE Follows(promise[job.cap], job.is_reject, job.arg)
    <3> DEFINE q == adopts[promise[job.cap]]
    <3>1. q # 0 => LooksAgain(q) \/ OnlyFrom(q, job.cap, job_list, stack)
      BY <1>2, <2>1, <2>3, Waits, Zenon
    <3>2. ~OnlyFrom(q, job.cap, job_list, stack)
      BY <1>1, <1>3, Zenon DEF OnlyFrom
    <3> QED BY <3>1, <3>2, Zenon DEF Follows
  <2> QED BY <1>1, <1>5, <1>6, <1>10, <2>1, <2>2, <2>3, CallStep, ZenonT(40)
<1> QED BY <1>8, <1>9, <1>10, Zenon DEF promise_reaction_job, jobs

-----------------------------------------------------------------------------
(* The steps that create a pair.                                            *)

\* A pair that does not exist yet comes after all that do, and nothing refers
\* to it.
LEMMA FreshPairFacts ==
  ASSUME IInv, NEW f \in FreshPair
  PROVE  /\ f \in Pairs /\ promise[f] = 0 /\ f \notin given /\ f \notin lost
         /\ \A g \in Pairs : promise[g] # 0 => g < f
         /\ \A k \in 1..Len(stack) : stack[k].kind \in {"getter", "executor", "then", "throwing", "handler"} => stack[k].f # f
         /\ \A k \in 1..Len(job_list) : job_list[k].kind = "reaction" =>
                /\ job_list[k].id < f /\ job_list[k].cap # f
                /\ job_list[k].handler.f # f
         /\ \A q \in Promises : \A k \in 1..Len(promise_reactions[q]) :
                /\ promise_reactions[q][k].id < f /\ promise_reactions[q][k].cap # f
                /\ promise_reactions[q][k].handler[0].f # f /\ promise_reactions[q][k].handler[1].f # f
         /\ \A q \in Promises : \A k \in 1..Len(order[q]) : order[q][k] < f
<1>1. TypeAt(job_list, stack, started) /\ RefsOK(job_list, stack) /\ AddedOK /\ PromiseOK
  BY Zenon DEF IInv, At, OrderOK, RefsOK
<1>2. f \in Pairs /\ promise[f] = 0
  BY Zenon DEF FreshPair
<1>3. ASSUME NEW g \in Pairs, promise[g] # 0 PROVE g < f
  <2>1. ~(f < g)
    BY <1>1, <1>2, <1>3, Zenon DEF PromiseOK
  <2> QED BY <1>2, <1>3, <2>1 DEF Pairs
<1>4. f \notin given
  BY <1>1, <1>2, Zenon DEF TypeAt
<1>5. f \notin lost
  BY <1>1, <1>2, Zenon DEF AddedOK
<1>6. ASSUME NEW k \in 1..Len(stack), stack[k].kind \in {"getter", "executor", "then", "throwing", "handler"} PROVE stack[k].f # f
  <2>1. FrameOK(stack[k])
    BY <1>1, Zenon DEF RefsOK
  <2> QED BY <1>2, <1>6, <2>1, Zenon DEF FrameOK, Pair
<1>7. ASSUME NEW k \in 1..Len(job_list), job_list[k].kind = "reaction"
      PROVE  job_list[k].id < f /\ job_list[k].cap # f /\ job_list[k].handler.f # f
  <2> DEFINE j == job_list[k]
  <2>1. JobOK(j) /\ j \in Jobs
    BY <1>1 DEF RefsOK, TypeAt
  <2> HIDE DEF j
  <2>2. j.kind = "reaction"
    BY <1>7, Zenon DEF j
  <2>3. j.handler \in Handlers
    BY <2>1, <2>2, JobFields, Zenon
  <2>4. Pair(j.id) /\ HandlerOK(j.handler) /\ (j.cap = j.id \/ j.cap = 0)
    BY <2>1, <2>2, Zenon DEF JobOK, Discarded
  <2>5. j.id < f
    BY <1>3, <2>4, Zenon DEF Pair
  <2>6. j.handler.f # f
    BY <1>2, <2>3, <2>4, HandlerFields, SMTT(30) DEF HandlerOK, Pair, Pairs
  <2> QED BY <1>2, <2>4, <2>5, <2>6 DEF j, Pairs, Pair
<1>8. ASSUME NEW q \in Promises, NEW k \in 1..Len(promise_reactions[q])
      PROVE  /\ promise_reactions[q][k].id < f /\ promise_reactions[q][k].cap # f
             /\ promise_reactions[q][k].handler[0].f # f /\ promise_reactions[q][k].handler[1].f # f
  <2> DEFINE rd == promise_reactions[q][k]
  <2>1. ReactionOK(q, rd) /\ rd \in Reactions
    BY <1>1 DEF PromiseOK, TypeAt
  <2> HIDE DEF rd
  <2>2. rd.handler[0] \in Handlers /\ rd.handler[1] \in Handlers
    BY <2>1, ReactionFields, Zenon
  <2>3. Pair(rd.id) /\ HandlerOK(rd.handler[0]) /\ HandlerOK(rd.handler[1]) /\ (rd.cap = rd.id \/ rd.cap = 0)
    BY <2>1, Zenon DEF ReactionOK, Discarded
  <2>4. rd.id < f
    BY <1>3, <2>3, Zenon DEF Pair
  <2>5. rd.handler[0].f # f
    BY <1>2, <2>2, <2>3, HandlerFields DEF HandlerOK, Pair, Pairs
  <2>6. rd.handler[1].f # f
    BY <1>2, <2>2, <2>3, HandlerFields DEF HandlerOK, Pair, Pairs
  <2> QED BY <1>2, <2>3, <2>4, <2>5, <2>6 DEF rd, Pairs, Pair
<1>9. ASSUME NEW q \in Promises, NEW k \in 1..Len(order[q]) PROVE order[q][k] < f
  <2>1. order[q][k] \in Pairs /\ promise[order[q][k]] # 0
    BY <1>1 DEF AddedOK, TypeAt
  <2> QED BY <1>3, <2>1, Zenon
<1> QED BY <1>2, <1>3, <1>4, <1>5, <1>6, <1>7, <1>8, <1>9, Zenon

\* Nothing refers to a promise that does not exist yet.
LEMMA FreshPromiseFacts ==
  ASSUME IInv, NEW p \in FreshPromise
  PROVE  /\ p \in Promises /\ promise_state[p] = "none" /\ p \notin stranded
         /\ \A g \in Pairs : promise[g] # p
         /\ \A q \in Promises : adopts[q] # 0 => q # p /\ adopts[q] # p
         /\ Len(promise_reactions[p]) = 0
         /\ NoneIn(job_list, ThenablesFor(p)) /\ NoneIn(stack, GettersFor(p))
         /\ \A k \in 1..Len(job_list) : From(p, job_list[k]) => FALSE
<1>1. TypeAt(job_list, stack, started) /\ RefsOK(job_list, stack) /\ PromiseOK /\ ResolverOK(job_list, stack)
  BY Zenon DEF IInv, At, RefsOK
<1>2. p \in Promises /\ promise_state[p] = "none"
  BY Zenon DEF FreshPromise
<1>3. p \notin stranded /\ \A g \in Pairs : promise[g] # p
  BY <1>1, <1>2, BoundAssumption DEF PromiseOK, Promises
<1>4. \A q \in Promises : adopts[q] # 0 => q # p /\ adopts[q] # p
  BY <1>1, <1>2, Zenon DEF PromiseOK
<1>5. Len(promise_reactions[p]) = 0
  <2>1. promise_reactions[p] \in Seq(Reactions)
    BY <1>1, <1>2, Zenon DEF TypeAt
  <2>2. ASSUME 1 \in 1..Len(promise_reactions[p]) PROVE FALSE
    BY <1>1, <1>2, <2>2, Zenon DEF PromiseOK, ReactionOK
  <2> QED BY <2>1, <2>2
<1>6. NoneIn(job_list, ThenablesFor(p)) /\ NoneIn(stack, GettersFor(p))
  <2>1. ~Live(p) /\ ResolverAt(p, job_list, stack)
    BY <1>1, <1>2, Zenon DEF ResolverOK, Live
  <2> QED BY <2>1, Zenon DEF ResolverAt, NoResolver
<1>7. ASSUME NEW k \in 1..Len(job_list), From(p, job_list[k]) PROVE FALSE
  <2>1. JobOK(job_list[k])
    BY <1>1, Zenon DEF RefsOK
  <2> QED BY <1>2, <1>7, <2>1, Zenon DEF From, JobOK
<1> QED BY <1>2, <1>3, <1>4, <1>5, <1>6, <1>7, Zenon

\* The getters that are waited for are those of pairs that existed.
LEMMA GettersKept ==
  ASSUME IInv, NEW f \in FreshPair, NEW p \in Promises, promise' = [promise EXCEPT ![f] = p], NEW q \in Promises
  PROVE  /\ NoneIn(stack, GettersFor(q)') <=> NoneIn(stack, GettersFor(q))
         /\ OneIn(stack, GettersFor(q)') <=> OneIn(stack, GettersFor(q))
<1>1. promise \in [Pairs -> Promises \cup {0}] /\ stack \in Seq(Frames)
  BY Zenon DEF IInv, At, TypeAt
<1>2. ASSUME NEW k \in 1..Len(stack) PROVE stack[k] \in GettersFor(q)' <=> stack[k] \in GettersFor(q)
  <2>1. CASE stack[k].kind # "getter"
    BY <2>1, Zenon DEF GettersFor
  <2>2. CASE stack[k].kind = "getter"
    <3>1. FrameOK(stack[k])
      BY Zenon DEF IInv, At, RefsOK
    <3>2. stack[k].f \in Pairs /\ stack[k].f # f
      BY <2>2, <3>1, FreshPairFacts, Zenon DEF FrameOK, Pair
    <3>3. promise'[stack[k].f] = promise[stack[k].f]
      BY <1>1, <3>2, Zenon
    <3> QED BY <3>3, Zenon DEF GettersFor
  <2> QED BY <2>1, <2>2, Zenon
<1> QED BY <1>2, Zenon DEF NoneIn, OneIn

\* A promise is created, with a pair, pending or already settled.  What refers to
\* promises and pairs that existed is left as it was.
LEMMA CreateRefs ==
  ASSUME IInv, NEW p \in FreshPromise, NEW f \in FreshPair, NEW s \in {"pending", "fulfilled", "rejected"},
         promise_state' = [promise_state EXCEPT ![p] = s],
         promise' = [promise EXCEPT ![f] = p]
  PROVE  /\ p \in Promises /\ f \in Pairs /\ promise'[f] = p /\ promise_state'[p] = s
         /\ promise_state' \in [Promises -> {"none", "pending", "fulfilled", "rejected"}]
         /\ promise' \in [Pairs -> Promises \cup {0}]
         /\ \A g \in Pairs : g # f => promise'[g] = promise[g]
         /\ \A g \in Pairs : promise[g] # 0 => g # f
         /\ \A q \in Promises : q # p => promise_state'[q] = promise_state[q]
         /\ \A q \in Promises : promise_state[q] # "none" => q # p
         /\ \A g \in Pairs : promise'[g] # 0 => promise_state'[promise'[g]] # "none"
         /\ \A g, h \in Pairs : g < h /\ promise'[h] # 0 => promise'[g] # 0
<1>1. /\ promise_state \in [Promises -> {"none", "pending", "fulfilled", "rejected"}]
      /\ promise \in [Pairs -> Promises \cup {0}] /\ PromiseOK
  BY Zenon DEF IInv, At, TypeAt, RefsOK
<1>2. p \in Promises /\ promise_state[p] = "none"
  BY FreshPromiseFacts, Zenon
<1>3. f \in Pairs /\ promise[f] = 0 /\ \A g \in Pairs : promise[g] # 0 => g < f
  BY FreshPairFacts, Zenon
<1>4. promise'[f] = p /\ promise_state'[p] = s /\ \A g \in Pairs : g # f => promise'[g] = promise[g]
  BY <1>1, <1>2, <1>3, Zenon
<1>5. \A q \in Promises : q # p => promise_state'[q] = promise_state[q]
  BY <1>1, <1>2, Zenon
<1>6. promise_state' \in [Promises -> {"none", "pending", "fulfilled", "rejected"}]
  BY <1>1, <1>2, Zenon
<1>7. promise' \in [Pairs -> Promises \cup {0}]
  BY <1>1, <1>2, <1>3, Zenon
<1>8. ASSUME NEW g \in Pairs, promise'[g] # 0 PROVE promise_state'[promise'[g]] # "none"
  <2>1. CASE g = f
    BY <1>4, <2>1, Zenon
  <2>2. CASE g # f
    <3>1. promise'[g] = promise[g] /\ promise[g] \in Promises /\ promise_state[promise[g]] # "none"
      BY <1>1, <1>4, <1>8, <2>2, Zenon DEF PromiseOK
    <3> QED BY <1>2, <1>5, <3>1, Zenon
  <2> QED BY <2>1, <2>2, Zenon
<1>9. ASSUME NEW g \in Pairs, NEW h \in Pairs, g < h, promise'[h] # 0 PROVE promise'[g] # 0
  <2>1. CASE g = f
    BY <1>2, <1>4, <2>1, BoundAssumption DEF Promises
  <2>2. CASE g # f /\ h = f
    <3>1. promise[g] # 0
      BY <1>9, <2>2 DEF FreshPair, Pairs
    <3> QED BY <1>4, <2>2, <3>1, Zenon
  <2>3. CASE g # f /\ h # f
    BY <1>1, <1>4, <1>9, <2>3, Zenon DEF PromiseOK
  <2> QED BY <2>1, <2>2, <2>3, Zenon
<1> QED BY <1>2, <1>3, <1>4, <1>5, <1>6, <1>7, <1>8, <1>9, Zenon

\* js_promise_constructor and js_promise_resolve: a promise with a new pair and
\* perhaps a new frame.
LEMMA CreateStep ==
  ASSUME IInv, NEW p \in FreshPromise, NEW f \in FreshPair, NEW s \in {"pending", "fulfilled", "rejected"},
         NEW v, NEW fr,
         promise_state' = [promise_state EXCEPT ![p] = s],
         promise' = [promise EXCEPT ![f] = p],
         IF s = "pending" THEN promise_result' = promise_result
                          ELSE promise_result' = [promise_result EXCEPT ![p] = v],
         s # "pending" => Exists(v) /\ (s = "fulfilled" => v \notin Promises),
         \/ /\ s = "pending" /\ stack' = Append(stack, fr) /\ fr = Frame("executor", f, Undefined)
            /\ given' = given \cup {f} /\ already_resolved' = already_resolved
         \/ /\ s = "pending" /\ stack' = Append(stack, fr) /\ v \in Objects /\ fr = Frame("getter", f, v)
            /\ given' = given /\ already_resolved' = [already_resolved EXCEPT ![f] = TRUE]
         \/ /\ s # "pending" /\ stack' = stack /\ given' = given
            /\ already_resolved' = [already_resolved EXCEPT ![f] = TRUE],
         UNCHANGED <<promise_reactions, job_list, order, started, lost, stranded, adopts>>
  PROVE  IInv'
<1>0. /\ promise_reactions' = promise_reactions /\ job_list' = job_list /\ order' = order
      /\ started' = started /\ lost' = lost /\ stranded' = stranded /\ adopts' = adopts
  BY Zenon
<1>1. /\ TypeAt(job_list, stack, started) /\ RefsOK(job_list, stack) /\ ResolverOK(job_list, stack)
      /\ OrderOK(job_list, started) /\ AdoptOK(job_list, stack) /\ PromiseOK
  BY Zenon DEF IInv, At, RefsOK
<1>2. /\ p \in Promises /\ promise_state[p] = "none" /\ p \notin stranded
      /\ \A q \in Promises : adopts[q] # 0 => q # p /\ adopts[q] # p
      /\ Len(promise_reactions[p]) = 0
      /\ NoneIn(job_list, ThenablesFor(p)) /\ NoneIn(stack, GettersFor(p))
  BY FreshPromiseFacts, Zenon
<1>3. f \in Pairs /\ promise[f] = 0 /\ ~already_resolved[f]
  BY <1>1, FreshPairFacts, Zenon DEF PromiseOK
<1>4. /\ promise'[f] = p /\ promise_state'[p] = s
      /\ promise_state' \in [Promises -> {"none", "pending", "fulfilled", "rejected"}]
      /\ promise' \in [Pairs -> Promises \cup {0}]
      /\ \A g \in Pairs : g # f => promise'[g] = promise[g]
      /\ \A g \in Pairs : promise[g] # 0 => g # f
      /\ \A q \in Promises : q # p => promise_state'[q] = promise_state[q]
      /\ \A q \in Promises : promise_state[q] # "none" => q # p
      /\ \A g \in Pairs : promise'[g] # 0 => promise_state'[promise'[g]] # "none"
      /\ \A g, h \in Pairs : g < h /\ promise'[h] # 0 => promise'[g] # 0
  BY CreateRefs, ZenonT(40)
<1>5. /\ promise_result' \in [Promises -> Values]
      /\ \A q \in Promises : q # p => promise_result'[q] = promise_result[q]
      /\ IF s = "pending" THEN promise_result'[p] = promise_result[p] ELSE promise_result'[p] = v
  <2>1. promise_result \in [Promises -> Values]
    BY <1>1, Zenon DEF TypeAt
  <2>2. CASE s = "pending"
    BY <2>1, <2>2, Zenon
  <2>3. CASE s # "pending"
    BY <1>2, <2>1, <2>3, Zenon DEF Exists
  <2> QED BY <2>2, <2>3, Zenon
<1>6. /\ already_resolved' \in [Pairs -> BOOLEAN]
      /\ \A g \in Pairs : g # f => already_resolved'[g] = already_resolved[g]
  <2>1. already_resolved \in [Pairs -> BOOLEAN]
    BY <1>1, Zenon DEF TypeAt
  <2>2. CASE already_resolved' = already_resolved
    BY <2>1, <2>2, ZenonT(40)
  <2>3. CASE already_resolved' = [already_resolved EXCEPT ![f] = TRUE]
    BY <2>1, <2>3, ZenonT(40)
  <2> QED BY <2>2, <2>3, Zenon
<1>7. \/ s = "pending" /\ ~already_resolved'[f] /\ stack' = Append(stack, fr) /\ fr = Frame("executor", f, Undefined)
         /\ f \in given'
      \/ s = "pending" /\ already_resolved'[f] /\ stack' = Append(stack, fr) /\ fr = Frame("getter", f, v) /\ v \in Objects
      \/ s # "pending" /\ already_resolved'[f] /\ stack' = stack
  <2>1. already_resolved \in [Pairs -> BOOLEAN]
    BY <1>1 DEF TypeAt
  <2>2. already_resolved' = [already_resolved EXCEPT ![f] = TRUE] => already_resolved'[f]
    BY <1>3, <2>1, Zenon
  <2>3. f \in given \cup {f}
    BY Zenon
  <2> QED BY <1>3, <2>2, <2>3, Zenon
<1>8. given' \subseteq given \cup {f} /\ given \subseteq given'
  BY Zenon
<1>9. stack \in Seq(Frames) /\ Len(stack) \in Nat
  BY <1>1 DEF TypeAt
<1>10. s = "pending" => fr \in Frames /\ fr.f = f /\ fr.kind \in {"executor", "getter"} /\ fr.v \in Values
                        /\ (fr.kind = "getter" => fr.v \in Objects)
  <2>1. CASE fr = Frame("executor", f, Undefined)
    BY <1>3, <2>1, Zenon DEF Frame, Frames, JSKinds, Values
  <2>2. CASE fr = Frame("getter", f, v) /\ v \in Objects
    BY <1>3, <2>2, Zenon DEF Frame, Frames, JSKinds, Values
  <2> QED BY <1>7, <2>1, <2>2, Zenon
<1>11. /\ stack' \in Seq(Frames)
       /\ \A k \in 1..Len(stack) : k \in 1..Len(stack') /\ stack'[k] = stack[k]
       /\ \A k \in 1..Len(stack') : k \notin 1..Len(stack) => s = "pending" /\ stack'[k] = fr
  <2>1. CASE s = "pending"
    <3>1. stack' = Append(stack, fr)
      BY <1>7, <2>1, Zenon
    <3>2. fr \in Frames
      BY <1>10, <2>1, Zenon
    <3> QED BY <1>9, <2>1, <3>1, <3>2, SMTT(30)
  <2>2. CASE s # "pending"
    BY <1>7, <1>9, <2>2, Zenon
  <2> QED BY <2>1, <2>2, Zenon
<1>12. TypeAt(job_list, stack, started)'
  <2>1. (given \subseteq {g \in Pairs : promise[g] # 0})'
    <3>1. \A g \in given : g \in Pairs /\ promise[g] # 0
      BY <1>1, Zenon DEF TypeAt
    <3>2. \A g \in given : g \in Pairs /\ promise'[g] # 0
      BY <1>4, <3>1, Zenon
    <3>3. f \in Pairs /\ promise'[f] # 0
      BY <1>2, <1>3, <1>4, BoundAssumption DEF Promises
    <3>4. \A g \in given' : g \in given \/ g = f
      BY <1>8, Zenon
    <3> QED BY <3>2, <3>3, <3>4, Zenon
  <2> QED BY <1>1, <1>4, <1>5, <1>6, <1>11, <2>1, Zenon DEF TypeAt
<1>13. \A w : Exists(w) => Exists(w)'
  BY <1>4, Zenon DEF Exists
<1>14. \A g : Pair(g) => Pair(g)'
  BY <1>4, Zenon DEF Pair
<1>15. RefsOK(job_list, stack)'
  <2>1. PromiseOK'
    <3>1. (\A g \in Pairs : promise[g] # 0 => promise_state[promise[g]] # "none")'
      BY <1>4, Zenon
    <3>2. (\A g, h \in Pairs : g < h /\ promise[h] # 0 => promise[g] # 0)'
      BY <1>4, Zenon
    <3>3. (\A g \in Pairs : promise[g] = 0 => ~already_resolved[g])'
      BY <1>1, <1>2, <1>4, <1>6, BoundAssumption DEF PromiseOK, Promises
    <3>4. (\A q \in Promises : Exists(promise_result[q]))'
      <4>1. ASSUME NEW q \in Promises PROVE Exists(promise_result[q])'
        <5>1. promise_result'[q] \in Values
          BY <1>5, Zenon
        <5>2. CASE promise_result'[q] = promise_result[q]
          <6>1. Exists(promise_result[q])
            BY <1>1, Zenon DEF PromiseOK
          <6> QED BY <1>4, <5>1, <5>2, <6>1, Zenon DEF Exists
        <5>3. CASE s # "pending" /\ promise_result'[q] = v
          BY <1>4, <5>1, <5>3, ZenonT(40) DEF Exists
        <5> QED BY <1>5, <5>2, <5>3, Zenon
      <4> QED BY <4>1, Zenon
    <3>5. (\A q \in Promises : promise_state[q] = "fulfilled" => promise_result[q] \notin Promises)'
      BY <1>1, <1>4, <1>5 DEF PromiseOK
    <3>6. (\A q \in stranded : promise_state[q] # "none")'
      BY <1>1, <1>2, <1>4, Zenon DEF PromiseOK, TypeAt
    <3>7. (\A q \in Promises : adopts[q] # 0 => promise_state[q] # "none" /\ promise_state[adopts[q]] # "none")'
      BY <1>1, <1>2, <1>4 DEF PromiseOK, TypeAt
    <3>8. (\A q \in Promises : \A k \in 1..Len(promise_reactions[q]) : ReactionOK(q, promise_reactions[q][k]))'
      <4> SUFFICES ASSUME NEW q \in Promises, NEW k \in 1..Len(promise_reactions[q])
                   PROVE  ReactionOK(q, promise_reactions[q][k])'
        BY Zenon
      <4>1. ReactionOK(q, promise_reactions[q][k])
        BY <1>1, Zenon DEF PromiseOK
      <4>2. promise_state'[q] = "pending"
        BY <1>4, <4>1, Zenon DEF ReactionOK
      <4> QED BY <1>14, <4>1, <4>2, Zenon DEF ReactionOK, HandlerOK, Function
    <3> QED BY <3>1, <3>2, <3>3, <3>4, <3>5, <3>6, <3>7, <3>8, Zenon DEF PromiseOK
  <2>2. (\A k \in 1..Len(stack) : FrameOK(stack[k]))'
    <3> SUFFICES ASSUME NEW k \in 1..Len(stack') PROVE FrameOK(stack[k])'
      BY Zenon
    <3>1. CASE k \in 1..Len(stack)
      <4>1. FrameOK(stack[k]) /\ stack'[k] = stack[k]
        BY <1>1, <1>11, <3>1, Zenon DEF RefsOK
      <4>2. \A g \in Pairs : promise[g] # 0 => already_resolved'[g] = already_resolved[g]
        BY <1>4, <1>6, Zenon
      <4> QED BY <1>8, <1>14, <4>1, <4>2, Zenon DEF FrameOK, Pair
    <3>2. CASE k \notin 1..Len(stack)
      <4>1. s = "pending" /\ stack'[k] = fr
        BY <1>11, <3>2, Zenon
      <4>2. Pair(f)'
        BY <1>2, <1>3, <1>4, BoundAssumption, SMTT(30) DEF Pair, Promises
      <4>3. fr.kind = "executor" => f \in given'
        BY <1>7, <4>1 DEF Frame
      <4>4. fr.kind = "getter" => already_resolved'[f]
        BY <1>7, <4>1 DEF Frame
      <4>5. fr.f = f /\ fr.kind \in {"executor", "getter"} /\ (fr.kind = "getter" => fr.v \in Objects)
        BY <1>10, <4>1, Zenon
      <4>6. /\ fr.kind \in {"executor", "then"} => f \in given'
            /\ fr.kind = "getter" => already_resolved'[f] /\ fr.v \in Objects
        BY <4>3, <4>4, <4>5, Zenon
      <4> QED BY <4>1, <4>2, <4>5, <4>6, Zenon DEF FrameOK, Pair
    <3> QED BY <3>1, <3>2, Zenon
  <2>3. (\A k \in 1..Len(job_list) : JobOK(job_list[k]))'
    <3> SUFFICES ASSUME NEW k \in 1..Len(job_list) PROVE JobOK(job_list[k])'
      BY Zenon
    <3> DEFINE j == job_list[k]
    <3>1. JobOK(j) /\ j \in Jobs /\ j' = j
      BY <1>1 DEF RefsOK, TypeAt
    <3> HIDE DEF j
    <3>2. CASE j.kind = "thenable"
      BY <1>4, <1>13, <3>1, <3>2, JobFields, Zenon DEF JobOK, j
    <3>3. CASE j.kind = "reaction"
      <4>1. j.from \in Promises /\ j.from # p
        BY <1>2, <3>1, <3>3, JobFields, Zenon DEF JobOK
      <4>2. promise_state'[j.from] = promise_state[j.from] /\ promise_result'[j.from] = promise_result[j.from]
        BY <1>4, <1>5, <4>1, Zenon
      <4> QED BY <1>14, <3>1, <3>3, <4>2, Zenon DEF JobOK, HandlerOK, j
    <3> QED BY <3>1, <3>2, <3>3, JobFields, Zenon
  <2> QED BY <2>1, <2>2, <2>3, Zenon DEF RefsOK
<1>16. ResolverOK(job_list, stack)'
  <2> SUFFICES ASSUME NEW q \in Promises PROVE ResolverAt(q, job_list, stack)'
    BY Zenon DEF ResolverOK
  <2>1. ThenablesFor(q)' = ThenablesFor(q) /\ ThenablesFor(p)' = ThenablesFor(p)
    BY Zenon DEF ThenablesFor
  <2>2. /\ NoneIn(stack, GettersFor(q)') <=> NoneIn(stack, GettersFor(q))
        /\ OneIn(stack, GettersFor(q)') <=> OneIn(stack, GettersFor(q))
    BY <1>2, GettersKept, ZenonT(40)
  <2>3. CASE q # p
    <3>1. ResolverAt(q, job_list, stack)
      BY <1>1, Zenon DEF ResolverOK
    <3>2. /\ NoneIn(stack', GettersFor(q)') <=> NoneIn(stack, GettersFor(q)')
          /\ OneIn(stack', GettersFor(q)') <=> OneIn(stack, GettersFor(q)')
      <4>1. CASE s = "pending"
        <5>0. fr \in Frames /\ fr.f = f /\ promise'[f] # q /\ stack' = Append(stack, fr)
          BY <1>4, <1>7, <1>10, <2>3, <4>1, Zenon
        <5>1. fr \notin GettersFor(q)'
          BY <5>0, Zenon DEF GettersFor
        <5>2. /\ NoneIn(Append(stack, fr), GettersFor(q)') <=> NoneIn(stack, GettersFor(q)')
              /\ OneIn(Append(stack, fr), GettersFor(q)') <=> OneIn(stack, GettersFor(q)')
          BY <1>9, <5>0, <5>1, AppendCount, Zenon
        <5> QED BY <5>0, <5>2, Zenon
      <4>2. CASE s # "pending"
        BY <1>7, <4>2, Zenon
      <4> QED BY <4>1, <4>2, Zenon
    <3>3. Live(q)' <=> Live(q)
      BY <1>4, <2>3, Zenon DEF Live
    <3>4. (NoPair(q)' <=> NoPair(q)) /\ (OnePair(q)' <=> OnePair(q))
      <4>1. \A g \in Pairs : promise'[g] = q <=> promise[g] = q
        BY <1>3, <1>4, <2>3, BoundAssumption, SMTT(30) DEF Promises
      <4>2. \A g \in Pairs : promise[g] = q => already_resolved'[g] = already_resolved[g]
        BY <1>3, <1>6, BoundAssumption DEF Promises
      <4> QED BY <4>1, <4>2, Zenon DEF NoPair, OnePair
    <3> QED BY <2>1, <2>2, <3>1, <3>2, <3>3, <3>4, Zenon DEF ResolverAt, NoResolver, ExactlyOne, NoneIn, OneIn
  <2>4. CASE q = p
    <3>1. \A g \in Pairs : promise'[g] = p <=> g = f
      BY <1>4, FreshPromiseFacts
    <3>2. NoneIn(job_list', ThenablesFor(p)') /\ NoneIn(stack, GettersFor(p)')
      BY <1>2, <2>1, <2>2, <2>4, Zenon
    <3>3. Live(p)' <=> s = "pending"
      BY <1>2, <1>4, Zenon DEF Live
    <3>4. CASE s = "pending" /\ ~already_resolved'[f]
      <4>1. OnePair(p)'
        BY <1>3, <3>1, <3>4, Zenon DEF OnePair
      <4>2. fr = Frame("executor", f, Undefined) /\ stack' = Append(stack, fr)
        BY <1>7, <3>4, Zenon
      <4>3. fr \notin GettersFor(p)'
        BY <4>2, Zenon DEF GettersFor, Frame
      <4>4. NoneIn(Append(stack, fr), GettersFor(p)')
        <5>1. fr \in Frames
          BY <1>10, <3>4, Zenon
        <5> QED BY <1>9, <3>2, <4>3, <5>1, AppendCount, Zenon
      <4>5. NoneIn(stack', GettersFor(p)')
        BY <4>2, <4>4, Zenon
      <4> QED BY <2>4, <3>2, <3>3, <3>4, <4>1, <4>5, Zenon DEF ResolverAt, ExactlyOne, NoneIn
    <3>5. CASE s = "pending" /\ already_resolved'[f]
      <4>1. NoPair(p)'
        BY <3>1, <3>5, Zenon DEF NoPair
      <4>2. fr = Frame("getter", f, v) /\ stack' = Append(stack, fr)
        BY <1>7, <3>5, Zenon
      <4>3. fr \in GettersFor(p)'
        <5>1. fr.kind = "getter"
          BY <4>2, Zenon DEF Frame
        <5>2. fr \in Frames /\ fr.f = f /\ promise'[f] = p
          BY <1>4, <1>10, <3>5, Zenon
        <5> QED BY <5>1, <5>2, Zenon DEF GettersFor
      <4>4. OneIn(Append(stack, fr), GettersFor(p)')
        <5>1. fr \in Frames
          BY <1>10, <3>5, Zenon
        <5> QED BY <1>9, <3>2, <4>3, <5>1, AppendCount, Zenon
      <4>5. OneIn(stack', GettersFor(p)')
        BY <4>2, <4>4, Zenon
      <4> QED BY <2>4, <3>2, <3>3, <3>5, <4>1, <4>5, Zenon DEF ResolverAt, ExactlyOne, NoneIn, OneIn
    <3>6. CASE s # "pending"
      <4>1. NoPair(p)' /\ stack' = stack
        BY <1>7, <3>1, <3>6, Zenon DEF NoPair
      <4> QED BY <2>4, <3>2, <3>3, <3>6, <4>1, Zenon DEF ResolverAt, NoResolver, NoneIn
    <3> QED BY <3>4, <3>5, <3>6, Zenon
  <2> QED BY <2>3, <2>4, Zenon
<1>17. OrderOK(job_list, started)'
  <2>1. AddedOK /\ SortedOK(job_list, started) /\ AccountedOK(job_list, started)
    BY <1>1, Zenon DEF OrderOK
  <2>2. AddedOK'
    <3>1. \A g \in Pairs : promise[g] # 0 => promise'[g] # 0
      BY <1>4, Zenon
    <3>2. (\A q \in Promises : \A i \in 1..Len(order[q]) : promise[order[q][i]] # 0)'
      BY <1>1, <2>1, <3>1 DEF AddedOK, TypeAt
    <3>3. (\A id \in lost : promise[id] # 0)'
      BY <1>1, <2>1, <3>1, Zenon DEF AddedOK, TypeAt
    <3> QED BY <2>1, <3>2, <3>3, ZenonT(40) DEF AddedOK, Increasing
  <2>3. SortedOK(job_list, started)'
    <3>1. (\A q \in Promises : started[q] # <<>> => Settled(q))'
      <4>1. \A q \in Promises : started[q] # <<>> => Settled(q)
        BY <2>1, ZenonT(40) DEF SortedOK
      <4>2. \A q \in Promises : Settled(q) => Settled(q)'
        BY <1>2, <1>4, Zenon DEF Settled
      <4> QED BY <1>0, <4>1, <4>2, ZenonT(40)
    <3>2. (\A q \in Promises : Increasing(started[q]))'
      BY <1>0, <2>1, Zenon DEF SortedOK, Increasing
    <3>3. (\A q \in Promises : \A m, n \in 1..Len(promise_reactions[q]) :
              m < n => promise_reactions[q][m].id < promise_reactions[q][n].id)'
      BY <1>0, <2>1, ZenonT(40) DEF SortedOK
    <3>4. (\A q \in Promises : \A m, n \in 1..Len(job_list) :
              m < n /\ From(q, job_list[m]) /\ From(q, job_list[n]) => job_list[m].id < job_list[n].id)'
      BY <1>0, <2>1, ZenonT(40) DEF SortedOK, From
    <3>5. (\A q \in Promises : \A m \in 1..Len(started[q]), n \in 1..Len(job_list) :
              From(q, job_list[n]) => started[q][m] < job_list[n].id)'
      BY <1>0, <2>1, ZenonT(40) DEF SortedOK, From
    <3> QED BY <3>1, <3>2, <3>3, <3>4, <3>5, ZenonT(40) DEF SortedOK
  <2>4. AccountedOK(job_list, started)'
    BY <2>1, SMTT(30) DEF AccountedOK, Accounted, Added, From
  <2> QED BY <2>2, <2>3, <2>4, Zenon DEF OrderOK
<1>18. AdoptOK(job_list, stack)'
  <2> SUFFICES ASSUME NEW q \in Promises, adopts[q] # 0 PROVE Adopted(q, job_list, stack)'
    BY <1>0, Zenon DEF AdoptOK, Adopted
  <2> DEFINE a == adopts[q]
  <2>1. /\ q # p /\ a # p /\ a \in Promises
        /\ promise_state'[q] = promise_state[q] /\ promise_state'[a] = promise_state[a]
        /\ promise_result'[q] = promise_result[q] /\ promise_result'[a] = promise_result[a]
    <3>1. q # p /\ a # p /\ a \in Promises
      BY <1>1, <1>2, Zenon DEF TypeAt
    <3> QED BY <1>4, <1>5, <3>1, Zenon
  <2>2. Adopted(q, job_list, stack)
    BY <1>1, Zenon DEF AdoptOK
  <2>3. /\ Stuck(q)' <=> Stuck(q)
        /\ JobWaits(q, adopts[q], job_list)' <=> JobWaits(q, a, job_list)
        /\ LooksAgain(adopts[q])' <=> LooksAgain(a)
        /\ SettledAs(q, adopts[q])' <=> SettledAs(q, a)
    BY <2>1, Zenon DEF Stuck, JobWaits, LooksAgain, SettledAs, Settled, ThenableJob
  <2>4. ASSUME PairWaits(q, a, job_list, stack) PROVE PairWaits(q, adopts[q], job_list, stack)'
    <3>1. PICK g \in Pairs : promise[g] = q /\ ~already_resolved[g] /\ OnlyFrom(a, g, job_list, stack)
      BY <2>4, Zenon DEF PairWaits
    <3>2. g # f
      BY <1>3, <3>1, BoundAssumption DEF Promises
    <3>3. promise'[g] = q /\ ~already_resolved'[g]
      BY <1>4, <1>6, <3>1, <3>2, ZenonT(40)
    <3>4. OnlyFrom(adopts[q], g, job_list, stack)'
      <4>1. \A k \in 1..Len(stack') : stack'[k].f # g
        <5>1. \A k \in 1..Len(stack) : stack[k].f # g
          BY <3>1, Zenon DEF OnlyFrom
        <5>2. s = "pending" => fr.f # g
          BY <1>10, <3>2, Zenon
        <5> QED BY <1>11, <5>1, <5>2, ZenonT(40)
      <4>2. g \notin given'
        BY <1>8, <3>1, <3>2, Zenon DEF OnlyFrom
      <4> QED BY <3>1, <4>1, <4>2 DEF OnlyFrom, Function
    <3> QED BY <3>3, <3>4, Zenon DEF PairWaits
  <2> QED BY <1>0, <2>2, <2>3, <2>4, ZenonT(40) DEF Adopted
<1> QED BY <1>12, <1>15, <1>16, <1>17, <1>18, Zenon DEF IInv, At

\* js_promise_constructor keeps the invariant.
LEMMA ConstructorStep ==
  ASSUME IInv, NEW p \in FreshPromise, NEW f \in FreshPair, js_promise_constructor(p, f)
  PROVE  IInv'
<1> DEFINE fr == Frame("executor", f, Undefined)
<1>1. /\ promise_state' = [promise_state EXCEPT ![p] = "pending"] /\ promise' = [promise EXCEPT ![f] = p]
      /\ promise_result' = promise_result
      /\ stack' = Append(stack, fr) /\ given' = given \cup {f} /\ already_resolved' = already_resolved
      /\ UNCHANGED <<promise_reactions, job_list, order, started, lost, stranded, adopts>>
  BY Zenon DEF js_promise_constructor
<1>2. fr = Frame("executor", f, Undefined)
  BY Zenon
<1> HIDE DEF fr
<1> QED BY <1>1, <1>2, CreateStep, ZenonT(40)

\* js_promise_resolve keeps the invariant.
LEMMA ResolveStep ==
  ASSUME IInv, NEW p \in FreshPromise, NEW f \in FreshPair, NEW i \in 0..1, NEW v \in Held,
         js_promise_resolve(i, v, p, f)
  PROVE  IInv'
<1> DEFINE fr == Frame("getter", f, v)
<1>1. /\ promise' = [promise EXCEPT ![f] = p]
      /\ already_resolved' = [already_resolved EXCEPT ![f] = TRUE] /\ given' = given
      /\ UNCHANGED <<promise_reactions, job_list, order, started, lost, stranded, adopts>>
      /\ i = 1 \/ v \notin Promises
  BY Zenon DEF js_promise_resolve
<1>2. fr = Frame("getter", f, v)
  BY Zenon
<1>3. Exists(v)
  BY HeldExists, Zenon
<1>4. CASE i = 0 /\ v \in Objects
  <2>1. /\ promise_state' = [promise_state EXCEPT ![p] = "pending"]
        /\ promise_result' = promise_result /\ stack' = Append(stack, fr) /\ v \in Objects
    BY <1>4, Zenon DEF js_promise_resolve
  <2> HIDE DEF fr
  <2> QED BY <1>1, <1>2, <2>1, CreateStep, ZenonT(40)
<1>5. CASE ~(i = 0 /\ v \in Objects)
  <2>1. PICK s \in {"fulfilled", "rejected"} : s = IF i = 1 THEN "rejected" ELSE "fulfilled"
    BY Zenon
  <2>2. /\ promise_state' = [promise_state EXCEPT ![p] = s]
        /\ promise_result' = [promise_result EXCEPT ![p] = v] /\ stack' = stack
    BY <1>5, <2>1, Zenon DEF js_promise_resolve
  <2>3. s # "pending" /\ s \in {"pending", "fulfilled", "rejected"} /\ (s = "fulfilled" => v \notin Promises)
    BY <1>1, <2>1, Zenon
  <2> HIDE DEF fr
  <2> QED BY <1>1, <1>3, <2>2, <2>3, CreateStep, ZenonT(40)
<1> QED BY <1>4, <1>5, Zenon
=============================================================================
