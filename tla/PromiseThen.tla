---------------------------- MODULE PromiseThen -----------------------------
(***************************************************************************)
(* The steps of module Promise that add reactions keep the invariant of    *)
(* module PromiseInvariant.                                                *)
(***************************************************************************)
EXTENDS PromiseSteps

-----------------------------------------------------------------------------
(* perform_promise_then.                                                    *)

\* The job j runs the reaction rd of p, as p has settled.
RunsFor(p, rd, j) ==
    /\ j.kind = "reaction" /\ j.from = p /\ j.id = rd.id /\ j.cap = rd.cap
    /\ j.is_reject \in 0..1 /\ j.handler = rd.handler[j.is_reject]
    /\ j.arg = promise_result[p] /\ promise_state[p] = StateOf(j.is_reject)

\* The reaction rd is the last of p, or its job is the last of the list, or it is
\* lost.
ThenChanges(p, rd, jobs) ==
    /\ job_list' \in Seq(Jobs) /\ promise_reactions' \in [Promises -> Seq(Reactions)]
    /\ order' \in [Promises -> Seq(Pairs)] /\ lost' \subseteq Pairs
    /\ \A k \in 1..Len(jobs) : k \in 1..Len(job_list') /\ job_list'[k] = jobs[k]
    /\ \A k \in 1..Len(job_list') :
           k \notin 1..Len(jobs) => k = Len(jobs) + 1 /\ RunsFor(p, rd, job_list'[k])
    /\ \A q \in Promises : \A k \in 1..Len(promise_reactions[q]) :
           k \in 1..Len(promise_reactions'[q]) /\ promise_reactions'[q][k] = promise_reactions[q][k]
    /\ \A q \in Promises : \A k \in 1..Len(promise_reactions'[q]) :
           k \notin 1..Len(promise_reactions[q]) =>
               /\ q = p /\ k = Len(promise_reactions[q]) + 1
               /\ promise_reactions'[q][k] = rd /\ promise_state[p] = "pending"
    /\ \A q \in Promises : q # p => order'[q] = order[q]
    /\ Len(order'[p]) = Len(order[p]) + 1 /\ order'[p][Len(order[p]) + 1] = rd.id
    /\ \A k \in 1..Len(order[p]) : order'[p][k] = order[p][k]
    /\ \A id \in Pairs : id # rd.id => (id \in lost' <=> id \in lost)
    /\ rd.id \notin lost =>
           \/ rd.id \in lost' /\ Len(job_list') = Len(jobs) /\ Len(promise_reactions'[p]) = Len(promise_reactions[p])
           \/ /\ rd.id \notin lost'
              /\ \/ Len(job_list') = Len(jobs) + 1
                 \/ Len(promise_reactions'[p]) = Len(promise_reactions[p]) + 1

\* perform_promise_then does one of these.
LEMMA ThenShape ==
  ASSUME NEW p \in Promises, NEW rd \in Reactions, NEW jobs \in Seq(Jobs), promise_state[p] # "none",
         promise_state \in [Promises -> {"none", "pending", "fulfilled", "rejected"}],
         promise_result \in [Promises -> Values],
         promise_reactions \in [Promises -> Seq(Reactions)],
         order \in [Promises -> Seq(Pairs)], lost \subseteq Pairs,
         perform_promise_then(p, rd, jobs)
  PROVE  ThenChanges(p, rd, jobs)
<1>1. rd.id \in Pairs /\ order[p] \in Seq(Pairs) /\ promise_reactions[p] \in Seq(Reactions) /\ promise_result[p] \in Values
  BY ReactionFields, Zenon
<1>2. order' = [order EXCEPT ![p] = Append(order[p], rd.id)]
  BY Zenon DEF perform_promise_then
<1>3. /\ order' \in [Promises -> Seq(Pairs)]
      /\ \A q \in Promises : q # p => order'[q] = order[q]
      /\ order'[p] = Append(order[p], rd.id)
  BY <1>1, <1>2
<1>4. /\ Len(order'[p]) = Len(order[p]) + 1 /\ order'[p][Len(order[p]) + 1] = rd.id
      /\ \A k \in 1..Len(order[p]) : order'[p][k] = order[p][k]
  BY <1>1, <1>3
<1>5. CASE promise_state[p] = "pending"
  <2>1. /\ promise_reactions' = [promise_reactions EXCEPT ![p] = Append(promise_reactions[p], rd)]
        /\ job_list' = jobs /\ lost' = lost
    BY <1>5, Zenon DEF perform_promise_then
  <2>2. /\ promise_reactions' \in [Promises -> Seq(Reactions)]
        /\ \A q \in Promises : q # p => promise_reactions'[q] = promise_reactions[q]
        /\ promise_reactions'[p] = Append(promise_reactions[p], rd)
    BY <1>1, <2>1
  <2>3. /\ Len(promise_reactions[p]) \in Nat
        /\ Len(promise_reactions'[p]) = Len(promise_reactions[p]) + 1
        /\ promise_reactions'[p][Len(promise_reactions[p]) + 1] = rd
        /\ \A k \in 1..Len(promise_reactions[p]) : promise_reactions'[p][k] = promise_reactions[p][k]
    BY <1>1, <2>2
  <2>4. \A q \in Promises : \A k \in 1..Len(promise_reactions[q]) :
           k \in 1..Len(promise_reactions'[q]) /\ promise_reactions'[q][k] = promise_reactions[q][k]
    <3>1. \A k \in 1..Len(promise_reactions[p]) :
             k \in 1..Len(promise_reactions'[p]) /\ promise_reactions'[p][k] = promise_reactions[p][k]
      BY <2>3
    <3> QED BY <2>2, <3>1, ZenonT(40)
  <2>5. \A q \in Promises : \A k \in 1..Len(promise_reactions'[q]) :
           k \notin 1..Len(promise_reactions[q]) =>
               /\ q = p /\ k = Len(promise_reactions[q]) + 1
               /\ promise_reactions'[q][k] = rd /\ promise_state[p] = "pending"
    BY <1>5, <2>2, <2>3
  <2>6. \A k \in 1..Len(jobs) : k \in 1..Len(job_list') /\ job_list'[k] = jobs[k]
    BY <2>1, Zenon
  <2>7. \A k \in 1..Len(job_list') : k \notin 1..Len(jobs) => FALSE
    BY <2>1, Zenon
  <2> QED BY <1>3, <1>4, <2>1, <2>2, <2>3, <2>4, <2>5, <2>6, <2>7, Zenon DEF ThenChanges
<1>6. CASE promise_state[p] # "pending"
  <2> DEFINE i == IF promise_state[p] = "rejected" THEN 1 ELSE 0
             job == ReactionJob(p, rd, i, promise_result[p])
  <2>1. /\ \/ job_list' = Append(jobs, job) /\ lost' = lost
           \/ job_list' = jobs /\ lost' = lost \cup {rd.id}
        /\ promise_reactions' = promise_reactions
    BY <1>6, Zenon DEF perform_promise_then
  <2>2. i \in 0..1 /\ promise_state[p] = StateOf(i)
    <3>1. promise_state[p] \in {"fulfilled", "rejected"}
      BY <1>6, Zenon
    <3> QED BY <3>1 DEF StateOf
  <2> HIDE DEF i
  <2>3. /\ job \in Jobs /\ job.kind = "reaction" /\ job.from = p /\ job.id = rd.id /\ job.cap = rd.cap
        /\ job.handler = rd.handler[i] /\ job.is_reject = i /\ job.arg = promise_result[p]
    BY <1>1, <2>2, ReactionJobFields
  <2> HIDE DEF job
  <2>4. RunsFor(p, rd, job)
    BY <2>2, <2>3, Zenon DEF RunsFor
  <2>5. \A q \in Promises : \A k \in 1..Len(promise_reactions[q]) :
           k \in 1..Len(promise_reactions'[q]) /\ promise_reactions'[q][k] = promise_reactions[q][k]
    BY <2>1, Zenon
  <2>6. \A q \in Promises : \A k \in 1..Len(promise_reactions'[q]) : k \notin 1..Len(promise_reactions[q]) => FALSE
    BY <2>1, Zenon
  <2>7. CASE job_list' = Append(jobs, job) /\ lost' = lost
    <3>1. /\ job_list' \in Seq(Jobs) /\ Len(jobs) \in Nat /\ Len(job_list') = Len(jobs) + 1
          /\ job_list'[Len(jobs) + 1] = job /\ \A k \in 1..Len(jobs) : job_list'[k] = jobs[k]
      BY <2>3, <2>7
    <3>2. \A k \in 1..Len(jobs) : k \in 1..Len(job_list') /\ job_list'[k] = jobs[k]
      BY <3>1
    <3>3. \A k \in 1..Len(job_list') :
             k \notin 1..Len(jobs) => k = Len(jobs) + 1 /\ RunsFor(p, rd, job_list'[k])
      BY <2>4, <3>1
    <3> QED BY <1>3, <1>4, <2>1, <2>5, <2>6, <2>7, <3>1, <3>2, <3>3, Zenon DEF ThenChanges
  <2>8. CASE job_list' = jobs /\ lost' = lost \cup {rd.id}
    <3>1. \A k \in 1..Len(jobs) : k \in 1..Len(job_list') /\ job_list'[k] = jobs[k]
      BY <2>8, Zenon
    <3>2. \A k \in 1..Len(job_list') : k \notin 1..Len(jobs) => FALSE
      BY <2>8, Zenon
    <3>3. lost' \subseteq Pairs /\ rd.id \in lost' /\ \A id \in Pairs : id # rd.id => (id \in lost' <=> id \in lost)
      BY <1>1, <2>8, Zenon
    <3> QED BY <1>3, <1>4, <2>1, <2>5, <2>6, <2>8, <3>1, <3>2, <3>3, Zenon DEF ThenChanges
  <2> QED BY <2>1, <2>7, <2>8, Zenon
<1> QED BY <1>5, <1>6, Zenon

\* It adds no thenable job.
LEMMA ThenCount ==
  ASSUME NEW p \in Promises, NEW rd \in Reactions, NEW jobs \in Seq(Jobs), ThenChanges(p, rd, jobs),
         NEW q \in Promises
  PROVE  /\ NoneIn(job_list', ThenablesFor(q)) <=> NoneIn(jobs, ThenablesFor(q))
         /\ OneIn(job_list', ThenablesFor(q)) <=> OneIn(jobs, ThenablesFor(q))
<1>1. \A k \in 1..Len(jobs) : k \in 1..Len(job_list') /\ job_list'[k] = jobs[k]
  BY Zenon DEF ThenChanges
<1>2. \A k \in 1..Len(job_list') : k \notin 1..Len(jobs) => job_list'[k] \notin ThenablesFor(q)
  BY Zenon DEF ThenChanges, RunsFor, ThenablesFor
<1>3. \A k \in 1..Len(job_list') : job_list'[k] \in ThenablesFor(q) => k \in 1..Len(jobs) /\ job_list'[k] = jobs[k]
  BY <1>1, <1>2, Zenon
<1> QED BY <1>1, <1>3, ZenonT(40) DEF NoneIn, OneIn

\* The reaction rd, with the new pair f as its number, refers to what exists.  The
\* step also sets the promise of f and creates promises, but changes none.
NewReaction(p, rd, f) ==
    /\ p \in Promises /\ promise_state[p] # "none" /\ rd \in Reactions /\ f \in Pairs /\ rd.id = f
    /\ promise[f] = 0 /\ promise'[f] # 0
    /\ \A g \in Pairs : promise[g] # 0 => g < f /\ promise'[g] = promise[g]
    /\ \A q \in Promises : promise_state[q] # "none" => promise_state'[q] = promise_state[q]
    /\ promise_result' = promise_result
    /\ HandlerOK(rd.handler[0])' /\ HandlerOK(rd.handler[1])'
    /\ \/ rd.cap = f
       \/ rd.cap = Discarded /\ rd.handler[0] = Function(f, 0) /\ rd.handler[1] = Function(f, 1)

\* The reactions and the jobs after perform_promise_then are right.
LEMMA ThenRefs ==
  ASSUME NEW p, NEW rd, NEW f, NEW jobs \in Seq(Jobs), PromiseOK, NewReaction(p, rd, f),
         \A k \in 1..Len(jobs) : JobOK(jobs[k]), ThenChanges(p, rd, jobs)
  PROVE  /\ \A k \in 1..Len(job_list') : JobOK(job_list[k])'
         /\ \A q \in Promises : \A k \in 1..Len(promise_reactions'[q]) : ReactionOK(q, promise_reactions[q][k])'
<1>1. \A g : Pair(g) => Pair(g)'
  BY Zenon DEF NewReaction, Pair
<1>2. \A h : HandlerOK(h) => HandlerOK(h)'
  BY <1>1, Zenon DEF HandlerOK
<1>3. Pair(rd.id)' /\ HandlerOK(rd.handler[0])' /\ HandlerOK(rd.handler[1])' /\ p \in Promises /\ rd \in Reactions
  BY Zenon DEF NewReaction, Pair
<1>4. promise_result' = promise_result /\ \A q \in Promises : promise_state[q] # "none" => promise_state'[q] = promise_state[q]
  BY Zenon DEF NewReaction
<1>5. \/ rd.cap = rd.id
      \/ rd.cap = Discarded /\ rd.handler[0] = Function(rd.id, 0) /\ rd.handler[1] = Function(rd.id, 1)
  BY Zenon DEF NewReaction
<1>6. ASSUME NEW k \in 1..Len(job_list') PROVE JobOK(job_list[k])'
  <2>1. CASE k \in 1..Len(jobs)
    <3> DEFINE j == jobs[k]
    <3>1. JobOK(j) /\ j \in Jobs /\ job_list'[k] = j
      BY <2>1 DEF ThenChanges
    <3> HIDE DEF j
    <3>2. CASE j.kind = "thenable"
      <4>1. promise_state'[j.promise] # "none" /\ Exists(j.thenable)'
        BY <1>4, <3>1, <3>2, JobFields, Zenon DEF JobOK, Exists
      <4> QED BY <3>1, <3>2, <4>1, Zenon DEF JobOK
    <3>3. CASE j.kind = "reaction"
      <4>1. j.from \in Promises /\ promise_state[j.from] # "none"
        BY <3>1, <3>3, JobFields, Zenon DEF JobOK
      <4>2. promise_state'[j.from] = promise_state[j.from]
        BY <1>4, <4>1, Zenon
      <4>3. Pair(j.id)' /\ HandlerOK(j.handler)'
        BY <1>1, <1>2, <3>1, <3>3, Zenon DEF JobOK
      <4> QED BY <1>4, <3>1, <3>3, <4>2, <4>3, Zenon DEF JobOK
    <3> QED BY <3>1, <3>2, <3>3, JobFields, Zenon
  <2>2. CASE k \notin 1..Len(jobs)
    <3>0. PICK j : j = job_list'[k]
      BY Zenon
    <3>1. RunsFor(p, rd, j)
      BY <2>2, <3>0, Zenon DEF ThenChanges
    <3>2. j.kind = "reaction" /\ j.from = p /\ j.id = rd.id /\ j.cap = rd.cap /\ j.is_reject \in 0..1
          /\ j.handler = rd.handler[j.is_reject] /\ j.arg = promise_result[p] /\ promise_state[p] = StateOf(j.is_reject)
      BY <3>1, Zenon DEF RunsFor
    <3>3. promise_state'[p] = StateOf(j.is_reject) /\ promise_result'[p] = promise_result[p]
      BY <1>3, <1>4, <3>2, Zenon DEF StateOf
    <3>4. \/ j.handler = rd.handler[0] /\ j.is_reject = 0
          \/ j.handler = rd.handler[1] /\ j.is_reject = 1
      BY <3>2
    <3>5. (j.handler.kind = "function" => Pair(j.handler.f)') /\ Pair(rd.id)'
      BY <1>3, <3>4, Zenon DEF HandlerOK
    <3>6. j.cap = j.id \/ (j.cap = Discarded /\ j.handler = Function(j.id, j.is_reject))
      <4>1. CASE rd.cap = rd.id
        BY <3>2, <4>1, Zenon
      <4>2. CASE rd.cap = Discarded /\ rd.handler[0] = Function(rd.id, 0) /\ rd.handler[1] = Function(rd.id, 1)
        BY <3>2, <3>4, <4>2, Zenon
      <4> QED BY <1>5, <4>1, <4>2, Zenon
    <3>7. /\ promise_state'[j.from] = IF j.is_reject = 1 THEN "rejected" ELSE "fulfilled"
          /\ j.arg = promise_result'[j.from]
      BY <3>2, <3>3, Zenon DEF StateOf
    <3>8. Pair(j.id)'
      BY <3>2, <3>5, Zenon DEF Pair
    <3>9. job_list'[k] = j /\ j.kind # "thenable"
      BY <3>0, <3>2, Zenon
    <3> QED BY <3>5, <3>6, <3>7, <3>8, <3>9, Zenon DEF JobOK, HandlerOK, Pair
  <2> QED BY <2>1, <2>2, Zenon
<1>7. ASSUME NEW q \in Promises, NEW k \in 1..Len(promise_reactions'[q]) PROVE ReactionOK(q, promise_reactions[q][k])'
  <2>1. CASE k \in 1..Len(promise_reactions[q])
    <3> DEFINE r == promise_reactions[q][k]
    <3>1. ReactionOK(q, r) /\ promise_reactions'[q][k] = r
      BY <2>1 DEF ThenChanges, PromiseOK
    <3> HIDE DEF r
    <3>2. promise_state'[q] = "pending"
      BY <1>4, <3>1, Zenon DEF ReactionOK
    <3> QED BY <1>1, <1>2, <3>1, <3>2, Zenon DEF ReactionOK
  <2>2. CASE k \notin 1..Len(promise_reactions[q])
    <3>1. q = p /\ promise_reactions'[q][k] = rd /\ promise_state[p] = "pending"
      BY <2>2, Zenon DEF ThenChanges
    <3>2. promise_state'[p] = "pending"
      BY <1>3, <1>4, <3>1, Zenon
    <3> QED BY <1>3, <1>5, <3>1, <3>2, Zenon DEF ReactionOK
  <2> QED BY <2>1, <2>2, Zenon
<1> QED BY <1>6, <1>7, Zenon

\* Nothing but reactions of q can call g, as before.
LEMMA ThenOnly ==
  ASSUME NEW p \in Promises, NEW rd \in Reactions, NEW jobs \in Seq(Jobs), ThenChanges(p, rd, jobs), NEW stk, NEW q, NEW g \in Pairs,
         OnlyFrom(q, g, jobs, stk), rd.cap # g,
         \A i \in 0..1 : rd.handler[i].f = g => p = q /\ rd.handler[i] = Function(g, i),
         g \notin given', \A k \in 1..Len(stack') : stack'[k].f # g
  PROVE  OnlyFrom(q, g, job_list, stack)'
<1>1. ASSUME NEW k \in 1..Len(job_list'), job_list'[k].kind = "reaction"
      PROVE  /\ job_list'[k].cap # g
             /\ job_list'[k].handler.f = g => job_list'[k].from = q /\ job_list'[k].handler = Function(g, job_list'[k].is_reject)
  <2>1. CASE k \in 1..Len(jobs)
    <3>1. job_list'[k] = jobs[k]
      BY <2>1, Zenon DEF ThenChanges
    <3> QED BY <1>1, <2>1, <3>1, Zenon DEF OnlyFrom
  <2>2. CASE k \notin 1..Len(jobs)
    <3>1. RunsFor(p, rd, job_list'[k])
      BY <2>2, Zenon DEF ThenChanges
    <3> QED BY <3>1, Zenon DEF RunsFor
  <2> QED BY <2>1, <2>2, Zenon
<1>2. ASSUME NEW r \in Promises, NEW k \in 1..Len(promise_reactions'[r]), NEW i \in 0..1
      PROVE  /\ promise_reactions'[r][k].cap # g
             /\ promise_reactions'[r][k].handler[i].f = g => r = q /\ promise_reactions'[r][k].handler[i] = Function(g, i)
  <2>1. CASE k \in 1..Len(promise_reactions[r])
    <3>1. promise_reactions'[r][k] = promise_reactions[r][k]
      BY <2>1, Zenon DEF ThenChanges
    <3> QED BY <2>1, <3>1 DEF OnlyFrom
  <2>2. CASE k \notin 1..Len(promise_reactions[r])
    <3>1. r = p /\ promise_reactions'[r][k] = rd
      BY <2>2, Zenon DEF ThenChanges
    <3> QED BY <3>1, Zenon
  <2> QED BY <2>1, <2>2, Zenon
<1>3. g \notin given' /\ \A k \in 1..Len(stack') : stack'[k].f # g
  BY Zenon
<1> QED BY <1>1, <1>2, <1>3, Zenon DEF OnlyFrom

\* The reactions stay in order: rd has the highest number, and is the last of the
\* reactions of p or of their jobs.
LEMMA ThenOrder ==
  ASSUME NEW p, NEW rd, NEW f, NEW jobs, TypeAt(jobs, stack, started), PromiseOK, NewReaction(p, rd, f),
         \A k \in 1..Len(jobs) : JobOK(jobs[k]), ThenChanges(p, rd, jobs), OrderOK(jobs, started),
         started' = started
  PROVE  OrderOK(job_list, started)'
<1>1. /\ p \in Promises /\ f \in Pairs /\ rd.id = f /\ promise'[f] # 0 /\ promise[f] = 0
      /\ \A g \in Pairs : promise[g] # 0 => g < f /\ promise'[g] = promise[g]
      /\ \A q \in Promises : promise_state[q] # "none" => promise_state'[q] = promise_state[q]
  BY Zenon DEF NewReaction
<1>2. /\ jobs \in Seq(Jobs) /\ Len(jobs) \in Nat
      /\ \A q \in Promises : /\ order[q] \in Seq(Pairs) /\ Len(order[q]) \in Nat
                             /\ started[q] \in Seq(Pairs) /\ Len(started[q]) \in Nat
                             /\ promise_reactions[q] \in Seq(Reactions) /\ Len(promise_reactions[q]) \in Nat
      /\ lost \subseteq Pairs
  BY DEF TypeAt
<1>3. AddedOK /\ SortedOK(jobs, started) /\ AccountedOK(jobs, started)
  BY Zenon DEF OrderOK
<1>4. \A q \in Promises : \A k \in 1..Len(order[q]) : order[q][k] \in Pairs /\ order[q][k] < f /\ promise'[order[q][k]] # 0
  BY <1>1, <1>2, <1>3 DEF AddedOK
<1>5. \A k \in 1..Len(jobs) : jobs[k].kind = "reaction" => jobs[k].id \in Pairs /\ jobs[k].id < f
  BY <1>1, <1>2, Zenon DEF JobOK, Pair
<1>6. \A q \in Promises : \A k \in 1..Len(promise_reactions[q]) :
         promise_reactions[q][k].id \in Pairs /\ promise_reactions[q][k].id < f
  BY <1>1 DEF PromiseOK, ReactionOK, Pair
<1>7. \A q \in Promises : \A k \in 1..Len(started[q]) : started[q][k] \in Pairs /\ started[q][k] < f
  <2> SUFFICES ASSUME NEW q \in Promises, NEW k \in 1..Len(started[q]) PROVE started[q][k] \in Pairs /\ started[q][k] < f
    BY Zenon
  <2>1. started[q][k] \in Pairs
    BY <1>2
  <2>2. Added(q, started[q][k])
    BY <1>3, <2>1, Zenon DEF AccountedOK, Accounted
  <2> QED BY <1>4, <2>1, <2>2, Zenon DEF Added
<1>8. f \notin lost /\ \A id \in lost : promise'[id] # 0
  BY <1>1, <1>2, <1>3, SMTT(30) DEF AddedOK
<1>9. /\ \A k \in 1..Len(jobs) : k \in 1..Len(job_list') /\ job_list'[k] = jobs[k]
      /\ \A k \in 1..Len(job_list') : k \notin 1..Len(jobs) =>
             k = Len(jobs) + 1 /\ job_list'[k].kind = "reaction" /\ job_list'[k].from = p /\ job_list'[k].id = f
                               /\ promise_state[p] # "pending"
  BY <1>1, Zenon DEF ThenChanges, RunsFor, StateOf
<1>10. /\ \A q \in Promises : \A k \in 1..Len(promise_reactions[q]) :
             k \in 1..Len(promise_reactions'[q]) /\ promise_reactions'[q][k] = promise_reactions[q][k]
       /\ \A q \in Promises : \A k \in 1..Len(promise_reactions'[q]) : k \notin 1..Len(promise_reactions[q]) =>
             q = p /\ k = Len(promise_reactions[q]) + 1 /\ promise_reactions'[q][k].id = f
  BY <1>1 DEF ThenChanges
<1>11. /\ \A q \in Promises : q # p => order'[q] = order[q]
       /\ Len(order'[p]) = Len(order[p]) + 1 /\ order'[p][Len(order[p]) + 1] = f
       /\ \A k \in 1..Len(order[p]) : order'[p][k] = order[p][k]
  BY <1>1, Zenon DEF ThenChanges
<1>12. \A q \in Promises : \A k \in 1..Len(order'[q]) :
          \/ k \in 1..Len(order[q]) /\ order'[q][k] = order[q][k]
          \/ q = p /\ k = Len(order[p]) + 1 /\ order'[q][k] = f
  <2> SUFFICES ASSUME NEW q \in Promises, NEW k \in 1..Len(order'[q])
               PROVE  \/ k \in 1..Len(order[q]) /\ order'[q][k] = order[q][k]
                      \/ q = p /\ k = Len(order[p]) + 1 /\ order'[q][k] = f
    BY Zenon
  <2>1. CASE q # p
    BY <1>11, <2>1, Zenon
  <2>2. CASE q = p
    BY <1>2, <1>11, <2>2
  <2> QED BY <2>1, <2>2, Zenon
<1>13. AddedOK'
  <2>1. ASSUME NEW q \in Promises, NEW i \in 1..Len(order'[q]), NEW j \in 1..Len(order'[q]), i < j
        PROVE  order'[q][i] < order'[q][j]
    <3>1. i \in 1..Len(order[q]) /\ order'[q][i] = order[q][i]
      BY <1>2, <1>11, <1>12, <2>1
    <3>2. CASE j \in 1..Len(order[q]) /\ order'[q][j] = order[q][j]
      BY <1>3, <2>1, <3>1, <3>2, Zenon DEF AddedOK, Increasing
    <3>3. CASE order'[q][j] = f
      BY <1>4, <3>1, <3>3, Zenon
    <3> QED BY <1>12, <3>2, <3>3, Zenon
  <2>2. ASSUME NEW q \in Promises, NEW i \in 1..Len(order'[q]) PROVE promise'[order'[q][i]] # 0
    BY <1>1, <1>4, <1>12
  <2>3. ASSUME NEW q \in Promises, NEW r \in Promises, NEW i \in 1..Len(order'[q]), NEW j \in 1..Len(order'[r]),
               order'[q][i] = order'[r][j]
        PROVE  q = r
    <3>1. CASE order'[q][i] = f
      <4>1. \A t \in Promises : \A k \in 1..Len(order[t]) : order[t][k] # f
        BY <1>1, <1>4 DEF Pairs
      <4>2. q = p
        BY <1>12, <3>1, <4>1, ZenonT(40)
      <4>3. r = p
        BY <1>12, <2>3, <3>1, <4>1, ZenonT(40)
      <4> QED BY <4>2, <4>3, Zenon
    <3>2. CASE order'[q][i] # f
      <4>1. i \in 1..Len(order[q]) /\ j \in 1..Len(order[r]) /\ order[q][i] = order[r][j]
        BY <1>12, <2>3, <3>2, Zenon
      <4> QED BY <1>3, <4>1, Zenon DEF AddedOK
    <3> QED BY <3>1, <3>2, Zenon
  <2>4. ASSUME NEW id \in lost' PROVE promise'[id] # 0
    <3>1. id \in Pairs /\ (id # f => id \in lost)
      BY <1>1, Zenon DEF ThenChanges
    <3> QED BY <1>1, <1>8, <3>1, Zenon
  <2>5. (\A q \in Promises : Increasing(order[q]))'
    BY <2>1, Zenon DEF Increasing
  <2> QED BY <2>2, <2>3, <2>4, <2>5, Zenon DEF AddedOK
<1>14. SortedOK(job_list, started)'
  <2>1. (\A q \in Promises : Increasing(started[q]))'
    BY <1>3, Zenon DEF SortedOK, Increasing
  <2>2. ASSUME NEW q \in Promises, NEW i \in 1..Len(promise_reactions'[q]), NEW j \in 1..Len(promise_reactions'[q]), i < j
        PROVE  promise_reactions'[q][i].id < promise_reactions'[q][j].id
    <3>1. i \in 1..Len(promise_reactions[q]) /\ promise_reactions'[q][i] = promise_reactions[q][i]
      <4>1. i \notin 1..Len(promise_reactions[q]) => i = Len(promise_reactions[q]) + 1
        BY <1>10, Zenon
      <4>2. j \in 1..Len(promise_reactions[q]) \/ j = Len(promise_reactions[q]) + 1
        BY <1>10, Zenon
      <4>3. i \in 1..Len(promise_reactions[q])
        BY <1>2, <2>2, <4>1, <4>2
      <4> QED BY <1>10, <4>3, Zenon
    <3>2. CASE j \in 1..Len(promise_reactions[q])
      <4>1. promise_reactions'[q][j] = promise_reactions[q][j]
        BY <1>10, <3>2, Zenon
      <4> QED BY <1>3, <2>2, <3>1, <3>2, <4>1, Zenon DEF SortedOK
    <3>3. CASE j \notin 1..Len(promise_reactions[q])
      <4>1. promise_reactions'[q][j].id = f
        BY <1>10, <3>3, Zenon
      <4>2. promise_reactions[q][i].id < f
        BY <1>6, <3>1, Zenon
      <4> QED BY <3>1, <4>1, <4>2, Zenon
    <3> QED BY <3>2, <3>3, Zenon
  <2>3. ASSUME NEW q \in Promises, NEW i \in 1..Len(job_list'), NEW j \in 1..Len(job_list'), i < j,
               From(q, job_list[i])', From(q, job_list[j])'
        PROVE  job_list'[i].id < job_list'[j].id
    <3>1. i \in 1..Len(jobs) /\ job_list'[i] = jobs[i]
      <4>1. i \notin 1..Len(jobs) => i = Len(jobs) + 1
        BY <1>9, Zenon
      <4>2. j \in 1..Len(jobs) \/ j = Len(jobs) + 1
        BY <1>9, Zenon
      <4>3. i \in 1..Len(jobs)
        BY <1>2, <2>3, <4>1, <4>2, SMTT(30)
      <4> QED BY <1>9, <4>3, Zenon
    <3>2. CASE j \in 1..Len(jobs)
      <4>1. job_list'[j] = jobs[j]
        BY <1>9, <3>2, Zenon
      <4>2. From(q, jobs[i]) /\ From(q, jobs[j])
        BY <2>3, <3>1, <4>1, Zenon DEF From
      <4> QED BY <1>3, <2>3, <3>1, <3>2, <4>1, <4>2, SMTT(30) DEF SortedOK
    <3>3. CASE j \notin 1..Len(jobs)
      <4>1. job_list'[j].id = f
        BY <1>9, <3>3, Zenon
      <4>2. jobs[i].id < f
        BY <1>5, <2>3, <3>1, Zenon DEF From
      <4> QED BY <3>1, <4>1, <4>2, Zenon
    <3> QED BY <3>2, <3>3, Zenon
  <2>4. ASSUME NEW q \in Promises, NEW i \in 1..Len(started'[q]), NEW j \in 1..Len(job_list'), From(q, job_list[j])'
        PROVE  started'[q][i] < job_list'[j].id
    <3>1. CASE j \in 1..Len(jobs)
      <4>1. job_list'[j] = jobs[j] /\ From(q, jobs[j])
        BY <1>9, <2>4, <3>1, Zenon DEF From
      <4> QED BY <1>3, <3>1, <4>1, Zenon DEF SortedOK
    <3>2. CASE j \notin 1..Len(jobs)
      <4>1. job_list'[j].id = f /\ started[q][i] < f
        BY <1>7, <1>9, <3>2, Zenon
      <4> QED BY <4>1, Zenon
    <3> QED BY <3>1, <3>2, Zenon
  <2>5. ASSUME NEW q \in Promises, started'[q] # <<>> PROVE Settled(q)'
    <3>1. started[q] # <<>>
      BY <2>5, Zenon
    <3>2. Settled(q)
      BY <1>3, <3>1, ZenonT(40) DEF SortedOK
    <3> QED BY <1>1, <3>2, Zenon DEF Settled
  <2> QED BY <2>1, <2>2, <2>3, <2>4, <2>5, ZenonT(40) DEF SortedOK
<1>15. ASSUME NEW q \in Promises, NEW id \in Pairs
       PROVE  (Accounted(q, id, job_list, started) <=> Added(q, id) /\ id \notin lost)'
  <2>1. CASE id # f
    <3>1. Accounted(q, id, jobs, started) <=> Added(q, id) /\ id \notin lost
      BY <1>3, Zenon DEF AccountedOK
    <3>2. (Added(q, id)' <=> Added(q, id)) /\ (id \in lost' <=> id \in lost)
      <4>1. Added(q, id)' => Added(q, id)
        BY <1>12, <2>1, Zenon DEF Added
      <4>2. Added(q, id) => Added(q, id)'
        <5>1. CASE q = p
          BY <1>2, <1>11, <5>1, SMTT(30) DEF Added
        <5>2. CASE q # p
          BY <1>11, <5>2, Zenon DEF Added
        <5> QED BY <5>1, <5>2, Zenon
      <4> QED BY <1>1, <2>1, <4>1, <4>2, Zenon DEF ThenChanges
    <3>3. (\E k \in 1..Len(job_list') : From(q, job_list[k])' /\ job_list'[k].id = id)
             <=> (\E k \in 1..Len(jobs) : From(q, jobs[k]) /\ jobs[k].id = id)
      <4>1. \A k \in 1..Len(job_list') : job_list'[k].id = id => k \in 1..Len(jobs) /\ job_list'[k] = jobs[k]
        BY <1>9, <2>1, Zenon
      <4> QED BY <1>9, <4>1, ZenonT(40) DEF From
    <3>4. (\E k \in 1..Len(promise_reactions'[q]) : promise_reactions'[q][k].id = id)
             <=> (\E k \in 1..Len(promise_reactions[q]) : promise_reactions[q][k].id = id)
      <4>1. \A k \in 1..Len(promise_reactions'[q]) : promise_reactions'[q][k].id = id =>
               k \in 1..Len(promise_reactions[q]) /\ promise_reactions'[q][k] = promise_reactions[q][k]
        BY <1>10, <2>1, Zenon
      <4> QED BY <1>10, <4>1, ZenonT(40)
    <3>5. Accounted(q, id, job_list, started)' <=> Accounted(q, id, jobs, started)
      BY <3>3, <3>4, ZenonT(40) DEF Accounted
    <3> QED BY <3>1, <3>2, <3>5, Zenon
  <2>2. CASE id = f
    <3>1. /\ ~\E k \in 1..Len(started'[q]) : started'[q][k] = id
          /\ \A k \in 1..Len(job_list') : From(q, job_list[k])' /\ job_list'[k].id = id => k \notin 1..Len(jobs) /\ q = p
          /\ \A k \in 1..Len(promise_reactions'[q]) : promise_reactions'[q][k].id = id =>
                 k \notin 1..Len(promise_reactions[q]) /\ q = p
      <4>1. ~\E k \in 1..Len(started'[q]) : started'[q][k] = id
        BY <1>7, <2>2 DEF Pairs
      <4>2. ASSUME NEW k \in 1..Len(job_list'), From(q, job_list[k])', job_list'[k].id = id
            PROVE  k \notin 1..Len(jobs) /\ q = p
        <5>1. k \notin 1..Len(jobs)
          <6>1. SUFFICES ASSUME k \in 1..Len(jobs) PROVE FALSE
            BY Zenon
          <6>2. jobs[k].kind = "reaction" /\ jobs[k].id = f
            BY <1>9, <2>2, <4>2, <6>1, Zenon DEF From
          <6> QED BY <1>5, <6>1, <6>2, SMTT(30) DEF Pairs
        <5> QED BY <1>9, <4>2, <5>1, Zenon DEF From
      <4>3. ASSUME NEW k \in 1..Len(promise_reactions'[q]), promise_reactions'[q][k].id = id
            PROVE  k \notin 1..Len(promise_reactions[q]) /\ q = p
        <5>1. k \notin 1..Len(promise_reactions[q])
          <6>1. SUFFICES ASSUME k \in 1..Len(promise_reactions[q]) PROVE FALSE
            BY Zenon
          <6>2. promise_reactions[q][k].id = f
            BY <1>10, <2>2, <4>3, <6>1, Zenon
          <6> QED BY <1>6, <6>1, <6>2 DEF Pairs
        <5> QED BY <1>10, <5>1, Zenon
      <4> QED BY <4>1, <4>2, <4>3, Zenon
    <3>2. CASE q # p
      <4>1. ~Accounted(q, id, job_list, started)'
        BY <3>1, <3>2, ZenonT(40) DEF Accounted
      <4>2. ~Added(q, id)'
        <5>1. \A k \in 1..Len(order'[q]) : order'[q][k] < f
          BY <1>4, <1>12, <3>2, Zenon
        <5> QED BY <1>1, <2>2, <5>1 DEF Added, Pairs
      <4> QED BY <4>1, <4>2, Zenon
    <3>3. CASE q = p
      <4>1. Added(p, f)'
        BY <1>2, <1>11 DEF Added
      <4>2. CASE f \in lost' /\ Len(job_list') = Len(jobs) /\ Len(promise_reactions'[p]) = Len(promise_reactions[p])
        <5>1. ~Accounted(q, id, job_list, started)'
          BY <3>1, <3>3, <4>2, Zenon DEF Accounted
        <5> QED BY <2>2, <4>2, <5>1, Zenon
      <4>3. CASE f \notin lost' /\ Len(job_list') = Len(jobs) + 1
        <5>1. Len(jobs) + 1 \in 1..Len(job_list') /\ Len(jobs) + 1 \notin 1..Len(jobs)
          BY <1>2, <4>3
        <5>2. From(p, job_list'[Len(jobs) + 1]) /\ job_list'[Len(jobs) + 1].id = f
          BY <1>9, <5>1, Zenon DEF From
        <5>3. Accounted(p, f, job_list, started)'
          BY <5>1, <5>2, Zenon DEF Accounted
        <5> QED BY <2>2, <3>3, <4>1, <4>3, <5>3, ZenonT(40)
      <4>4. CASE f \notin lost' /\ Len(promise_reactions'[p]) = Len(promise_reactions[p]) + 1
        <5>1. /\ Len(promise_reactions[p]) + 1 \in 1..Len(promise_reactions'[p])
              /\ Len(promise_reactions[p]) + 1 \notin 1..Len(promise_reactions[p])
          BY <1>1, <1>2, <4>4, SMTT(30)
        <5>2. promise_reactions'[p][Len(promise_reactions[p]) + 1].id = f
          BY <1>1, <1>10, <5>1
        <5>3. Accounted(p, f, job_list, started)'
          BY <5>1, <5>2, Zenon DEF Accounted
        <5> QED BY <2>2, <3>3, <4>1, <4>4, <5>3, ZenonT(40)
      <4> QED BY <1>1, <1>8, <4>2, <4>3, <4>4, Zenon DEF ThenChanges
    <3> QED BY <3>2, <3>3, Zenon
  <2> QED BY <2>1, <2>2, Zenon
<1>16. AccountedOK(job_list, started)'
  BY <1>15, Zenon DEF AccountedOK
<1> QED BY <1>13, <1>14, <1>16, Zenon DEF OrderOK

\* A new pair, the only thing that can settle its promise t.
LEMMA NewPairResolvers ==
  ASSUME IInv, NEW f \in FreshPair, NEW t \in Promises, NEW jobs, promise' = [promise EXCEPT ![f] = t],
         already_resolved' = already_resolved,
         \A q \in Promises : q # t =>
             /\ ResolverAt(q, jobs, stack) /\ (Live(q)' <=> Live(q))
             /\ NoneIn(job_list', ThenablesFor(q)) <=> NoneIn(jobs, ThenablesFor(q))
             /\ OneIn(job_list', ThenablesFor(q)) <=> OneIn(jobs, ThenablesFor(q))
             /\ NoneIn(stack', GettersFor(q)') <=> NoneIn(stack, GettersFor(q))
             /\ OneIn(stack', GettersFor(q)') <=> OneIn(stack, GettersFor(q)),
         Live(t)', NoPair(t), NoneIn(job_list', ThenablesFor(t)), NoneIn(stack', GettersFor(t)')
  PROVE  ResolverOK(job_list, stack)'
<1>1. f \in Pairs /\ promise[f] = 0 /\ promise \in [Pairs -> Promises \cup {0}]
  BY FreshPairFacts, Zenon DEF IInv, At, TypeAt
<1>2. ~already_resolved[f]
  BY <1>1, Zenon DEF IInv, At, RefsOK, PromiseOK
<1>3. promise'[f] = t /\ \A g \in Pairs : g # f => promise'[g] = promise[g]
  BY <1>1, Zenon
<1>4. \A q \in Promises : ThenablesFor(q)' = ThenablesFor(q)
  BY Zenon DEF ThenablesFor
<1>5. ASSUME NEW q \in Promises PROVE ResolverAt(q, job_list, stack)'
  <2>1. CASE q # t
    <3>1. \A g \in Pairs : promise'[g] = q <=> promise[g] = q
      BY <1>1, <1>3, <2>1, BoundAssumption DEF Promises
    <3>2. (NoPair(q)' <=> NoPair(q)) /\ (OnePair(q)' <=> OnePair(q))
      BY <3>1, Zenon DEF NoPair, OnePair
    <3>3. /\ NoneIn(job_list, ThenablesFor(q))' <=> NoneIn(jobs, ThenablesFor(q))
          /\ OneIn(job_list, ThenablesFor(q))' <=> OneIn(jobs, ThenablesFor(q))
          /\ NoneIn(stack, GettersFor(q))' <=> NoneIn(stack, GettersFor(q))
          /\ OneIn(stack, GettersFor(q))' <=> OneIn(stack, GettersFor(q))
      BY <1>4, <2>1, ZenonT(40) DEF NoneIn, OneIn
    <3> QED BY <2>1, <3>2, <3>3, ZenonT(40) DEF ResolverAt, NoResolver, ExactlyOne
  <2>2. CASE q = t
    <3>1. OnePair(t)'
      <4>1. \A g \in Pairs : promise'[g] = t /\ ~already_resolved'[g] => g = f
        BY <1>3, Zenon DEF NoPair
      <4> QED BY <1>1, <1>2, <1>3, <4>1, Zenon DEF OnePair
    <3>2. NoneIn(job_list, ThenablesFor(t))' /\ NoneIn(stack, GettersFor(t))'
      BY <1>4, Zenon DEF NoneIn
    <3> QED BY <2>2, <3>1, <3>2, ZenonT(40) DEF ResolverAt, ExactlyOne
  <2> QED BY <2>1, <2>2, Zenon
<1> QED BY <1>5, Zenon DEF ResolverOK

-----------------------------------------------------------------------------
(* js_promise_then.                                                         *)

\* The handlers that JavaScript code passes are functions of pairs it holds.
LEMMA HeldHandler ==
  ASSUME IInv, NEW i \in 0..1, NEW h \in HeldHandlers(i)
  PROVE  h \in Handlers /\ HandlerOK(h) /\ (h.f = 0 \/ h.f \in given)
<1>1. \A f \in given : f \in Pairs /\ promise[f] # 0
  BY Zenon DEF IInv, At, TypeAt
<1>2. CASE h \in {NoHandler, Code}
  BY <1>2 DEF Handlers, NoHandler, Code, HandlerOK
<1>3. CASE \E f \in given : h = Function(f, i)
  <2>1. PICK f \in given : h = Function(f, i)
    BY <1>3, Zenon
  <2>2. h.f = f /\ h \in Handlers
    BY <1>1, <2>1 DEF Function, Handlers
  <2> QED BY <1>1, <2>2, Zenon DEF HandlerOK, Pair
<1> QED BY <1>2, <1>3, Zenon DEF HeldHandlers

\* js_promise_then keeps the invariant.
LEMMA ThenStep ==
  ASSUME IInv, NEW p2 \in FreshPromise, NEW f2 \in FreshPair, NEW p \in Created,
         NEW h0 \in HeldHandlers(0), NEW h1 \in HeldHandlers(1), js_promise_then(p, h0, h1, p2, f2)
  PROVE  IInv'
<1> DEFINE rd == [id |-> f2, cap |-> f2, handler |-> HandlerPair(h0, h1)]
<1>1. /\ TypeAt(job_list, stack, started) /\ RefsOK(job_list, stack) /\ ResolverOK(job_list, stack)
      /\ OrderOK(job_list, started) /\ AdoptOK(job_list, stack) /\ PromiseOK
  BY Zenon DEF IInv, At, RefsOK
<1>2. /\ promise_state' = [promise_state EXCEPT ![p2] = "pending"] /\ promise' = [promise EXCEPT ![f2] = p2]
      /\ perform_promise_then(p, rd, job_list)
      /\ promise_result' = promise_result /\ already_resolved' = already_resolved /\ given' = given
      /\ stack' = stack /\ started' = started /\ stranded' = stranded /\ adopts' = adopts
  BY Zenon DEF js_promise_then
<1>3. /\ h0 \in Handlers /\ HandlerOK(h0) /\ (h0.f = 0 \/ h0.f \in given)
      /\ h1 \in Handlers /\ HandlerOK(h1) /\ (h1.f = 0 \/ h1.f \in given)
  <2>1. 0 \in 0..1 /\ 1 \in 0..1
    OBVIOUS
  <2> QED BY <2>1, HeldHandler, Zenon
<1>4. /\ p2 \in Promises /\ promise_state[p2] = "none" /\ p2 \notin stranded
      /\ \A g \in Pairs : promise[g] # p2
      /\ \A q \in Promises : adopts[q] # 0 => q # p2 /\ adopts[q] # p2
      /\ NoneIn(job_list, ThenablesFor(p2)) /\ NoneIn(stack, GettersFor(p2))
  BY FreshPromiseFacts, Zenon
<1>5. f2 \in Pairs /\ promise[f2] = 0 /\ f2 \notin given /\ \A g \in Pairs : promise[g] # 0 => g < f2
  BY FreshPairFacts, Zenon
<1>6. "pending" \in {"pending", "fulfilled", "rejected"}
  BY Zenon
<1>7. /\ promise'[f2] = p2 /\ promise_state'[p2] = "pending"
      /\ promise_state' \in [Promises -> {"none", "pending", "fulfilled", "rejected"}]
      /\ promise' \in [Pairs -> Promises \cup {0}]
      /\ \A g \in Pairs : g # f2 => promise'[g] = promise[g]
      /\ \A g \in Pairs : promise[g] # 0 => g # f2
      /\ \A q \in Promises : q # p2 => promise_state'[q] = promise_state[q]
      /\ \A q \in Promises : promise_state[q] # "none" => q # p2
      /\ \A g \in Pairs : promise'[g] # 0 => promise_state'[promise'[g]] # "none"
      /\ \A g, h \in Pairs : g < h /\ promise'[h] # 0 => promise'[g] # 0
  BY <1>2, <1>6, CreateRefs, ZenonT(40)
<1>8. /\ rd \in Reactions /\ rd.id = f2 /\ rd.cap = f2 /\ rd.handler[0] = h0 /\ rd.handler[1] = h1
      /\ \A i \in 0..1 : rd.handler[i] = h0 \/ rd.handler[i] = h1
  BY <1>3, <1>5 DEF HandlerPair, Reactions
<1> HIDE DEF rd
<1>9. p \in Promises /\ promise_state[p] # "none"
  BY Zenon DEF Created
<1>10. \A g : Pair(g) => Pair(g)'
  BY <1>7, Zenon DEF Pair
<1>11. NewReaction(p, rd, f2)
  <2>1. promise'[f2] # 0
    BY <1>4, <1>7, BoundAssumption DEF Promises
  <2>2. HandlerOK(h0)' /\ HandlerOK(h1)'
    BY <1>3, <1>10, Zenon DEF HandlerOK
  <2>3. \A g \in Pairs : promise[g] # 0 => g < f2 /\ promise'[g] = promise[g]
    BY <1>5, <1>7, Zenon
  <2>4. \A q \in Promises : promise_state[q] # "none" => promise_state'[q] = promise_state[q]
    BY <1>7, Zenon
  <2>5. HandlerOK(rd.handler[0])' /\ HandlerOK(rd.handler[1])'
    BY <1>8, <2>2, Zenon DEF HandlerOK, Pair, rd
  <2> QED BY <1>2, <1>5, <1>8, <1>9, <2>1, <2>3, <2>4, <2>5, SMTT(30) DEF NewReaction
<1>12. ThenChanges(p, rd, job_list) /\ job_list \in Seq(Jobs)
  <2>1. /\ promise_state \in [Promises -> {"none", "pending", "fulfilled", "rejected"}]
        /\ promise_result \in [Promises -> Values] /\ job_list \in Seq(Jobs)
        /\ promise_reactions \in [Promises -> Seq(Reactions)]
        /\ order \in [Promises -> Seq(Pairs)] /\ lost \subseteq Pairs
    BY <1>1, Zenon DEF TypeAt
  <2> QED BY <1>2, <1>8, <1>9, <2>1, ThenShape, ZenonT(40)
<1>13. TypeAt(job_list, stack, started)'
  <2>1. /\ job_list' \in Seq(Jobs) /\ promise_reactions' \in [Promises -> Seq(Reactions)]
        /\ order' \in [Promises -> Seq(Pairs)] /\ lost' \subseteq Pairs
    BY <1>12, Zenon DEF ThenChanges
  <2>2. given' \subseteq {g \in Pairs : promise'[g] # 0}
    BY <1>1, <1>2, <1>7, Zenon DEF TypeAt
  <2> QED BY <1>1, <1>2, <1>7, <2>1, <2>2, Zenon DEF TypeAt
<1>14. /\ \A k \in 1..Len(job_list') : JobOK(job_list[k])'
       /\ \A q \in Promises : \A k \in 1..Len(promise_reactions'[q]) : ReactionOK(q, promise_reactions[q][k])'
  <2>1. \A k \in 1..Len(job_list) : JobOK(job_list[k])
    BY <1>1, Zenon DEF RefsOK
  <2> QED BY <1>1, <1>11, <1>12, <2>1, ThenRefs, ZenonT(40)
<1>15. RefsOK(job_list, stack)'
  <2>1. PromiseOK'
    <3>1. (\A g \in Pairs : promise[g] = 0 => ~already_resolved[g])'
      BY <1>1, <1>2, <1>4, <1>7, BoundAssumption, Zenon DEF PromiseOK, Promises
    <3>2. (\A q \in Promises : Exists(promise_result[q]))'
      BY <1>1, <1>2, <1>7, Zenon DEF PromiseOK, Exists
    <3>3. (\A q \in Promises : promise_state[q] = "fulfilled" => promise_result[q] \notin Promises)'
      BY <1>1, <1>2, <1>7, Zenon DEF PromiseOK
    <3>4. (\A q \in stranded : promise_state[q] # "none")'
      BY <1>1, <1>2, <1>7, ZenonT(40) DEF PromiseOK, TypeAt
    <3>5. (\A q \in Promises : adopts[q] # 0 => promise_state[q] # "none" /\ promise_state[adopts[q]] # "none")'
      BY <1>1, <1>2, <1>7 DEF PromiseOK, TypeAt
    <3> QED BY <1>7, <1>14, <3>1, <3>2, <3>3, <3>4, <3>5, SMTT(30) DEF PromiseOK
  <2>2. (\A k \in 1..Len(stack) : FrameOK(stack[k]))'
    BY <1>1, <1>2, <1>10, Zenon DEF RefsOK, FrameOK, Pair
  <2> QED BY <1>14, <2>1, <2>2, Zenon DEF RefsOK
<1>16. ResolverOK(job_list, stack)'
  <2>1. ASSUME NEW q \in Promises
        PROVE  /\ NoneIn(job_list', ThenablesFor(q)) <=> NoneIn(job_list, ThenablesFor(q))
               /\ OneIn(job_list', ThenablesFor(q)) <=> OneIn(job_list, ThenablesFor(q))
    BY <1>8, <1>9, <1>12, ThenCount, Zenon
  <2>2. ASSUME NEW q \in Promises
        PROVE  /\ NoneIn(stack', GettersFor(q)') <=> NoneIn(stack, GettersFor(q))
               /\ OneIn(stack', GettersFor(q)') <=> OneIn(stack, GettersFor(q))
    <3>1. /\ NoneIn(stack, GettersFor(q)') <=> NoneIn(stack, GettersFor(q))
          /\ OneIn(stack, GettersFor(q)') <=> OneIn(stack, GettersFor(q))
      BY <1>2, <1>4, GettersKept, ZenonT(40)
    <3> QED BY <1>2, <3>1, Zenon
  <2>3. \A q \in Promises : q # p2 =>
             /\ ResolverAt(q, job_list, stack) /\ (Live(q)' <=> Live(q))
             /\ NoneIn(job_list', ThenablesFor(q)) <=> NoneIn(job_list, ThenablesFor(q))
             /\ OneIn(job_list', ThenablesFor(q)) <=> OneIn(job_list, ThenablesFor(q))
             /\ NoneIn(stack', GettersFor(q)') <=> NoneIn(stack, GettersFor(q))
             /\ OneIn(stack', GettersFor(q)') <=> OneIn(stack, GettersFor(q))
    <3>1. ASSUME NEW q \in Promises, q # p2 PROVE ResolverAt(q, job_list, stack) /\ (Live(q)' <=> Live(q))
      BY <1>1, <1>2, <1>7, <3>1, Zenon DEF ResolverOK, Live
    <3> QED BY <2>1, <2>2, <3>1, Zenon
  <2>4. Live(p2)' /\ NoPair(p2)
    BY <1>2, <1>4, <1>7, Zenon DEF Live, NoPair
  <2>5. NoneIn(job_list', ThenablesFor(p2)) /\ NoneIn(stack', GettersFor(p2)')
    BY <1>4, <2>1, <2>2, Zenon
  <2> QED BY <1>2, <1>4, <2>3, <2>4, <2>5, NewPairResolvers, ZenonT(40)
<1>17. OrderOK(job_list, started)'
  <2>1. \A k \in 1..Len(job_list) : JobOK(job_list[k])
    BY <1>1 DEF RefsOK
  <2> QED BY <1>1, <1>2, <1>11, <1>12, <2>1, ThenOrder, ZenonT(40)
<1>18. AdoptOK(job_list, stack)'
  <2> SUFFICES ASSUME NEW q \in Promises, adopts[q] # 0 PROVE Adopted(q, job_list, stack)'
    BY <1>2, Zenon DEF AdoptOK, Adopted
  <2> DEFINE a == adopts[q]
  <2>1. /\ promise_state'[q] = promise_state[q] /\ promise_state'[a] = promise_state[a]
        /\ promise_result' = promise_result
    <3>1. a \in Promises
      BY <1>1, Zenon DEF TypeAt
    <3> QED BY <1>2, <1>4, <1>7, <3>1, Zenon
  <2>2. Adopted(q, job_list, stack)
    BY <1>1, Zenon DEF AdoptOK
  <2>3. /\ Stuck(q)' <=> Stuck(q)
        /\ LooksAgain(adopts[q])' <=> LooksAgain(a)
        /\ SettledAs(q, adopts[q])' <=> SettledAs(q, a)
    BY <1>2, <2>1, Zenon DEF Stuck, LooksAgain, SettledAs, Settled
  <2>4. JobWaits(q, a, job_list) => JobWaits(q, adopts[q], job_list)'
    <3>1. \A k \in 1..Len(job_list) : k \in 1..Len(job_list') /\ job_list'[k] = job_list[k]
      BY <1>12, Zenon DEF ThenChanges
    <3> QED BY <1>2, <3>1, Zenon DEF JobWaits, ThenableJob
  <2>5. ASSUME PairWaits(q, a, job_list, stack) PROVE PairWaits(q, adopts[q], job_list, stack)'
    <3>1. PICK g \in Pairs : promise[g] = q /\ ~already_resolved[g] /\ OnlyFrom(a, g, job_list, stack)
      BY <2>5, Zenon DEF PairWaits
    <3>2. g # f2 /\ g # 0
      BY <1>5, <3>1, BoundAssumption, SMTT(30) DEF Promises, Pairs
    <3>3. promise'[g] = q /\ ~already_resolved'[g]
      BY <1>2, <1>7, <3>1, <3>2, Zenon
    <3>4. rd.cap # g /\ g \notin given' /\ (\A k \in 1..Len(stack') : stack'[k].f # g)
      BY <1>2, <1>8, <3>1, <3>2, Zenon DEF OnlyFrom
    <3>5. h0.f # g /\ h1.f # g
      BY <1>2, <1>3, <3>2, <3>4, Zenon
    <3>6. \A i \in 0..1 : rd.handler[i].f = g => p = a /\ rd.handler[i] = Function(g, i)
      BY <1>8, <3>5, Zenon
    <3>7. PICK b : b = a
      BY Zenon
    <3>8. OnlyFrom(b, g, job_list, stack)'
      <4>1. OnlyFrom(b, g, job_list, stack) /\ \A i \in 0..1 : rd.handler[i].f = g => p = b /\ rd.handler[i] = Function(g, i)
        BY <3>1, <3>6, <3>7, Zenon
      <4> QED BY <1>8, <1>9, <1>12, <3>4, <4>1, ThenOnly, ZenonT(40)
    <3>9. OnlyFrom(adopts[q], g, job_list, stack)'
      BY <1>2, <3>7, <3>8, Zenon DEF OnlyFrom
    <3> QED BY <3>3, <3>9, Zenon DEF PairWaits
  <2> QED BY <1>2, <2>2, <2>3, <2>4, <2>5, ZenonT(40) DEF Adopted
<1> QED BY <1>13, <1>15, <1>16, <1>17, <1>18, Zenon DEF IInv, At

-----------------------------------------------------------------------------
(* js_promise_resolve_thenable_job.                                         *)

\* A thenable job is taken off the list: it was all that could settle its promise.
LEMMA PopThenable ==
  ASSUME IInv, stack = <<>>, job_list # <<>>, Head(job_list).kind = "thenable",
         NEW job, job = Head(job_list), NEW jobs, jobs = Tail(job_list)
  PROVE  /\ job \in Jobs /\ job.promise \in Promises /\ Exists(job.thenable)
         /\ TypeAt(jobs, stack, started) /\ RefsOK(jobs, stack) /\ OrderOK(jobs, started)
         /\ Live(job.promise) /\ NoPair(job.promise) /\ NoneIn(jobs, ThenablesFor(job.promise))
         /\ \A q \in Promises : q # job.promise => ResolverAt(q, jobs, stack) /\ Adopted(q, jobs, stack)
         /\ adopts[job.promise] # 0 => LooksAgain(adopts[job.promise]) \/ job.thenable = adopts[job.promise]
<1> DEFINE p == job.promise
<1>1. /\ TypeAt(job_list, stack, started) /\ RefsOK(job_list, stack) /\ OrderOK(job_list, started)
      /\ ResolverOK(job_list, stack) /\ AdoptOK(job_list, stack) /\ job_list \in Seq(Jobs)
  BY Zenon DEF IInv, At, TypeAt
<1>2. /\ jobs \in Seq(Jobs) /\ Len(jobs) \in Nat /\ Len(job_list) = Len(jobs) + 1 /\ job = job_list[1]
      /\ \A k \in 1..Len(jobs) : jobs[k] = job_list[k + 1]
  BY <1>1
<1>3. /\ job \in Jobs /\ 1 \in 1..Len(job_list) /\ JobOK(job) /\ job.kind = "thenable"
      /\ \A k \in 1..Len(jobs) : k + 1 \in 1..Len(job_list) /\ k + 1 # 1 /\ k \in Nat
      /\ \A k \in 1..Len(job_list) : k # 1 => k - 1 \in 1..Len(jobs) /\ job_list[k] = jobs[k - 1]
  BY <1>1, <1>2 DEF RefsOK
<1>4. p \in Promises /\ Exists(job.thenable) /\ \A q \in Promises : job \in ThenablesFor(q) <=> q = p
  BY <1>3, JobFields, Zenon DEF JobOK, ThenablesFor
<1>5. TypeAt(jobs, stack, started)
  BY <1>1, <1>2, Zenon DEF TypeAt
<1>6. RefsOK(jobs, stack)
  BY <1>1, <1>2, <1>3, Zenon DEF RefsOK
<1>7. ASSUME NEW q \in Promises
      PROVE  /\ NoneIn(job_list, ThenablesFor(q)) <=> NoneIn(jobs, ThenablesFor(q)) /\ q # p
             /\ OneIn(job_list, ThenablesFor(q)) <=>
                    (OneIn(jobs, ThenablesFor(q)) /\ q # p) \/ (NoneIn(jobs, ThenablesFor(q)) /\ q = p)
  <2>1. /\ NoneIn(job_list, ThenablesFor(q)) <=> NoneIn(jobs, ThenablesFor(q)) /\ job \notin ThenablesFor(q)
        /\ OneIn(job_list, ThenablesFor(q)) <=>
               \/ OneIn(jobs, ThenablesFor(q)) /\ job \notin ThenablesFor(q)
               \/ NoneIn(jobs, ThenablesFor(q)) /\ job \in ThenablesFor(q)
    BY <1>1, TailCount, Zenon
  <2> QED BY <1>4, <2>1, Zenon
<1>8. Live(p) /\ NoPair(p) /\ NoneIn(jobs, ThenablesFor(p))
  <2>1. ResolverAt(p, job_list, stack)
    BY <1>1, <1>4, Zenon DEF ResolverOK
  <2> QED BY <1>4, <1>7, <2>1, Zenon DEF ResolverAt, NoResolver, ExactlyOne
<1>9. ASSUME NEW q \in Promises, q # p PROVE ResolverAt(q, jobs, stack)
  <2>1. ResolverAt(q, job_list, stack)
    BY <1>1, Zenon DEF ResolverOK
  <2>2. /\ NoneIn(job_list, ThenablesFor(q)) <=> NoneIn(jobs, ThenablesFor(q))
        /\ OneIn(job_list, ThenablesFor(q)) <=> OneIn(jobs, ThenablesFor(q))
    BY <1>7, <1>9, Zenon
  <2> QED BY <2>1, <2>2, Zenon DEF ResolverAt, NoResolver, ExactlyOne
<1>10. OrderOK(jobs, started)
  <2>1. AddedOK /\ SortedOK(job_list, started) /\ AccountedOK(job_list, started)
    BY <1>1, Zenon DEF OrderOK
  <2>2. SortedOK(jobs, started)
    <3>1. ASSUME NEW q \in Promises, NEW i \in 1..Len(jobs), NEW j \in 1..Len(jobs), i < j, From(q, jobs[i]), From(q, jobs[j])
          PROVE  jobs[i].id < jobs[j].id
      <4>1. i + 1 \in 1..Len(job_list) /\ j + 1 \in 1..Len(job_list) /\ i + 1 < j + 1
        BY <1>3, <3>1
      <4>2. From(q, job_list[i + 1]) /\ From(q, job_list[j + 1]) /\ jobs[i] = job_list[i + 1] /\ jobs[j] = job_list[j + 1]
        BY <1>2, <3>1, Zenon
      <4>3. \A m, n \in 1..Len(job_list) :
               m < n /\ From(q, job_list[m]) /\ From(q, job_list[n]) => job_list[m].id < job_list[n].id
        BY <2>1, Zenon DEF SortedOK
      <4> QED BY <4>1, <4>2, <4>3, Zenon
    <3>2. ASSUME NEW q \in Promises, NEW i \in 1..Len(started[q]), NEW j \in 1..Len(jobs), From(q, jobs[j])
          PROVE  started[q][i] < jobs[j].id
      <4>1. j + 1 \in 1..Len(job_list) /\ jobs[j] = job_list[j + 1]
        BY <1>2, <1>3, Zenon
      <4>2. \A n \in 1..Len(job_list) : From(q, job_list[n]) => started[q][i] < job_list[n].id
        BY <2>1, Zenon DEF SortedOK
      <4> QED BY <3>2, <4>1, <4>2, Zenon
    <3> QED BY <2>1, <3>1, <3>2, ZenonT(40) DEF SortedOK
  <2>3. ASSUME NEW q \in Promises, NEW id \in Pairs
        PROVE  Accounted(q, id, jobs, started) <=> Accounted(q, id, job_list, started)
    <3>1. ~From(q, job)
      BY <1>3, Zenon DEF From
    <3>2. (\E k \in 1..Len(jobs) : From(q, jobs[k]) /\ jobs[k].id = id)
             => (\E k \in 1..Len(job_list) : From(q, job_list[k]) /\ job_list[k].id = id)
      BY <1>2, <1>3
    <3>3. (\E k \in 1..Len(job_list) : From(q, job_list[k]) /\ job_list[k].id = id)
             => (\E k \in 1..Len(jobs) : From(q, jobs[k]) /\ jobs[k].id = id)
      <4>1. ASSUME NEW k \in 1..Len(job_list), From(q, job_list[k]), job_list[k].id = id
            PROVE  \E n \in 1..Len(jobs) : From(q, jobs[n]) /\ jobs[n].id = id
        <5>1. k # 1
          BY <1>2, <3>1, <4>1, Zenon
        <5> QED BY <1>3, <4>1, <5>1, Zenon
      <4> QED BY <4>1, Zenon
    <3> QED BY <3>2, <3>3, Zenon DEF Accounted
  <2>4. AccountedOK(jobs, started)
    BY <2>1, <2>3, Zenon DEF AccountedOK
  <2> QED BY <2>1, <2>2, <2>4, Zenon DEF OrderOK
<1>11. ASSUME NEW q \in Promises, NEW a, JobWaits(q, a, job_list), ~JobWaits(q, a, jobs)
       PROVE  job = ThenableJob(q, a)
  <2>1. PICK k \in 1..Len(job_list) : job_list[k] = ThenableJob(q, a)
    BY <1>11, Zenon DEF JobWaits
  <2>2. CASE k = 1
    BY <1>2, <2>1, <2>2, Zenon
  <2>3. CASE k # 1
    BY <1>3, <1>11, <2>1, <2>3, Zenon DEF JobWaits
  <2> QED BY <2>2, <2>3, Zenon
<1>12. ASSUME NEW q \in Promises, NEW a, PairWaits(q, a, job_list, stack) PROVE PairWaits(q, a, jobs, stack)
  <2>1. PICK f \in Pairs : promise[f] = q /\ ~already_resolved[f] /\ OnlyFrom(a, f, job_list, stack)
    BY <1>12, ZenonT(40) DEF PairWaits
  <2>2. OnlyFrom(a, f, jobs, stack)
    BY <1>2, <1>3, <2>1 DEF OnlyFrom
  <2> QED BY <2>1, <2>2, Zenon DEF PairWaits
<1>13. ASSUME NEW q \in Promises, q # p PROVE Adopted(q, jobs, stack)
  <2>1. Adopted(q, job_list, stack)
    BY <1>1, Zenon DEF AdoptOK
  <2>2. JobWaits(q, adopts[q], job_list) => JobWaits(q, adopts[q], jobs)
    <3>1. job # ThenableJob(q, adopts[q])
      BY <1>13 DEF ThenableJob
    <3> QED BY <1>11, <3>1, Zenon
  <2> QED BY <1>12, <2>1, <2>2, Zenon DEF Adopted
<1>14. ASSUME adopts[p] # 0 PROVE LooksAgain(adopts[p]) \/ job.thenable = adopts[p]
  <2>1. Adopted(p, job_list, stack)
    BY <1>1, <1>4, Zenon DEF AdoptOK
  <2>2. ~Stuck(p) /\ ~SettledAs(p, adopts[p])
    BY <1>8, Zenon DEF Live, Stuck, SettledAs, Settled
  <2>3. ~PairWaits(p, adopts[p], job_list, stack)
    BY <1>8, Zenon DEF NoPair, PairWaits
  <2>4. ~JobWaits(p, adopts[p], jobs)
    <3> SUFFICES ASSUME NEW k \in 1..Len(jobs), jobs[k] = ThenableJob(p, adopts[p]) PROVE FALSE
      BY Zenon DEF JobWaits
    <3>1. jobs[k] \in Jobs /\ jobs[k].kind = "thenable" /\ jobs[k].promise = p
      BY <1>2 DEF ThenableJob
    <3>2. jobs[k] \in ThenablesFor(p)
      BY <3>1, Zenon DEF ThenablesFor
    <3> QED BY <1>8, <3>2, Zenon DEF NoneIn
  <2>5. JobWaits(p, adopts[p], job_list) => job.thenable = adopts[p]
    BY <1>4, <1>11, <2>4 DEF ThenableJob
  <2> QED BY <1>14, <2>1, <2>2, <2>3, <2>5, Zenon DEF Adopted
<1> QED BY <1>3, <1>4, <1>5, <1>6, <1>8, <1>9, <1>10, <1>13, <1>14, SMTT(30)

\* js_promise_resolve_thenable_job keeps the invariant.
LEMMA ThenableStep ==
  ASSUME IInv, NEW f \in FreshPair, js_promise_resolve_thenable_job(f)
  PROVE  IInv'
<1>1. PICK job : job = Head(job_list)
  BY Zenon
<1>2. PICK jobs : jobs = Tail(job_list)
  BY ZenonT(40)
<1>3. PICK p : p = job.promise
  BY Zenon
<1>4. /\ stack = <<>> /\ job_list # <<>> /\ Head(job_list).kind = "thenable"
      /\ promise' = [promise EXCEPT ![f] = p]
      /\ ThenableJobCallsThen(f) \/ ThenableJobAdopts(f) \/ ThenableJobThrows(f)
      /\ promise_state' = promise_state /\ promise_result' = promise_result
      /\ already_resolved' = already_resolved /\ started' = started /\ stranded' = stranded
  BY <1>1, <1>3, Zenon DEF js_promise_resolve_thenable_job
<1>5. /\ job \in Jobs /\ p \in Promises /\ Exists(job.thenable)
      /\ TypeAt(jobs, stack, started) /\ RefsOK(jobs, stack) /\ OrderOK(jobs, started)
      /\ Live(p) /\ NoPair(p) /\ NoneIn(jobs, ThenablesFor(p))
      /\ \A q \in Promises : q # p => ResolverAt(q, jobs, stack) /\ Adopted(q, jobs, stack)
      /\ adopts[p] # 0 => LooksAgain(adopts[p]) \/ job.thenable = adopts[p]
  BY <1>1, <1>2, <1>3, <1>4, PopThenable, ZenonT(40)
<1>6. /\ adopts' \in [Promises -> Promises \cup {0}]
       /\ \A q \in Promises : adopts'[q] # 0 => adopts'[q] = adopts[q]
  <2>1. adopts \in [Promises -> Promises \cup {0}]
    BY <1>5, Zenon DEF TypeAt
  <2>2. adopts' = adopts \/ adopts' = [adopts EXCEPT ![p] = 0]
    BY <1>1, <1>3, <1>4, Zenon DEF ThenableJobCallsThen, ThenableJobAdopts, ThenableJobThrows
  <2> QED BY <1>5, <2>1, <2>2, SMTT(30)
<1>7. f \in Pairs /\ promise[f] = 0 /\ f \notin given /\ \A g \in Pairs : promise[g] # 0 => g < f
  BY FreshPairFacts, Zenon
<1>8. PromiseOK /\ promise \in [Pairs -> Promises \cup {0}] /\ jobs \in Seq(Jobs)
  BY <1>5, Zenon DEF RefsOK, TypeAt
<1>9. /\ promise'[f] = p /\ promise' \in [Pairs -> Promises \cup {0}] /\ promise'[f] # 0
      /\ \A g \in Pairs : g # f => promise'[g] = promise[g]
      /\ \A g \in Pairs : promise[g] # 0 => promise'[g] = promise[g]
  BY <1>4, <1>5, <1>7, <1>8, BoundAssumption, SMTT(30) DEF Promises
<1>10. \A g : Pair(g) => Pair(g)'
  BY <1>9, Zenon DEF Pair
<1>11. /\ (\A g \in Pairs : promise[g] # 0 => promise_state[promise[g]] # "none")'
       /\ (\A g, h \in Pairs : g < h /\ promise[h] # 0 => promise[g] # 0)'
       /\ (\A g \in Pairs : promise[g] = 0 => ~already_resolved[g])'
       /\ (\A q \in Promises : Exists(promise_result[q]))'
       /\ (\A q \in Promises : promise_state[q] = "fulfilled" => promise_result[q] \notin Promises)'
       /\ (\A q \in stranded : promise_state[q] # "none")'
       /\ (\A q \in Promises : adopts[q] # 0 => promise_state[q] # "none" /\ promise_state[adopts[q]] # "none")'
  <2>1. (\A g \in Pairs : promise[g] # 0 => promise_state[promise[g]] # "none")'
    <3>1. promise_state[p] # "none"
      BY <1>5, Zenon DEF Live
    <3> QED BY <1>4, <1>8, <1>9, <3>1, Zenon DEF PromiseOK
  <2>2. ASSUME NEW g \in Pairs, NEW h \in Pairs, g < h, promise'[h] # 0 PROVE promise'[g] # 0
    <3>1. CASE g = f
      BY <1>9, <3>1, Zenon
    <3>2. CASE g # f /\ h = f
      <4>1. promise[g] # 0
        BY <2>2, <3>2 DEF FreshPair, Pairs
      <4> QED BY <1>9, <4>1, Zenon
    <3>3. CASE g # f /\ h # f
      BY <1>8, <1>9, <2>2, <3>3, Zenon DEF PromiseOK
    <3> QED BY <3>1, <3>2, <3>3, Zenon
  <2>3. (\A g \in Pairs : promise[g] = 0 => ~already_resolved[g])'
    BY <1>4, <1>8, <1>9, Zenon DEF PromiseOK
  <2>4. (\A q \in Promises : Exists(promise_result[q]))'
    BY <1>4, <1>8, Zenon DEF PromiseOK, Exists
  <2>5. (\A q \in Promises : adopts[q] # 0 => promise_state[q] # "none" /\ promise_state[adopts[q]] # "none")'
    BY <1>4, <1>8, <1>6, Zenon DEF PromiseOK
  <2> QED BY <1>4, <1>8, <2>1, <2>2, <2>3, <2>4, <2>5, ZenonT(40) DEF PromiseOK
<1>12. ASSUME NEW q \in Promises
       PROVE  /\ NoneIn(stack, GettersFor(q)') <=> NoneIn(stack, GettersFor(q))
              /\ OneIn(stack, GettersFor(q)') <=> OneIn(stack, GettersFor(q))
  BY <1>4, <1>5, GettersKept, ZenonT(40)
<1>13. \A q \in Promises : NoneIn(stack, GettersFor(q)) /\ ~OneIn(stack, GettersFor(q))
  BY <1>4 DEF NoneIn, OneIn
<1>14. Live(p)' /\ \A q \in Promises : Live(q)' <=> Live(q)
  BY <1>4, <1>5, Zenon DEF Live
<1>15. ASSUME NEW q \in Promises, adopts'[q] # 0
       PROVE  /\ Stuck(q)' <=> Stuck(q)
              /\ LooksAgain(adopts[q])' <=> LooksAgain(adopts[q])
              /\ SettledAs(q, adopts[q])' <=> SettledAs(q, adopts[q])
  <2>1. adopts'[q] = adopts[q]
    BY <1>15, <1>6, Zenon
  <2> QED BY <1>4, <2>1, Zenon DEF Stuck, LooksAgain, SettledAs, Settled
<1>16. CASE ThenableJobCallsThen(f) \/ ThenableJobThrows(f)
  <2>1. PICK fr : stack' = <<fr>> /\ (\/ fr = Frame("then", f, Undefined) /\ f \in given'
                                     \/ fr = Frame("throwing", f, Undefined))
    BY <1>16, Zenon DEF ThenableJobCallsThen, ThenableJobThrows
  <2>2. /\ given' \subseteq given \cup {f} /\ given \subseteq given' /\ stack' = <<fr>> /\ job_list' = jobs
        /\ promise_reactions' = promise_reactions /\ order' = order /\ lost' = lost
        /\ job.thenable \in Objects \/ adopts' = [adopts EXCEPT ![p] = 0]
    BY <1>1, <1>2, <1>3, <1>16, <2>1, Zenon DEF ThenableJobCallsThen, ThenableJobThrows
  <2>3. fr \in Frames /\ fr.kind \in {"then", "throwing"} /\ fr.f = f /\ (fr.kind = "then" => f \in given')
    <3>1. ASSUME NEW kind \in {"then", "throwing"}
          PROVE  /\ Frame(kind, f, Undefined) \in Frames
                 /\ Frame(kind, f, Undefined).kind = kind /\ Frame(kind, f, Undefined).f = f
      BY <1>7, Zenon DEF Frame, Frames, JSKinds, Values
    <3>2. CASE fr = Frame("then", f, Undefined) /\ f \in given'
      BY <3>1, <3>2, Zenon
    <3>3. CASE fr = Frame("throwing", f, Undefined)
      BY <3>1, <3>3, Zenon
    <3> QED BY <2>1, <3>2, <3>3, Zenon
  <2>4. stack' \in Seq(Frames) /\ Len(stack') = 1 /\ stack'[1] = fr /\ \A k \in 1..Len(stack') : stack'[k] = fr
    BY <2>2, <2>3, SMTT(30)
  <2>5. TypeAt(job_list, stack, started)'
    <3>1. given' \subseteq {g \in Pairs : promise'[g] # 0}
      <4> SUFFICES ASSUME NEW g \in given' PROVE g \in Pairs /\ promise'[g] # 0
        BY Zenon
      <4>1. CASE g = f
        BY <1>7, <1>9, <4>1, Zenon
      <4>2. CASE g \in given
        BY <1>5, <1>9, <4>2, Zenon DEF TypeAt
      <4> QED BY <2>2, <4>1, <4>2, Zenon
    <3> QED BY <1>4, <1>5, <1>9, <1>6, <2>2, <2>4, <3>1, SMTT(30) DEF TypeAt
  <2>6. RefsOK(job_list, stack)'
    <3>1. (\A q \in Promises : \A k \in 1..Len(promise_reactions[q]) : ReactionOK(q, promise_reactions[q][k]))'
      <4> SUFFICES ASSUME NEW q \in Promises, NEW k \in 1..Len(promise_reactions[q])
                   PROVE  ReactionOK(q, promise_reactions[q][k])'
        BY <2>2, Zenon
      <4>1. ReactionOK(q, promise_reactions[q][k])
        BY <1>8, Zenon DEF PromiseOK
      <4> QED BY <1>4, <1>10, <2>2, <4>1, Zenon DEF ReactionOK, HandlerOK
    <3>2. PromiseOK'
      BY <1>11, <3>1, Zenon DEF PromiseOK
    <3>3. (\A k \in 1..Len(stack) : FrameOK(stack[k]))'
      <4>1. Pair(f)'
        BY <1>7, <1>9, Zenon DEF Pair
      <4> QED BY <2>3, <2>4, <4>1, Zenon DEF FrameOK
    <3>4. (\A k \in 1..Len(job_list) : JobOK(job_list[k]))'
      <4>1. ASSUME NEW k \in 1..Len(job_list') PROVE JobOK(job_list'[k])
        BY <1>5, <2>2, Zenon DEF RefsOK
      <4>2. ASSUME NEW j, JobOK(j) PROVE JobOK(j)'
        BY <1>4, <1>10, <4>2, Zenon DEF JobOK, HandlerOK, Exists
      <4>3. ASSUME NEW k \in 1..Len(job_list') PROVE JobOK(job_list[k])'
        <5>1. PICK j : j = job_list'[k]
          BY Zenon
        <5>2. JobOK(j)'
          BY <4>1, <4>2, <5>1, Zenon
        <5> QED BY <5>1, <5>2, Zenon DEF JobOK
      <4> QED BY <4>3, Zenon
    <3> QED BY <3>2, <3>3, <3>4, ZenonT(40) DEF RefsOK
  <2>7. ResolverOK(job_list, stack)'
    <3>1. \A q \in Promises : NoneIn(stack', GettersFor(q)') /\ ~OneIn(stack', GettersFor(q)')
      BY <2>3, <2>4, Zenon DEF NoneIn, OneIn, GettersFor
    <3>2. \A q \in Promises : q # p =>
             /\ ResolverAt(q, jobs, stack) /\ (Live(q)' <=> Live(q))
             /\ NoneIn(job_list', ThenablesFor(q)) <=> NoneIn(jobs, ThenablesFor(q))
             /\ OneIn(job_list', ThenablesFor(q)) <=> OneIn(jobs, ThenablesFor(q))
             /\ NoneIn(stack', GettersFor(q)') <=> NoneIn(stack, GettersFor(q))
             /\ OneIn(stack', GettersFor(q)') <=> OneIn(stack, GettersFor(q))
      BY <1>5, <1>13, <1>14, <2>2, <3>1, ZenonT(40)
    <3>3. NoneIn(job_list', ThenablesFor(p)) /\ NoneIn(stack', GettersFor(p)')
      BY <1>5, <2>2, <3>1, Zenon
    <3> QED BY <1>4, <1>5, <1>14, <3>2, <3>3, NewPairResolvers, ZenonT(40)
  <2>8. OrderOK(job_list, started)'
    <3>1. AddedOK /\ SortedOK(jobs, started) /\ AccountedOK(jobs, started)
      BY <1>5, Zenon DEF OrderOK
    <3>2. AddedOK'
      <4>1. (\A q \in Promises : \A i \in 1..Len(order[q]) : promise[order[q][i]] # 0)'
        BY <1>5, <1>9, <2>2, <3>1, SMTT(30) DEF AddedOK, TypeAt
      <4>2. (\A id \in lost : promise[id] # 0)'
        BY <1>5, <1>9, <2>2, <3>1, Zenon DEF AddedOK, TypeAt
      <4> QED BY <2>2, <3>1, <4>1, <4>2, ZenonT(40) DEF AddedOK, Increasing
    <3>3. SortedOK(job_list, started)'
      BY <1>4, <2>2, <3>1, ZenonT(40) DEF SortedOK, Increasing, From, Settled
    <3>4. AccountedOK(job_list, started)'
      <4> SUFFICES ASSUME NEW q \in Promises, NEW id \in Pairs
                   PROVE  (Accounted(q, id, job_list, started) <=> Added(q, id) /\ id \notin lost)'
        BY Zenon DEF AccountedOK
      <4>1. Accounted(q, id, job_list, started)' <=> Accounted(q, id, jobs, started)
        BY <1>4, <2>2, Zenon DEF Accounted, From
      <4>2. Added(q, id)' <=> Added(q, id)
        BY <2>2, Zenon DEF Added
      <4> QED BY <2>2, <3>1, <4>1, <4>2, Zenon DEF AccountedOK
    <3> QED BY <3>2, <3>3, <3>4, Zenon DEF OrderOK
  <2>9. AdoptOK(job_list, stack)'
    <3> SUFFICES ASSUME NEW q \in Promises, adopts'[q] # 0 PROVE Adopted(q, job_list, stack)'
      BY Zenon DEF AdoptOK, Adopted
    <3>3. adopts'[q] = adopts[q] /\ adopts[q] # 0
      BY <1>6, Zenon
    <3>1. CASE q = p
      <4>1. adopts[p] \in Promises /\ adopts \in [Promises -> Promises \cup {0}]
        BY <1>5, <3>1, <3>3, Zenon DEF TypeAt
      <4>3. job.thenable \in Objects
        BY <2>2, <3>1, <4>1, SMTT(30)
      <4>2. LooksAgain(adopts[p])
        BY <1>5, <3>1, <3>3, <4>1, <4>3, ValueAssumption, SMTT(30)
      <4> QED BY <1>15, <3>1, <4>2, Zenon DEF Adopted
    <3>2. CASE q # p
      <4>1. Adopted(q, jobs, stack)
        BY <1>5, <3>2, Zenon
      <4>2. JobWaits(q, adopts[q], jobs) => JobWaits(q, adopts[q], job_list)'
        BY <2>2, <3>3, Zenon DEF JobWaits, ThenableJob
      <4>3. ASSUME PairWaits(q, adopts[q], jobs, stack) PROVE PairWaits(q, adopts[q], job_list, stack)'
        <5>1. PICK g \in Pairs : promise[g] = q /\ ~already_resolved[g] /\ OnlyFrom(adopts[q], g, jobs, stack)
          BY <4>3, Zenon DEF PairWaits
        <5>2. g # f
          BY <1>7, <5>1, BoundAssumption, SMTT(30) DEF Promises
        <5>3. promise'[g] = q /\ ~already_resolved'[g] /\ g \notin given' /\ \A k \in 1..Len(stack') : stack'[k].f # g
          <6>1. g \notin given /\ g \notin given'
            BY <2>2, <5>1, <5>2, Zenon DEF OnlyFrom
          <6> QED BY <1>4, <1>9, <2>3, <2>4, <5>1, <5>2, <6>1, Zenon
        <5>4. /\ adopts'[q] = adopts[q] /\ promise_reactions' = promise_reactions
              /\ \A k \in 1..Len(job_list') :
                     job_list'[k].kind = "reaction" => k \in 1..Len(jobs) /\ job_list'[k] = jobs[k]
          BY <2>2, <3>3, Zenon
        <5>5. OnlyFrom(adopts[q], g, job_list, stack)'
          BY <5>1, <5>3, <5>4, OnlyFromKept, ZenonT(40)
        <5> QED BY <5>3, <5>5, Zenon DEF PairWaits
      <4> QED BY <1>15, <3>3, <4>1, <4>2, <4>3, ZenonT(40) DEF Adopted
    <3> QED BY <3>1, <3>2, Zenon
  <2> QED BY <2>5, <2>6, <2>7, <2>8, <2>9, SMTT(30) DEF IInv, At
<1>17. CASE ThenableJobAdopts(f)
  <2> DEFINE rd == [id |-> f, cap |-> Discarded, handler |-> [i \in 0..1 |-> Function(f, i)]]
  <2>1. PICK t : t = job.thenable
    BY Zenon
  <2>2. t \in Promises /\ perform_promise_then(t, rd, jobs) /\ given' = given /\ stack' = stack /\ adopts' = adopts
    BY <1>1, <1>2, <1>17, <2>1, SMTT(30) DEF ThenableJobAdopts
  <2>3. /\ rd \in Reactions /\ rd.id = f /\ rd.cap = Discarded
        /\ rd.handler[0] = Function(f, 0) /\ rd.handler[1] = Function(f, 1)
        /\ \A i \in 0..1 : rd.handler[i] = Function(f, i) /\ rd.handler[i].f = f
    BY <1>7 DEF Reactions, Handlers, Function
  <2> HIDE DEF rd
  <2>4. promise_state[t] # "none"
    BY <1>5, <2>1, <2>2, ZenonT(40) DEF Exists
  <2>5. NewReaction(t, rd, f)
    <3>1. Pair(f)'
      BY <1>7, <1>9, Zenon DEF Pair
    <3>2. HandlerOK(rd.handler[0])' /\ HandlerOK(rd.handler[1])'
      BY <2>3, <3>1 DEF HandlerOK, Function, rd
    <3> QED BY <1>4, <1>7, <1>9, <2>2, <2>3, <2>4, <3>2, SMTT(30) DEF NewReaction
  <2>6. ThenChanges(t, rd, jobs)
    <3>1. /\ promise_state \in [Promises -> {"none", "pending", "fulfilled", "rejected"}]
          /\ promise_result \in [Promises -> Values]
          /\ promise_reactions \in [Promises -> Seq(Reactions)]
          /\ order \in [Promises -> Seq(Pairs)] /\ lost \subseteq Pairs
      BY <1>5, Zenon DEF TypeAt
    <3> QED BY <1>8, <2>2, <2>3, <2>4, <3>1, ThenShape, ZenonT(40)
  <2>7. TypeAt(job_list, stack, started)'
    <3>1. /\ job_list' \in Seq(Jobs) /\ promise_reactions' \in [Promises -> Seq(Reactions)]
          /\ order' \in [Promises -> Seq(Pairs)] /\ lost' \subseteq Pairs
      BY <2>6, Zenon DEF ThenChanges
    <3>2. given' \subseteq {g \in Pairs : promise'[g] # 0}
      BY <1>5, <1>9, <2>2, Zenon DEF TypeAt
    <3> QED BY <1>4, <1>5, <1>9, <2>2, <3>1, <3>2, ZenonT(40) DEF TypeAt
  <2>8. \A k \in 1..Len(jobs) : JobOK(jobs[k])
    BY <1>5 DEF RefsOK
  <2>9. RefsOK(job_list, stack)'
    <3>1. /\ \A k \in 1..Len(job_list') : JobOK(job_list[k])'
          /\ \A q \in Promises : \A k \in 1..Len(promise_reactions'[q]) : ReactionOK(q, promise_reactions[q][k])'
      BY <1>8, <2>5, <2>6, <2>8, ThenRefs, ZenonT(40)
    <3>2. PromiseOK'
      BY <1>11, <3>1, Zenon DEF PromiseOK
    <3>3. (\A k \in 1..Len(stack) : FrameOK(stack[k]))'
      BY <1>4, <2>2, SMTT(30)
    <3> QED BY <3>1, <3>2, <3>3, Zenon DEF RefsOK
  <2>10. ResolverOK(job_list, stack)'
    <3>1. ASSUME NEW q \in Promises
          PROVE  /\ NoneIn(job_list', ThenablesFor(q)) <=> NoneIn(jobs, ThenablesFor(q))
                 /\ OneIn(job_list', ThenablesFor(q)) <=> OneIn(jobs, ThenablesFor(q))
      BY <1>8, <2>2, <2>3, <2>6, ThenCount, Zenon
    <3>2. ASSUME NEW q \in Promises
          PROVE  /\ NoneIn(stack', GettersFor(q)') <=> NoneIn(stack, GettersFor(q))
                 /\ OneIn(stack', GettersFor(q)') <=> OneIn(stack, GettersFor(q))
      BY <1>12, <2>2, Zenon
    <3>3. \A q \in Promises : q # p =>
             /\ ResolverAt(q, jobs, stack) /\ (Live(q)' <=> Live(q))
             /\ NoneIn(job_list', ThenablesFor(q)) <=> NoneIn(jobs, ThenablesFor(q))
             /\ OneIn(job_list', ThenablesFor(q)) <=> OneIn(jobs, ThenablesFor(q))
             /\ NoneIn(stack', GettersFor(q)') <=> NoneIn(stack, GettersFor(q))
             /\ OneIn(stack', GettersFor(q)') <=> OneIn(stack, GettersFor(q))
      BY <1>5, <1>14, <3>1, <3>2, Zenon
    <3>4. NoneIn(job_list', ThenablesFor(p)) /\ NoneIn(stack', GettersFor(p)')
      BY <1>5, <1>13, <3>1, <3>2, Zenon
    <3> QED BY <1>4, <1>5, <1>14, <3>3, <3>4, NewPairResolvers, ZenonT(40)
  <2>11. OrderOK(job_list, started)'
    BY <1>4, <1>5, <1>8, <2>5, <2>6, <2>8, ThenOrder, ZenonT(40)
  <2>12. AdoptOK(job_list, stack)'
    <3> SUFFICES ASSUME NEW q \in Promises, adopts[q] # 0 PROVE Adopted(q, job_list, stack)'
      BY <2>2, Zenon DEF AdoptOK, Adopted
    <3>1. PICK a : a = adopts[q]
      BY Zenon
    <3>2. ASSUME NEW g \in Pairs, promise'[g] = q, ~already_resolved'[g], OnlyFrom(a, g, job_list, stack)'
          PROVE  PairWaits(q, adopts[q], job_list, stack)'
      <4>1. OnlyFrom(adopts[q], g, job_list, stack)'
        BY <2>2, <3>1, <3>2, ZenonT(40) DEF OnlyFrom
      <4> QED BY <3>2, <4>1, Zenon DEF PairWaits
    <3>3. CASE q = p
      <4>1. CASE LooksAgain(adopts[p])
        BY <1>15, <2>2, <3>3, <4>1, Zenon DEF Adopted
      <4>2. CASE t = adopts[p]
        <5>1. OnlyFrom(t, f, jobs, stack)
          <6>1. f \notin given /\ \A k \in 1..Len(stack) : stack[k].f # f
            BY <1>4, <1>7, SMTT(30)
          <6>2. ASSUME NEW k \in 1..Len(jobs), jobs[k].kind = "reaction" PROVE jobs[k].cap # f /\ jobs[k].handler.f # f
            <7>1. k + 1 \in 1..Len(job_list) /\ jobs[k] = job_list[k + 1]
              <8>1. job_list \in Seq(Jobs)
                BY Zenon DEF IInv, At, TypeAt
              <8> QED BY <1>2, <1>4, <8>1, SMTT(30)
            <7> QED BY <6>2, <7>1, FreshPairFacts, SMTT(30)
          <6>3. ASSUME NEW r \in Promises, NEW k \in 1..Len(promise_reactions[r]), NEW i \in 0..1
                PROVE  promise_reactions[r][k].cap # f /\ promise_reactions[r][k].handler[i].f # f
            <7>1. i = 0 \/ i = 1
              OBVIOUS
            <7>2. /\ promise_reactions[r][k].cap # f
                  /\ promise_reactions[r][k].handler[0].f # f /\ promise_reactions[r][k].handler[1].f # f
              BY FreshPairFacts, ZenonT(40)
            <7> QED BY <7>1, <7>2, Zenon
          <6> QED BY <6>1, <6>2, <6>3, ZenonT(40) DEF OnlyFrom
        <5>2. rd.cap # f /\ f \notin given' /\ (\A k \in 1..Len(stack') : stack'[k].f # f)
          BY <1>4, <1>7, <2>2, <2>3, SMTT(30) DEF Discarded, Pairs
        <5>3. \A i \in 0..1 : rd.handler[i].f = f => t = t /\ rd.handler[i] = Function(f, i)
          BY <2>3, Zenon
        <5>4. OnlyFrom(t, f, job_list, stack)'
          <6>1. t \in Promises /\ rd \in Reactions /\ jobs \in Seq(Jobs) /\ f \in Pairs
            BY <1>7, <1>8, <2>2, <2>3, Zenon
          <6> QED BY <2>6, <5>1, <5>2, <5>3, <6>1, ThenOnly, ZenonT(40)
        <5>5. ~already_resolved'[f]
          BY <1>4, <1>7, <1>8, Zenon DEF PromiseOK
        <5>6. PairWaits(q, adopts[q], job_list, stack)'
          BY <1>7, <1>9, <3>1, <3>2, <3>3, <4>2, <5>4, <5>5, ZenonT(40)
        <5> QED BY <5>6, Zenon DEF Adopted
      <4> QED BY <1>5, <2>1, <3>3, <4>1, <4>2, Zenon
    <3>4. CASE q # p
      <4>1. Adopted(q, jobs, stack)
        BY <1>5, <3>4
      <4>2. JobWaits(q, adopts[q], jobs) => JobWaits(q, adopts[q], job_list)'
        <5>1. \A k \in 1..Len(jobs) : k \in 1..Len(job_list') /\ job_list'[k] = jobs[k]
          BY <2>6, Zenon DEF ThenChanges
        <5> QED BY <2>2, <5>1, Zenon DEF JobWaits, ThenableJob
      <4>3. ASSUME PairWaits(q, adopts[q], jobs, stack) PROVE PairWaits(q, adopts[q], job_list, stack)'
        <5>1. PICK g \in Pairs : promise[g] = q /\ ~already_resolved[g] /\ OnlyFrom(a, g, jobs, stack)
          BY <3>1, <4>3, Zenon DEF PairWaits
        <5>2. g # f
          BY <1>7, <5>1, BoundAssumption DEF Promises
        <5>3. promise'[g] = q /\ ~already_resolved'[g] /\ g \notin given' /\ (\A k \in 1..Len(stack') : stack'[k].f # g)
          BY <1>4, <1>9, <2>2, <5>1, <5>2, ZenonT(40) DEF OnlyFrom
        <5>4. rd.cap # g /\ \A i \in 0..1 : rd.handler[i].f = g => t = a /\ rd.handler[i] = Function(g, i)
          BY <2>3, <5>2 DEF Discarded, Pairs
        <5>5. OnlyFrom(a, g, job_list, stack)'
          BY <1>8, <2>2, <2>3, <2>6, <5>1, <5>3, <5>4, ThenOnly, ZenonT(40)
        <5> QED BY <3>2, <5>3, <5>5, Zenon
      <4> QED BY <1>15, <2>2, <4>1, <4>2, <4>3, ZenonT(40) DEF Adopted
    <3> QED BY <3>3, <3>4, SMTT(30)
  <2> QED BY <2>7, <2>9, <2>10, <2>11, <2>12 DEF IInv, At
<1> QED BY <1>4, <1>16, <1>17, Zenon

\* So does a thenable job whose pair cannot be allocated: its promise is stranded.
LEMMA FailsStep ==
  ASSUME IInv, ThenableJobFails
  PROVE  IInv'
<1>1. PICK job : job = Head(job_list)
  BY Zenon
<1>2. PICK jobs : jobs = Tail(job_list)
  BY ZenonT(40)
<1>3. PICK p : p = job.promise
  BY Zenon
<1>4. /\ stack = <<>> /\ job_list # <<>> /\ Head(job_list).kind = "thenable"
      /\ job_list' = jobs /\ stranded' = stranded \cup {p}
      /\ promise_state' = promise_state /\ promise_result' = promise_result /\ promise_reactions' = promise_reactions
      /\ promise' = promise /\ already_resolved' = already_resolved /\ given' = given /\ stack' = stack
      /\ order' = order /\ started' = started /\ lost' = lost /\ adopts' = adopts
  BY <1>1, <1>2, <1>3, Zenon DEF ThenableJobFails, promiseVars, pairVars
<1>5. /\ job \in Jobs /\ p \in Promises
      /\ TypeAt(jobs, stack, started) /\ RefsOK(jobs, stack) /\ OrderOK(jobs, started)
      /\ Live(p) /\ NoPair(p) /\ NoneIn(jobs, ThenablesFor(p))
      /\ \A q \in Promises : q # p => ResolverAt(q, jobs, stack) /\ Adopted(q, jobs, stack)
  BY <1>1, <1>2, <1>3, <1>4, PopThenable, ZenonT(40)
<1>6. TypeAt(job_list, stack, started)'
  BY <1>4, <1>5, ZenonT(40) DEF TypeAt
<1>7. RefsOK(job_list, stack)'
  <2>1. promise_state[p] # "none"
    BY <1>5, Zenon DEF Live
  <2>2. PromiseOK'
    <3>1. PromiseOK
      BY <1>5, Zenon DEF RefsOK
    <3>2. (\A q \in stranded : promise_state[q] # "none")'
      BY <1>4, <2>1, <3>1, Zenon DEF PromiseOK
    <3> QED BY <1>4, <3>1, <3>2, ZenonT(40) DEF PromiseOK, Exists, ReactionOK, HandlerOK, Pair
  <2> QED BY <1>4, <1>5, <2>2, ZenonT(40) DEF RefsOK, FrameOK, JobOK, HandlerOK, Pair, Exists
<1>8. OrderOK(job_list, started)'
  BY <1>4, <1>5, OrderKept, ZenonT(40)
<1>9. ResolverOK(job_list, stack)'
  <2>1. ~Live(p)' /\ \A q \in Promises : q # p => (Live(q)' <=> Live(q))
    BY <1>4, Zenon DEF Live
  <2>2. NoneIn(stack, GettersFor(p))
    BY <1>4 DEF NoneIn
  <2>3. \A q \in Promises : /\ NoPair(q)' <=> NoPair(q)
                            /\ OnePair(q)' <=> OnePair(q)
                            /\ GettersFor(q)' = GettersFor(q)
    BY <1>4, Zenon DEF NoPair, OnePair, GettersFor
  <2>4. NoResolver(p, job_list, stack)'
    BY <1>4, <1>5, <2>2, <2>3, Zenon DEF NoResolver, ThenablesFor
  <2>5. ASSUME NEW q \in Promises, q # p PROVE ResolverAt(q, job_list, stack)'
    BY <1>4, <1>5, <2>1, <2>3, <2>5, ZenonT(40) DEF ResolverAt, NoResolver, ExactlyOne, ThenablesFor
  <2>6. ResolverAt(p, job_list, stack)'
    BY <2>1, <2>4, Zenon DEF ResolverAt
  <2> QED BY <2>5, <2>6, Zenon DEF ResolverOK
<1>10. AdoptOK(job_list, stack)'
  <2>1. Stuck(p)' /\ \A q \in Promises : Stuck(q) => Stuck(q)'
    BY <1>4, <1>5, Zenon DEF Stuck, Live
  <2>2. ASSUME NEW q \in Promises, q # p PROVE Adopted(q, job_list, stack)'
    <3>1. Adopted(q, jobs, stack)
      BY <1>5, <2>2, Zenon
    <3>2. JobWaits(q, adopts[q], jobs) => JobWaits(q, adopts[q], job_list)'
      BY <1>4, Zenon DEF JobWaits, ThenableJob
    <3>3. ASSUME PairWaits(q, adopts[q], jobs, stack) PROVE PairWaits(q, adopts[q], job_list, stack)'
      <4>1. PICK g \in Pairs : promise[g] = q /\ ~already_resolved[g] /\ OnlyFrom(adopts[q], g, jobs, stack)
        BY <3>3, Zenon DEF PairWaits
      <4>2. /\ adopts'[q] = adopts[q] /\ promise_reactions' = promise_reactions
            /\ g \notin given' /\ \A k \in 1..Len(stack') : stack'[k].f # g
            /\ \A k \in 1..Len(job_list') :
                   job_list'[k].kind = "reaction" => k \in 1..Len(jobs) /\ job_list'[k] = jobs[k]
        BY <1>4, <4>1, Zenon DEF OnlyFrom
      <4>3. OnlyFrom(adopts[q], g, job_list, stack)'
        BY <4>1, <4>2, OnlyFromKept, ZenonT(40)
      <4> QED BY <1>4, <4>1, <4>3, Zenon DEF PairWaits
    <3>4. /\ LooksAgain(adopts[q]) => LooksAgain(adopts[q])'
          /\ SettledAs(q, adopts[q]) => SettledAs(q, adopts[q])'
      BY <1>4, Zenon DEF LooksAgain, SettledAs, Settled
    <3> QED BY <1>4, <2>1, <3>1, <3>2, <3>3, <3>4, ZenonT(40) DEF Adopted
  <2> QED BY <2>1, <2>2, Zenon DEF AdoptOK, Adopted
<1> QED BY <1>6, <1>7, <1>8, <1>9, <1>10, Zenon DEF IInv, At
=============================================================================
