------------------------------ MODULE Promise -------------------------------
(***************************************************************************)
(* Promises and the jobs they queue: the constructor, the resolving        *)
(* functions, then, Promise.resolve and Promise.reject, and                *)
(* JS_ExecutePendingJob with its two kinds of job.                         *)
(*                                                                         *)
(* JavaScript code is arbitrary: while a frame of it is on top of the      *)
(* stack it may call any of the operations with anything it can hold, then *)
(* return or throw.  It runs as the script, in an executor, in a handler,  *)
(* in the then method of an object and in the getter of such a method.     *)
(***************************************************************************)
EXTENDS Integers, Sequences, FiniteSets

CONSTANTS
    NPromises,      \* bound: promises created
    NPairs,         \* bound: pairs of resolving functions created
    MaxDepth,       \* bound: nesting of JavaScript calls
    Objects,        \* objects that are not promises and may have a then method
    Undefined,
    TypeError       \* "promise self resolution"

ASSUME BoundAssumption ==
    /\ NPromises \in Nat \ {0} /\ NPairs \in Nat \ {0} /\ MaxDepth \in Nat
    /\ Undefined # TypeError /\ Undefined \notin Objects /\ TypeError \notin Objects

Promises == 1..NPromises
Pairs == 1..NPairs
ASSUME ValueAssumption == Promises \cap (Objects \cup {Undefined, TypeError}) = {}

VARIABLES
    promise_state,      \* "none" until the promise is created
    promise_result,
    promise_reactions,  \* an element stands for the records in both lists
    promise,            \* the promise of a pair of resolving functions, 0 if none
    already_resolved,   \* shared by the two functions of a pair
    given,              \* the pairs whose functions JavaScript code holds
    job_list,
    stack,              \* JavaScript calls in progress, the innermost last
    order,              \* ghost: the reactions of a promise as they were added
    started,            \* ghost: those whose jobs have been started
    lost,               \* ghost: those whose jobs could not be allocated
    stranded,           \* ghost: promises whose thenable job, or its pair, could not be allocated
    adopts              \* ghost: the promise a promise was resolved with, 0 if none (any more)

promiseVars == <<promise_state, promise_result, promise_reactions>>
pairVars == <<promise, already_resolved, given>>
vars == <<promiseVars, pairVars, job_list, stack, order, started, lost, stranded, adopts>>

Discarded == 0  \* the capability of a then call whose result nobody holds
Values == Promises \cup Objects \cup {Undefined, TypeError}

\* A handler is undefined, JavaScript code, or function i of the pair f.
NoHandler == [kind |-> "undefined", f |-> 0, i |-> 0]
Code == [kind |-> "code", f |-> 0, i |-> 0]
Function(f, i) == [kind |-> "function", f |-> f, i |-> i]
Handlers == {NoHandler, Code} \cup {Function(f, i) : f \in Pairs, i \in 0..1}

\* JSPromiseReactionData: what to call, and the capability that gets the outcome.
\* The pair id only tells reactions apart.
Reactions == [id : Pairs, cap : Pairs \cup {Discarded}, handler : [0..1 -> Handlers]]

ReactionJob(p, rd, is_reject, arg) ==
    [kind |-> "reaction", from |-> p, id |-> rd.id, cap |-> rd.cap,
     handler |-> rd.handler[is_reject], is_reject |-> is_reject, arg |-> arg]
ThenableJob(p, thenable) == [kind |-> "thenable", promise |-> p, thenable |-> thenable]

Frame(kind, f, v) == [kind |-> kind, f |-> f, v |-> v]
Script == Frame("script", 0, Undefined)

Init ==
    /\ promise_state = [p \in Promises |-> "none"]
    /\ promise_result = [p \in Promises |-> Undefined]
    /\ promise_reactions = [p \in Promises |-> <<>>]
    /\ promise = [f \in Pairs |-> 0]
    /\ already_resolved = [f \in Pairs |-> FALSE]
    /\ given = {}
    /\ job_list = <<>>
    /\ stack = <<Script>>
    /\ order = [p \in Promises |-> <<>>]
    /\ started = [p \in Promises |-> <<>>]
    /\ lost = {}
    /\ stranded = {}
    /\ adopts = [p \in Promises |-> 0]

-----------------------------------------------------------------------------
(* Helpers.                                                                 *)

Top == stack[Len(stack)]
Below == SubSeq(stack, 1, Len(stack) - 1)
InJS(kinds) == stack # <<>> /\ Top.kind \in kinds
JSKinds == {"script", "executor", "handler", "then", "throwing", "getter"}

\* Identities are handed out in order.
FreshPromise == {p \in Promises : /\ promise_state[p] = "none"
                                  /\ \A q \in 1..(p - 1) : promise_state[q] # "none"}
FreshPair == {f \in Pairs : promise[f] = 0 /\ \A g \in 1..(f - 1) : promise[g] # 0}
Created == {p \in Promises : promise_state[p] # "none"}

\* A bound: a pair is left for every thenable job that is queued, and n more.
PairsLeft(n) ==
    Cardinality({f \in Pairs : promise[f] = 0})
        >= Cardinality({k \in DOMAIN job_list : job_list[k].kind = "thenable"}) + n

\* What JavaScript code may pass on: anything that exists.
Held == Created \cup Objects \cup {Undefined}
HeldHandlers(i) == {NoHandler, Code} \cup {Function(f, i) : f \in given}
HandlerPair(h0, h1) == [i \in 0..1 |-> IF i = 0 THEN h0 ELSE h1]

\* The ways to take some of the positions 1..n, in order.
Picks(n) ==
    {idx \in UNION {[1..m -> 1..n] : m \in 0..n} :
         \A a, b \in DOMAIN idx : a < b => idx[a] < idx[b]}

\* JS_EnqueueJob of the reactions in rds, one after the other; only those at
\* the positions idx succeed.
ReactionJobs(p, rds, idx, is_reject, arg) ==
    [n \in DOMAIN idx |-> ReactionJob(p, rds[idx[n]], is_reject, arg)]

-----------------------------------------------------------------------------
(* The functions of quickjs.c that change promises.                         *)

\* fulfill_or_reject_promise: the reactions are queued after jobs.  The failure of
\* JS_EnqueueJob is ignored.
fulfill_or_reject_promise(p, value, is_reject, jobs) ==
    IF promise_state[p] # "pending"
    THEN job_list' = jobs /\ UNCHANGED <<promiseVars, lost, stranded>>
    ELSE LET rds == promise_reactions[p] IN
         /\ promise_result' = [promise_result EXCEPT ![p] = value]
         /\ promise_state' = [promise_state EXCEPT ![p] =
                                  IF is_reject = 1 THEN "rejected" ELSE "fulfilled"]
         /\ promise_reactions' = [promise_reactions EXCEPT ![p] = <<>>]
         /\ \E idx \in Picks(Len(rds)) :
                /\ job_list' = jobs \o ReactionJobs(p, rds, idx, is_reject, value)
                /\ lost' = lost \cup {rds[i].id : i \in 1..Len(rds) \ {idx[n] : n \in DOMAIN idx}}
         /\ UNCHANGED stranded

\* A resolving function has found that the resolution has a then method.
EnqueueThenable(p, thenable, jobs) ==
    /\ \/ job_list' = Append(jobs, ThenableJob(p, thenable)) /\ UNCHANGED stranded
       \/ job_list' = jobs /\ stranded' = stranded \cup {p}
    /\ UNCHANGED <<promiseVars, lost>>

\* Mutant: the pair is not marked while the then property is read.
MarksWhenSettled(f, i, v, stk, jobs) ==
    IF already_resolved[f]
    THEN /\ stack' = stk /\ job_list' = jobs
         /\ UNCHANGED <<promiseVars, already_resolved, lost, stranded, adopts>>
    ELSE LET p == promise[f] IN
         /\ already_resolved' = [already_resolved EXCEPT ![f] = i = 1 \/ v \notin Objects]
         /\ \/ /\ i = 1 \/ v \notin Promises \cup Objects
               /\ fulfill_or_reject_promise(p, v, i, jobs)
               /\ stack' = stk
               /\ UNCHANGED adopts
            \/ /\ i = 0 /\ v = p
               /\ fulfill_or_reject_promise(p, TypeError, 1, jobs)
               /\ stack' = stk
               /\ UNCHANGED adopts
            \/ /\ i = 0 /\ v \in Promises \ {p}
               /\ EnqueueThenable(p, v, jobs)
               /\ stack' = stk
               /\ adopts' = [adopts EXCEPT ![p] = v]
            \/ /\ i = 0 /\ v \in Objects
               /\ stack' = Append(stk, Frame("getter", f, v)) /\ job_list' = jobs
               /\ UNCHANGED <<promiseVars, lost, stranded, adopts>>

\* js_promise_resolve_function_call: function i of the pair f is called with v
\* and returns to the frames stk, the job list being jobs.  The then property of
\* an object is read by a getter, JavaScript code; that of a promise is
\* js_promise_then.
js_promise_resolve_function_call(f, i, v, stk, jobs) ==
    IF already_resolved[f]
    THEN /\ stack' = stk /\ job_list' = jobs
         /\ UNCHANGED <<promiseVars, already_resolved, lost, stranded, adopts>>
    ELSE LET p == promise[f] IN
         /\ already_resolved' = [already_resolved EXCEPT ![f] = TRUE]
         /\ \/ /\ i = 1 \/ v \notin Promises \cup Objects
               /\ fulfill_or_reject_promise(p, v, i, jobs)
               /\ stack' = stk
               /\ UNCHANGED adopts
            \/ /\ i = 0 /\ v = p
               /\ fulfill_or_reject_promise(p, TypeError, 1, jobs)
               /\ stack' = stk
               /\ UNCHANGED adopts
            \/ /\ i = 0 /\ v \in Promises \ {p}
               /\ EnqueueThenable(p, v, jobs)
               /\ stack' = stk
               /\ adopts' = [adopts EXCEPT ![p] = v]
            \/ /\ i = 0 /\ v \in Objects
               /\ stack' = Append(stk, Frame("getter", f, v)) /\ job_list' = jobs
               /\ UNCHANGED <<promiseVars, lost, stranded, adopts>>

\* Mutant: list_add instead of list_add_tail.
ThenPrepends(p, rd, jobs) ==
    /\ order' = [order EXCEPT ![p] = Append(@, rd.id)]
    /\ IF promise_state[p] = "pending"
       THEN /\ promise_reactions' = [promise_reactions EXCEPT ![p] = <<rd>> \o @]
            /\ job_list' = jobs
            /\ UNCHANGED lost
       ELSE LET i == IF promise_state[p] = "rejected" THEN 1 ELSE 0
                job == ReactionJob(p, rd, i, promise_result[p])
            IN /\ \/ job_list' = Append(jobs, job) /\ UNCHANGED lost
                  \/ job_list' = jobs /\ lost' = lost \cup {rd.id}
               /\ UNCHANGED promise_reactions

\* Mutant: a promise that has settled is not told apart.
ThenOnlyAppends(p, rd, jobs) ==
    /\ order' = [order EXCEPT ![p] = Append(@, rd.id)]
    /\ promise_reactions' = [promise_reactions EXCEPT ![p] = Append(@, rd)]
    /\ job_list' = jobs
    /\ UNCHANGED lost

\* perform_promise_then on the promise p.
perform_promise_then(p, rd, jobs) ==
    /\ order' = [order EXCEPT ![p] = Append(@, rd.id)]
    /\ IF promise_state[p] = "pending"
       THEN /\ promise_reactions' = [promise_reactions EXCEPT ![p] = Append(@, rd)]
            /\ job_list' = jobs
            /\ UNCHANGED lost
       ELSE LET i == IF promise_state[p] = "rejected" THEN 1 ELSE 0
                job == ReactionJob(p, rd, i, promise_result[p])
            IN /\ \/ job_list' = Append(jobs, job) /\ UNCHANGED lost
                  \/ job_list' = jobs /\ lost' = lost \cup {rd.id}
               /\ UNCHANGED promise_reactions

-----------------------------------------------------------------------------
(* What JavaScript code calls.                                              *)

\* js_promise_constructor up to the call of the executor.
js_promise_constructor(p, f) ==
    /\ InJS(JSKinds) /\ Len(stack) < MaxDepth
    /\ PairsLeft(1)
    /\ promise_state' = [promise_state EXCEPT ![p] = "pending"]
    /\ promise' = [promise EXCEPT ![f] = p]
    /\ given' = given \cup {f}
    /\ stack' = Append(stack, Frame("executor", f, Undefined))
    /\ UNCHANGED <<promise_result, promise_reactions, already_resolved, job_list,
                   order, started, lost, stranded, adopts>>

\* JavaScript code calls a resolving function it holds.
CallGiven(f, i, v) ==
    /\ InJS(JSKinds) /\ Len(stack) < MaxDepth
    /\ (v \in Promises => PairsLeft(1))
    /\ js_promise_resolve_function_call(f, i, v, stack, job_list)
    /\ UNCHANGED <<promise, given, order, started>>

\* js_promise_then (and js_promise_catch): p2 and f2 are the new capability,
\* whose functions JavaScript code does not get.  A bound: resolve functions are
\* passed as first handlers only, reject functions as second ones.
js_promise_then(p, h0, h1, p2, f2) ==
    /\ InJS(JSKinds) /\ PairsLeft(1)
    /\ promise_state' = [promise_state EXCEPT ![p2] = "pending"]
    /\ promise' = [promise EXCEPT ![f2] = p2]
    /\ perform_promise_then(p, [id |-> f2, cap |-> f2, handler |-> HandlerPair(h0, h1)],
                            job_list)
    /\ UNCHANGED <<promise_result, already_resolved, given, stack, started, stranded, adopts>>

\* js_promise_resolve (Promise.resolve and Promise.reject) with a value of
\* which the constructor makes a new promise.  A promise passed to
\* Promise.resolve is returned as it is.
js_promise_resolve(is_reject, v, p, f) ==
    /\ InJS(JSKinds) /\ Len(stack) < MaxDepth
    /\ is_reject = 1 \/ v \notin Promises
    /\ PairsLeft(1)
    /\ promise' = [promise EXCEPT ![f] = p]
    /\ already_resolved' = [already_resolved EXCEPT ![f] = TRUE]
    /\ IF is_reject = 0 /\ v \in Objects
       THEN /\ promise_state' = [promise_state EXCEPT ![p] = "pending"]
            /\ stack' = Append(stack, Frame("getter", f, v))
            /\ UNCHANGED promise_result
       ELSE /\ promise_state' = [promise_state EXCEPT ![p] =
                                     IF is_reject = 1 THEN "rejected" ELSE "fulfilled"]
            /\ promise_result' = [promise_result EXCEPT ![p] = v]
            /\ UNCHANGED stack
    /\ UNCHANGED <<promise_reactions, given, job_list, order, started, lost, stranded, adopts>>

-----------------------------------------------------------------------------
(* JavaScript code returns, or throws e.                                    *)

\* The script ends, or an executor or then method returns: what they return is
\* dropped.
Returns ==
    /\ InJS({"script", "executor", "then"})
    /\ stack' = Below
    /\ UNCHANGED <<promiseVars, pairVars, job_list, order, started, lost, stranded, adopts>>

\* js_promise_constructor and js_promise_resolve_thenable_job reject with what
\* the executor or the then method throws.
Throws(e) ==
    /\ InJS({"executor", "then", "throwing"})
    /\ js_promise_resolve_function_call(Top.f, 1, e, Below, job_list)
    /\ UNCHANGED <<promise, given, order, started>>

\* promise_reaction_job after its handler has returned or thrown v.
HandlerEnds(is_reject, v) ==
    /\ InJS({"handler"})
    /\ is_reject = 0 /\ v \in Promises => PairsLeft(1)
    /\ js_promise_resolve_function_call(Top.f, is_reject, v, Below, job_list)
    /\ UNCHANGED <<promise, given, order, started>>

\* promise_reaction_job after a handler that is itself a resolving function.
FunctionEnds ==
    /\ InJS({"function"})
    /\ IF Top.f = Discarded
       THEN /\ stack' = Below
            /\ UNCHANGED <<promiseVars, already_resolved, job_list, lost, stranded, adopts>>
       ELSE js_promise_resolve_function_call(Top.f, 0, Undefined, Below, job_list)
    /\ UNCHANGED <<promise, given, order, started>>

\* js_promise_resolve_function_call once it knows the then property.
GetterEnds ==
    /\ InJS({"getter"})
    /\ stack' = Below
    /\ LET p == promise[Top.f] IN
       \/ PairsLeft(1) /\ EnqueueThenable(p, Top.v, job_list)
       \/ fulfill_or_reject_promise(p, Top.v, 0, job_list)
       \/ \E e \in Held : fulfill_or_reject_promise(p, e, 1, job_list)
    /\ UNCHANGED <<pairVars, order, started, adopts>>

-----------------------------------------------------------------------------
(* JS_ExecutePendingJob.                                                    *)

\* promise_reaction_job up to the call of the handler, or to its end if there
\* is none: an undefined handler passes the outcome on.
promise_reaction_job ==
    /\ stack = <<>> /\ job_list # <<>> /\ Head(job_list).kind = "reaction"
    /\ LET job == Head(job_list)
           h == job.handler
           jobs == Tail(job_list)
       IN /\ started' = [started EXCEPT ![job.from] = Append(@, job.id)]
          /\ \/ /\ h.kind = "code"
                /\ stack' = <<Frame("handler", job.cap, Undefined)>>
                /\ job_list' = jobs
                /\ UNCHANGED <<promiseVars, already_resolved, lost, stranded, adopts>>
             \/ /\ h.kind = "function"
                /\ js_promise_resolve_function_call(h.f, h.i, job.arg,
                       <<Frame("function", job.cap, Undefined)>>, jobs)
             \/ /\ h.kind = "undefined"
                /\ js_promise_resolve_function_call(job.cap, job.is_reject, job.arg,
                                                    <<>>, jobs)
    /\ UNCHANGED <<promise, given, order>>

\* js_promise_resolve_thenable_job of an object: its then method gets the pair f.
ThenableJobCallsThen(f) ==
    LET job == Head(job_list) IN
    /\ job.thenable \in Objects
    /\ given' = given \cup {f}
    /\ stack' = <<Frame("then", f, Undefined)>>
    /\ job_list' = Tail(job_list)
    /\ UNCHANGED <<promise_reactions, order, lost, adopts>>

\* js_promise_resolve_thenable_job of a promise on which js_promise_then is going
\* to throw: reading its constructor runs JavaScript code, which gets nothing of
\* the pair, and an allocation may fail.  The promise no longer follows it.
ThenableJobThrows(f) ==
    LET job == Head(job_list) IN
    /\ job.thenable \in Promises
    /\ stack' = <<Frame("throwing", f, Undefined)>>
    /\ job_list' = Tail(job_list)
    /\ adopts' = [adopts EXCEPT ![job.promise] = 0]
    /\ UNCHANGED <<promise_reactions, order, lost, given>>

\* Mutant: the two functions are passed in the wrong order.
AdoptsCrosswise(f) ==
    LET job == Head(job_list)
        q == job.thenable
        rd == [id |-> f, cap |-> Discarded, handler |-> [i \in 0..1 |-> Function(f, 1 - i)]]
    IN
    /\ q \in Promises
    /\ perform_promise_then(q, rd, Tail(job_list))
    /\ UNCHANGED <<given, stack, adopts>>

\* js_promise_resolve_thenable_job of a promise q: js_promise_then adds the
\* pair f as handlers, and the promise it returns is dropped.
ThenableJobAdopts(f) ==
    LET job == Head(job_list)
        q == job.thenable
        rd == [id |-> f, cap |-> Discarded, handler |-> [i \in 0..1 |-> Function(f, i)]]
    IN
    /\ q \in Promises
    /\ perform_promise_then(q, rd, Tail(job_list))
    /\ UNCHANGED <<given, stack, adopts>>

\* js_promise_resolve_thenable_job: a new pair for the promise it resolves.
js_promise_resolve_thenable_job(f) ==
    /\ stack = <<>> /\ job_list # <<>> /\ Head(job_list).kind = "thenable"
    /\ promise' = [promise EXCEPT ![f] = Head(job_list).promise]
    /\ ThenableJobCallsThen(f) \/ ThenableJobAdopts(f) \/ ThenableJobThrows(f)
    /\ UNCHANGED <<promise_state, promise_result, already_resolved, started, stranded>>

\* js_promise_resolve_thenable_job when js_create_resolving_functions fails.
ThenableJobFails ==
    /\ stack = <<>> /\ job_list # <<>> /\ Head(job_list).kind = "thenable"
    /\ job_list' = Tail(job_list)
    /\ stranded' = stranded \cup {Head(job_list).promise}
    /\ UNCHANGED <<promiseVars, pairVars, stack, order, started, lost, adopts>>

-----------------------------------------------------------------------------
JSCode ==
    \/ \E p \in FreshPromise, f \in FreshPair : js_promise_constructor(p, f)
    \/ \E f \in given, i \in 0..1, v \in Held : CallGiven(f, i, v)
    \/ \E p2 \in FreshPromise, f2 \in FreshPair, p \in Created,
          h0 \in HeldHandlers(0), h1 \in HeldHandlers(1) : js_promise_then(p, h0, h1, p2, f2)
    \/ \E p \in FreshPromise, f \in FreshPair, i \in 0..1, v \in Held :
           js_promise_resolve(i, v, p, f)

JSEnds ==
    \/ Returns
    \/ \E e \in Held : Throws(e)
    \/ \E i \in 0..1, v \in Held : HandlerEnds(i, v)
    \/ FunctionEnds
    \/ GetterEnds

JS_ExecutePendingJob ==
    \/ promise_reaction_job
    \/ \E f \in FreshPair : js_promise_resolve_thenable_job(f)
    \/ ThenableJobFails

Next == JSCode \/ JSEnds \/ JS_ExecutePendingJob

Spec == Init /\ [][Next]_vars

\* JavaScript code returns, and js_std_loop executes jobs as long as there are any.
FairSpec == Spec /\ WF_vars(JSEnds) /\ WF_vars(JS_ExecutePendingJob)

-----------------------------------------------------------------------------
(* Properties.                                                              *)

Jobs == [kind : {"reaction"}, from : Promises, id : Pairs, cap : Pairs \cup {Discarded},
         handler : Handlers, is_reject : 0..1, arg : Values]
        \cup [kind : {"thenable"}, promise : Promises, thenable : Promises \cup Objects]

Frames == [kind : JSKinds \cup {"function"}, f : Pairs \cup {0}, v : Values]

\* Every variable holds a value of its type.
TypeOK ==
    /\ promise_state \in [Promises -> {"none", "pending", "fulfilled", "rejected"}]
    /\ promise_result \in [Promises -> Values]
    /\ promise_reactions \in [Promises -> Seq(Reactions)]
    /\ promise \in [Pairs -> Promises \cup {0}]
    /\ already_resolved \in [Pairs -> BOOLEAN]
    /\ given \subseteq {f \in Pairs : promise[f] # 0}
    /\ job_list \in Seq(Jobs)
    /\ stack \in Seq(Frames)
    /\ order \in [Promises -> Seq(Pairs)]
    /\ started \in [Promises -> Seq(Pairs)]
    /\ lost \subseteq Pairs
    /\ stranded \subseteq Promises
    /\ adopts \in [Promises -> Promises \cup {0}]

Settled(p) == promise_state[p] \in {"fulfilled", "rejected"}

\* What may still settle the promise p: a pair not yet called, a thenable job,
\* or a resolving function that waits for the getter of a then property.
Resolvers(p) ==
    {<<"pair", f>> : f \in {f \in Pairs : promise[f] = p /\ ~already_resolved[f]}}
    \cup {<<"job", k>> : k \in {k \in DOMAIN job_list :
                                   job_list[k].kind = "thenable" /\ job_list[k].promise = p}}
    \cup {<<"frame", k>> : k \in {k \in DOMAIN stack :
                                     stack[k].kind = "getter" /\ promise[stack[k].f] = p}}

\* A settled promise has nothing left that could settle it, and a pending one
\* has exactly one such thing, unless its thenable job or the pair of functions
\* that the job passes on could not be allocated:
\* it can be settled, it cannot be settled twice, and the test of
\* fulfill_or_reject_promise ("should never happen") never succeeds, however
\* executors, handlers, then methods and getters nest and whatever functions
\* they keep.
OneResolver ==
    \A p \in Created :
        Cardinality(Resolvers(p)) = IF Settled(p) \/ p \in stranded THEN 0 ELSE 1

\* The reaction a was added to the promise p before b was, and neither twice.
Before(p, a, b) ==
    \E i, j \in DOMAIN order[p] :
        /\ i < j /\ order[p][i] = a /\ order[p][j] = b
        /\ \A k \in DOMAIN order[p] : order[p][k] \in {a, b} => k \in {i, j}

JobFrom(p, k) == job_list[k].kind = "reaction" /\ job_list[k].from = p

Started(p) == {started[p][k] : k \in DOMAIN started[p]}
Queued(p) == {job_list[k].id : k \in {k \in DOMAIN job_list : JobFrom(p, k)}}
Listed(p) == {promise_reactions[p][k].id : k \in DOMAIN promise_reactions[p]}

\* The reactions of a promise start in the order in which then was called, each
\* of them once, whether they were added before or after the promise settled;
\* only those whose job could not be allocated are left out.
ReactionsInOrder ==
    \A p \in Promises :
        /\ Started(p) \cup Queued(p) \cup Listed(p) = {order[p][k] : k \in DOMAIN order[p]} \ lost
        /\ \A i, j \in DOMAIN started[p] : i < j => Before(p, started[p][i], started[p][j])
        /\ \A i, j \in DOMAIN job_list :
               i < j /\ JobFrom(p, i) /\ JobFrom(p, j) => Before(p, job_list[i].id, job_list[j].id)
        /\ \A i, j \in DOMAIN promise_reactions[p] :
               i < j => Before(p, promise_reactions[p][i].id, promise_reactions[p][j].id)
        /\ \A a \in Started(p), b \in Queued(p) : Before(p, a, b)
        /\ \A a \in Started(p) \cup Queued(p), b \in Listed(p) : Before(p, a, b)

\* A promise resolved with another promise q settles only after q and as q did
\* (unless q's value is an object, whose then method is looked up again, or the
\* call of q's then method throws), and no promise is ever fulfilled with a
\* promise.
AdoptsState ==
    \A p \in Promises :
        /\ promise_state[p] = "fulfilled" => promise_result[p] \notin Promises
        /\ adopts[p] # 0 /\ Settled(p) =>
               LET q == adopts[p] IN
               /\ Settled(q)
               /\ promise_result[q] \notin Objects =>
                      /\ promise_state[p] = promise_state[q]
                      /\ promise_result[p] = promise_result[q]

\* Every reaction of a settled promise is started, unless the allocation of its
\* job failed: again and again there is none left that waits.  (What has started
\* stays started, so every single reaction is; the converse needs the bound on
\* what JavaScript code creates.)
ReactionsStart ==
    []<>(\A p \in Promises : Settled(p) =>
             {order[p][k] : k \in DOMAIN order[p]} \subseteq lost \cup Started(p))
=============================================================================
