--------------------------- MODULE AsyncFunction ---------------------------
(***************************************************************************)
(* One activation of an async function: its JSAsyncFunctionData, counted   *)
(* by reference from the call that creates it and from the two functions   *)
(* each await registers with a promise.                                    *)
(***************************************************************************)
EXTENDS Naturals, FiniteSets

CONSTANT MaxAfAwaits    \* bound: awaits of the body

ASSUME AfAssumption == MaxAfAwaits \in Nat

VARIABLES
    afRun,      \* "none", "body", "unwind" (js_async_function_resume returned), "idle"
    afCaller,   \* who called js_async_function_resume: "call", "job" or ""
    afRef,      \* s->header.ref_count
    afActive,   \* s->is_active
    afFrame,    \* "none", "live", "freed", "freed twice"
    afFuncs,    \* the resolving functions of awaits that exist: [n, reject]
    afJob,      \* functions a promise job will call
    afAwaits,   \* awaits so far
    afSettled   \* ghost: calls of the capability's resolving functions

afVars == <<afRun, afCaller, afRef, afActive, afFrame, afFuncs, afJob, afAwaits, afSettled>>

AfInit ==
    /\ afRun = "none" /\ afCaller = "" /\ afRef = 0 /\ afActive = FALSE /\ afFrame = "none"
    /\ afFuncs = {} /\ afJob = {} /\ afAwaits = 0 /\ afSettled = 0

AfPair(n) == [n : {n}, reject : BOOLEAN]

\* js_async_function_terminate, then afRef gets its value.
js_async_function_terminate(ref, active, frame) ==
    /\ afActive' = FALSE
    /\ afFrame' = IF ~active THEN frame
                  ELSE IF frame = "freed" THEN "freed twice" ELSE "freed"
    /\ afRef' = ref

\* js_async_function_free by n holders at once; the last one terminates it.
js_async_function_free(n) ==
    IF afRef = n THEN js_async_function_terminate(0, afActive, afFrame)
    ELSE afRef' = afRef - n /\ UNCHANGED <<afActive, afFrame>>

-----------------------------------------------------------------------------
\* js_async_function_call up to js_async_function_resume, or giving up because
\* the promise or the frame cannot be allocated.
js_async_function_call(ok) ==
    /\ afRun = "none"
    /\ IF ok
       THEN /\ afRef' = 1 /\ afActive' = TRUE /\ afFrame' = "live"
            /\ afRun' = "body" /\ afCaller' = "call"
       ELSE afRun' = "idle" /\ UNCHANGED <<afRef, afActive, afFrame, afCaller>>
    /\ UNCHANGED <<afFuncs, afJob, afAwaits, afSettled>>

\* js_async_function_resume: the body returns or throws, or an await cannot be
\* set up (functions created so far are freed again): the promise of the
\* call is settled, then the frame is freed.
AfEnds ==
    /\ afRun = "body"
    /\ afSettled' = afSettled + 1
    /\ js_async_function_terminate(afRef, afActive, afFrame)
    /\ afRun' = "unwind"
    /\ UNCHANGED <<afCaller, afFuncs, afJob, afAwaits>>

\* Mutant: only one of the two functions counts as a reference.
AwaitCountsOnce ==
    /\ afRun = "body"
    /\ afAwaits < MaxAfAwaits
    /\ afAwaits' = afAwaits + 1
    /\ afFuncs' = afFuncs \cup AfPair(afAwaits + 1)
    /\ afRef' = afRef + 1
    /\ afRun' = "unwind"
    /\ UNCHANGED <<afCaller, afActive, afFrame, afJob, afSettled>>

\* The body awaits: js_async_function_resolve_create makes two functions, which
\* perform_promise_then leaves with the promise.
AfAwait ==
    /\ afRun = "body"
    /\ afAwaits < MaxAfAwaits
    /\ afAwaits' = afAwaits + 1
    /\ afFuncs' = afFuncs \cup AfPair(afAwaits + 1)
    /\ afRef' = afRef + 2
    /\ afRun' = "unwind"
    /\ UNCHANGED <<afCaller, afActive, afFrame, afJob, afSettled>>

\* js_async_function_resume returns: js_async_function_call drops its reference,
\* a job drops the function it called.
AfReturns ==
    /\ afRun = "unwind"
    /\ afRun' = "idle" /\ afCaller' = ""
    /\ IF afCaller = "call" THEN UNCHANGED <<afFuncs, afJob>>
       ELSE afFuncs' = afFuncs \ afJob /\ afJob' = {}
    /\ js_async_function_free(1)
    /\ UNCHANGED <<afAwaits, afSettled>>

\* The awaited promise settles: the reactions are freed but for the function
\* that goes into a job.
AfPromiseSettles(f) ==
    /\ f \in afFuncs /\ afJob = {} /\ afRun \in {"idle", "unwind"}
    /\ afJob' = {f}
    /\ afFuncs' = {f}
    /\ js_async_function_free(Cardinality(afFuncs) - 1)
    /\ UNCHANGED <<afRun, afCaller, afAwaits, afSettled>>

\* js_async_function_resolve_call, from the job.
js_async_function_resolve_call ==
    /\ afRun = "idle" /\ afJob # {}
    /\ afRun' = "body" /\ afCaller' = "job"
    /\ UNCHANGED <<afRef, afActive, afFrame, afFuncs, afJob, afAwaits, afSettled>>

\* The awaited promise is freed without settling: js_async_function_resolve_finalizer
\* of both functions.
AfPromiseFreed ==
    /\ afFuncs # {} /\ afJob = {} /\ afRun \in {"idle", "unwind"}
    /\ afFuncs' = {}
    /\ js_async_function_free(Cardinality(afFuncs))
    /\ UNCHANGED <<afRun, afCaller, afJob, afAwaits, afSettled>>

AfNext ==
    \/ \E ok \in BOOLEAN : js_async_function_call(ok)
    \/ AfEnds \/ AfAwait \/ AfReturns \/ js_async_function_resolve_call \/ AfPromiseFreed
    \/ \E f \in afFuncs : AfPromiseSettles(f)

AfSpec == AfInit /\ [][AfNext]_afVars

-----------------------------------------------------------------------------
\* The reference count is the number of holders, so that the data lives as long
\* as something can resume the body, and not longer.
AfRefsExact ==
    afRun # "none" =>
        /\ afRef = Cardinality(afFuncs) + (IF afCaller = "call" THEN 1 ELSE 0)
        /\ afRun = "body" => afRef > 0
        /\ afRef = 0 => ~afActive /\ afFrame # "live"

\* The frame is freed once and never while the body runs, and the promise of the
\* call is settled at most once: when the body is active it is not settled yet.
AfEndsOnce ==
    /\ afFrame # "freed twice"
    /\ afRun = "body" => afFrame = "live" /\ afActive
    /\ afSettled <= 1
    /\ afActive => afSettled = 0

\* JSAsyncFunctionData is counted exactly and its frame ends once.
AfSound == AfRefsExact /\ AfEndsOnce
=============================================================================
