--------------------------- MODULE AsyncGenerator ---------------------------
(***************************************************************************)
(* An async generator object: the queue of requests made by next, return   *)
(* and throw, the loop js_async_generator_resume_next that works on it, and *)
(* the functions that continue it when a promise it waits for settles.     *)
(*                                                                         *)
(* agCalls is the C stack, innermost first: "loop" is resume_next at the   *)
(* head of its for(;;), "body" the JavaScript body of the generator running *)
(* under it, "answer" and "last" the call of a resolving function, after   *)
(* which the loop goes on ("answer", then "again" instead of "loop") or    *)
(* the caller returns ("last"); "abort" is a failed assertion.             *)
(* JavaScript code is the script or a job when the stack is empty, the     *)
(* body, or a then getter that a resolving function calls on the iterator  *)
(* result (there is one only if Object.prototype has it).                  *)
(***************************************************************************)
EXTENDS Naturals, Sequences, FiniteSets

CONSTANTS
    MaxRequests,    \* bound: calls of next, return and throw
    MaxAwaits,      \* bound: awaits of the body
    ThenGetter      \* environment: Object.prototype has a then getter

ASSUME AgAssumption ==
    MaxRequests \in Nat /\ MaxAwaits \in Nat /\ ThenGetter \in BOOLEAN

VARIABLES
    agState,    \* s->state, or "freed" once the object is finalized
    agQueue,    \* s->queue: requests [id, type], oldest first
    agFrame,    \* the suspended frame: where the body stands, "freed" after async_func_free
    agWaits,    \* reactions registered and not called: [kind, at]
    agCalls,    \* the C stack
    agIssued,   \* requests made so far
    agAwaits,   \* awaits made so far
    agAnswers,  \* ghost: [id, how], the answers given, in order
    agEarly,    \* ghost: a loop that went on resumed the body at an await not settled
    agLost      \* ghost: js_promise_resolve threw in an await

agVars == <<agState, agQueue, agFrame, agWaits, agCalls, agIssued, agAwaits,
            agAnswers, agEarly, agLost>>

AgTypes == {"next", "return", "throw"}   \* GEN_MAGIC_x

\* Where the frame stands: at OP_initial_yield, a yield, the await with a
\* number (and once that has settled, with its value in cur_sp[-1] or its
\* exception pending), running, or gone.
AtAwait(n) == [at |-> "await", n |-> n]
Settled(n) == [at |-> "settled", n |-> n]
At(place) == [at |-> place, n |-> 0]

AgInit ==
    /\ agState = "start" /\ agFrame = At("start")
    /\ agQueue = <<>> /\ agWaits = {} /\ agCalls = <<>>
    /\ agIssued = 0 /\ agAwaits = 0
    /\ agAnswers = <<>> /\ agEarly = FALSE /\ agLost = FALSE

AgTop == IF agCalls = <<>> THEN "none" ELSE Head(agCalls)
AgPop == Tail(agCalls)
AgReplace(what) == <<what>> \o Tail(agCalls)

AgInJS == \/ AgTop \in {"none", "body"}
          \/ AgTop \in {"answer", "last"} /\ ThenGetter

-----------------------------------------------------------------------------
(* Pieces of the loop.                                                      *)

\* js_async_generator_complete: the frame is freed when the state changes.
AgComplete ==
    /\ agState' = "completed"
    /\ agFrame' = IF agState = "completed" THEN agFrame ELSE At("freed")

\* js_async_generator_resolve_or_reject: the oldest request leaves the queue and
\* its resolving function is called, from the loop or for the last time.
AgAnswer(how, then) ==
    /\ agQueue' = Tail(agQueue)
    /\ agAnswers' = Append(agAnswers, [id |-> Head(agQueue).id, how |-> how])
    /\ agCalls' = AgReplace(then)

\* perform_promise_then registers the two functions that continue the generator,
\* unless js_promise_resolve threw: the callers ignore the result.
AgWait(w) ==
    \/ agWaits' = agWaits \cup {w} /\ UNCHANGED agLost
    \/ agLost' = TRUE /\ UNCHANGED agWaits

-----------------------------------------------------------------------------
(* js_async_generator_next: queue the request, and work on the queue unless *)
(* the body is running or waiting.                                          *)

\* Mutant: a request made while the body is suspended in an await resumes it.
NextAlwaysResumes(type) ==
    /\ AgInJS
    /\ agState # "freed"
    /\ agIssued < MaxRequests
    /\ agIssued' = agIssued + 1
    /\ agQueue' = Append(agQueue, [id |-> agIssued + 1, type |-> type])
    /\ agCalls' = IF AgTop # "body" THEN <<"loop">> \o agCalls ELSE agCalls
    /\ UNCHANGED <<agState, agFrame, agWaits, agAwaits, agAnswers, agEarly, agLost>>

js_async_generator_next(type) ==
    /\ AgInJS
    /\ agState # "freed"
    /\ agIssued < MaxRequests
    /\ agIssued' = agIssued + 1
    /\ agQueue' = Append(agQueue, [id |-> agIssued + 1, type |-> type])
    /\ agCalls' = IF agState # "executing" THEN <<"loop">> \o agCalls ELSE agCalls
    /\ UNCHANGED <<agState, agFrame, agWaits, agAwaits, agAnswers, agEarly, agLost>>

-----------------------------------------------------------------------------
(* js_async_generator_resume_next, one turn of the loop per action.         *)

AgInLoop == AgTop \in {"loop", "again"}
AgLoop(state) == AgInLoop /\ agQueue # <<>> /\ agState = state

\* The queue is empty, or the generator waits for the value of a return.
AgLoopDone ==
    /\ AgInLoop
    /\ agQueue = <<>> \/ agState = "awaiting_return"
    /\ agCalls' = AgPop
    /\ UNCHANGED <<agState, agQueue, agFrame, agWaits, agIssued, agAwaits, agAnswers, agEarly, agLost>>

\* case EXECUTING: resume_exec, the body goes on after an await.  A loop that
\* has called a then getter gets here too, when the getter's request has run
\* the body up to an await.
AgResumeExec ==
    /\ AgLoop("executing")
    /\ agEarly' = (agEarly \/ (AgTop = "again" /\ agFrame.at # "settled"))
    /\ agFrame' = At("running")
    /\ agCalls' = AgReplace("body")
    /\ UNCHANGED <<agState, agQueue, agWaits, agIssued, agAwaits, agAnswers, agLost>>

\* case SUSPENDED_START: next starts the body; return and throw complete it.
AgStart ==
    /\ AgLoop("start")
    /\ IF Head(agQueue).type = "next"
       THEN /\ agState' = "executing"
            /\ agFrame' = At("running")
            /\ agCalls' = AgReplace("body")
       ELSE AgComplete /\ UNCHANGED agCalls
    /\ UNCHANGED <<agQueue, agWaits, agIssued, agAwaits, agAnswers, agEarly, agLost>>

\* Mutant: the loop goes on while a return waits for its value.
CompletedGoesOn ==
    /\ AgLoop("completed")
    /\ LET type == Head(agQueue).type IN
       \/ type = "next" /\ AgAnswer("done", "last") /\ UNCHANGED <<agState, agWaits, agLost>>
       \/ type = "throw" /\ AgAnswer("reject", "last") /\ UNCHANGED <<agState, agWaits, agLost>>
       \/ /\ type = "return"
          /\ AgWait([kind |-> "return", at |-> Head(agQueue).id])
          /\ agQueue' = Tail(agQueue)
          /\ agCalls' = AgPop
          /\ UNCHANGED <<agState, agAnswers>>
    /\ UNCHANGED <<agFrame, agIssued, agAwaits, agEarly>>

\* case COMPLETED: next and throw are answered and the loop is left, return
\* waits for its value.
AgCompleted ==
    /\ AgLoop("completed")
    /\ LET type == Head(agQueue).type IN
       \/ type = "next" /\ AgAnswer("done", "last") /\ UNCHANGED <<agState, agWaits, agLost>>
       \/ type = "throw" /\ AgAnswer("reject", "last") /\ UNCHANGED <<agState, agWaits, agLost>>
       \/ /\ type = "return"
          /\ agState' = "awaiting_return"
          /\ AgWait([kind |-> "return", at |-> Head(agQueue).id])
          /\ agCalls' = AgPop
          /\ UNCHANGED <<agQueue, agAnswers>>
    /\ UNCHANGED <<agFrame, agIssued, agAwaits, agEarly>>

\* cases SUSPENDED_YIELD and SUSPENDED_YIELD_STAR: the request becomes the
\* outcome of the yield and the body runs.
AgResumeYield ==
    /\ AgLoop("yield") \/ AgLoop("yield_star")
    /\ agState' = "executing"
    /\ agFrame' = At("running")
    /\ agCalls' = AgReplace("body")
    /\ UNCHANGED <<agQueue, agWaits, agIssued, agAwaits, agAnswers, agEarly, agLost>>

\* async_func_resume returns because the body throws or returns: complete, then
\* answer, then go on with the loop.
AgBodyEnds(how) ==
    /\ AgTop = "body"
    /\ AgComplete
    /\ AgAnswer(how, "answer")
    /\ UNCHANGED <<agWaits, agIssued, agAwaits, agEarly, agLost>>

\* FUNC_RET_YIELD and FUNC_RET_YIELD_STAR.
AgBodyYields(state) ==
    /\ AgTop = "body"
    /\ agState' = state
    /\ agFrame' = At("yield")
    /\ AgAnswer("value", "answer")
    /\ UNCHANGED <<agWaits, agIssued, agAwaits, agEarly, agLost>>

\* FUNC_RET_AWAIT: js_async_generator_await, and the loop is left.
js_async_generator_await ==
    /\ AgTop = "body"
    /\ agAwaits < MaxAwaits
    /\ agAwaits' = agAwaits + 1
    /\ agFrame' = AtAwait(agAwaits + 1)
    /\ AgWait([kind |-> "await", at |-> agAwaits + 1])
    /\ agCalls' = AgPop
    /\ UNCHANGED <<agState, agQueue, agIssued, agAnswers, agEarly>>

\* The resolving function returns to the loop, or to a caller that returns.
AgAnswered ==
    /\ AgTop \in {"answer", "last"}
    /\ agCalls' = IF AgTop = "answer" THEN AgReplace("again") ELSE AgPop
    /\ UNCHANGED <<agState, agQueue, agFrame, agWaits, agIssued, agAwaits, agAnswers, agEarly, agLost>>

-----------------------------------------------------------------------------
(* js_async_generator_resolve_function, called by a job.                    *)

\* After an await (magic < 2): the state is asserted to be EXECUTING, the outcome
\* is left in the frame (through cur_sp, or as the pending exception) and
\* resume_next called.
AgAwaitSettles(w) ==
    /\ agCalls = <<>>
    /\ w \in agWaits /\ w.kind = "await"
    /\ agWaits' = agWaits \ {w}
    /\ IF agState = "executing"
       THEN /\ agFrame' = IF agFrame.at = "freed" THEN At("written when freed")
                          ELSE Settled(agFrame.n)
            /\ agCalls' = <<"loop">>
       ELSE agCalls' = <<"abort">> /\ UNCHANGED agFrame
    /\ UNCHANGED <<agState, agQueue, agIssued, agAwaits, agAnswers, agEarly, agLost>>

\* The value of a return is there (magic >= 2): the state is asserted to be one
\* without a body, and the oldest request is answered.
AgReturnSettles(w, how) ==
    /\ agCalls = <<>>
    /\ w \in agWaits /\ w.kind = "return"
    /\ agWaits' = agWaits \ {w}
    /\ IF agState \in {"awaiting_return", "completed"}
       THEN /\ agState' = "completed"
            /\ agQueue' = Tail(agQueue)
            /\ agAnswers' = Append(agAnswers, [id |-> Head(agQueue).id, how |-> how])
            /\ agCalls' = <<"last">>
       ELSE agCalls' = <<"abort">> /\ UNCHANGED <<agState, agQueue, agAnswers>>
    /\ UNCHANGED <<agFrame, agIssued, agAwaits, agEarly, agLost>>

\* js_async_generator_free: nothing refers to the object any more (the functions
\* registered with a promise do, and so does an active call).
js_async_generator_finalizer ==
    /\ agCalls = <<>> /\ agWaits = {}
    /\ agState # "freed"
    /\ agState' = "freed"
    /\ agFrame' = IF agState \in {"completed", "awaiting_return"} THEN agFrame
                  ELSE IF agFrame = At("freed") THEN At("freed twice") ELSE At("freed")
    /\ agQueue' = <<>>
    /\ UNCHANGED <<agWaits, agCalls, agIssued, agAwaits, agAnswers, agEarly, agLost>>

-----------------------------------------------------------------------------
\* What the engine and the body do once called.
AgRun ==
    \/ AgLoopDone \/ AgResumeExec \/ AgStart \/ AgCompleted \/ AgResumeYield
    \/ \E how \in {"done", "reject"} : AgBodyEnds(how)
    \/ \E state \in {"yield", "yield_star"} : AgBodyYields(state)
    \/ js_async_generator_await
    \/ AgAnswered

AgSettle ==
    \E w \in agWaits :
        AgAwaitSettles(w) \/ AgReturnSettles(w, "done") \/ AgReturnSettles(w, "reject")

AgNext ==
    \/ \E type \in AgTypes : js_async_generator_next(type)
    \/ AgRun
    \/ AgSettle
    \/ js_async_generator_finalizer

\* JavaScript code returns, jobs are executed, and every promise a generator
\* waits for settles.
AgFairness == WF_agVars(AgRun) /\ WF_agVars(AgSettle)

AgSpec == AgInit /\ [][AgNext]_agVars /\ AgFairness

-----------------------------------------------------------------------------
(* Properties.                                                              *)

AgRequestIds == [i \in 1..Len(agAnswers) |-> agAnswers[i].id]
                    \o [i \in 1..Len(agQueue) |-> agQueue[i].id]

\* Requests are answered one by one in the order in which they were made, and
\* none twice: the answers given and the queue together are all the requests.
RequestsInOrder ==
    agState # "freed" => AgRequestIds = [i \in 1..agIssued |-> i]

\* An await is followed by exactly one resumption, at that await: while the
\* generator waits its function is registered once, the frame stands there and
\* the request that started the body is in the queue.  This also holds when then
\* getters call back into the generator, until a loop that has called one finds
\* the state EXECUTING and resumes the body at an await that has not settled.
OneWaiter ==
    ~agEarly =>
        /\ Cardinality(agWaits) <= 1
        /\ \A w \in agWaits : w.kind = "await" =>
               agState = "executing" /\ agFrame = AtAwait(w.at) /\ agQueue # <<>>

\* A return that waits is the oldest request, in every case.
ReturnWaits ==
    \A w \in agWaits : w.kind = "return" =>
        agState = "awaiting_return" /\ agQueue # <<>> /\ Head(agQueue).id = w.at

\* The assertions of js_async_generator_resolve_function hold under the same
\* condition; that about the state in which a return settles always holds, but
\* after an early resumption the await may settle in any state.
AssertionsHold == ~agEarly => AgTop # "abort"

\* The frame of the body is freed once, and never runs or is resumed after that:
\* it is gone exactly when the state says completed or awaiting return.
FrameLives ==
    /\ agFrame \notin {At("freed twice"), At("written when freed")}
    /\ agState # "freed" =>
           (agFrame = At("freed") <=> agState \in {"completed", "awaiting_return"})
    /\ AgTop = "body" => agFrame = At("running")

\* Again and again no request waits: whatever is queued while the body runs,
\* awaits or waits for the value of a return is answered in the end, unless an
\* await could not be registered or the generator has come to its end.
OldestAnswered ==
    []<>(agQueue = <<>> \/ agState \in {"completed", "freed"} \/ agLost \/ AgTop = "abort")

\* js_async_generator_await and the functions it registers resume a frame that
\* lives, once, where it stands, and the assertions they make hold, with requests
\* made by the script, by jobs, by the body and by then getters; except that the
\* comment "only happens when restarting execution after await()" is wrong for a
\* loop that has called such a getter, and what follows from there is left out
\* of the first and the last conjunct.
AgSound == OneWaiter /\ ReturnWaits /\ FrameLives /\ AssertionsHold
=============================================================================
