----------------------------- MODULE Generator -----------------------------
(***************************************************************************)
(* A generator object and the calls of next, return and throw on it        *)
(* (js_generator_next), re-entrant ones included.                          *)
(*                                                                         *)
(* genCalls is the stack of active calls of js_generator_next, innermost   *)
(* first: [at |-> "body"] while async_func_resume runs the body,           *)
(* [at |-> "delegate"] while the call runs JavaScript code of the iterator *)
(* of a yield*.  magic is the operation the call was made for.             *)
(***************************************************************************)
EXTENDS Naturals, Sequences

CONSTANTS
    MaxGenDepth,    \* bound: nesting of calls on the generator
    MaxGenSteps     \* bound: resumptions of the body

ASSUME GenAssumption == MaxGenDepth \in Nat \ {0} /\ MaxGenSteps \in Nat \ {0}

VARIABLES
    genState,       \* s->state, "none" before the function is called, "freed" after the finalizer
    genFrame,       \* what cur_sp[-1] and below hold: "start", "value" (a yield),
                    \* "iter" (iterator and method of a yield*), "running", "freed"
    genCalls,       \* the stack
    genSteps,       \* resumptions so far
    genReentered    \* ghost: a call was accepted while a delegate was running

genVars == <<genState, genFrame, genCalls, genSteps, genReentered>>

GenMagic == {"next", "return", "throw"}

GenInit ==
    /\ genState = "none" /\ genFrame = "start" /\ genCalls = <<>>
    /\ genSteps = 0 /\ genReentered = FALSE

GenTop == IF genCalls = <<>> THEN [at |-> "script", magic |-> ""] ELSE Head(genCalls)

-----------------------------------------------------------------------------
\* js_generator_function_call: runs the function up to OP_initial_yield; when
\* async_func_init, the arguments' initializers or the object's creation throw,
\* the frame is freed and there is no generator.
js_generator_function_call(ok) ==
    /\ genState = "none"
    /\ genState' = IF ok THEN "start" ELSE "freed"
    /\ genFrame' = IF ok THEN "start" ELSE "freed"
    /\ UNCHANGED <<genCalls, genSteps, genReentered>>

\* free_generator_stack_rt.
GenFree ==
    /\ genState' = "completed"
    /\ genFrame' = IF genState = "completed" THEN genFrame
                   ELSE IF genFrame = "freed" THEN "freed twice" ELSE "freed"

\* async_func_resume, from the call `calls` ends with.
GenResume(calls) ==
    /\ genSteps < MaxGenSteps
    /\ genSteps' = genSteps + 1
    /\ genState' = "executing"
    /\ genFrame' = IF genFrame = "freed" THEN "resumed after free" ELSE "running"
    /\ genCalls' = calls

\* js_generator_next up to the first JavaScript code it runs.  On a completed
\* generator it only answers, and while the body runs it throws a TypeError.
js_generator_next(magic) ==
    /\ genState \notin {"none", "freed"}
    /\ Len(genCalls) < MaxGenDepth
    /\ \/ /\ genState = "start"
          /\ IF magic = "next"
             THEN GenResume(<<[at |-> "body", magic |-> magic]>> \o genCalls)
             ELSE GenFree /\ UNCHANGED <<genCalls, genSteps>>
          /\ UNCHANGED genReentered
       \/ /\ genState = "yield"
          /\ GenResume(<<[at |-> "body", magic |-> magic]>> \o genCalls)
          /\ UNCHANGED genReentered
       \/ /\ genState = "yield_star"
          /\ genCalls' = <<[at |-> "delegate", magic |-> magic]>> \o genCalls
          /\ genReentered' = (genReentered \/ genCalls # <<>>)
          /\ UNCHANGED <<genState, genFrame, genSteps>>
       \/ /\ genState \in {"completed", "executing"}
          /\ UNCHANGED genVars

\* The delegate's method returns a result that is not done: it is the result of
\* the call, and the generator stays in its yield*.
DelegateGoesOn ==
    /\ GenTop.at = "delegate"
    /\ genCalls' = Tail(genCalls)
    /\ UNCHANGED <<genState, genFrame, genSteps, genReentered>>

\* iter_done: the delegate is done, or has no return method for a return; the
\* iterator and its method are popped and the body goes on with the value.
DelegateDone ==
    /\ GenTop.at = "delegate"
    /\ GenResume(<<[GenTop EXCEPT !.at = "body"]>> \o Tail(genCalls))
    /\ UNCHANGED genReentered

\* iter_exception: getting or calling the method throws, or a throw finds none
\* and the iterator is closed; the body goes on with the exception.
DelegateThrows ==
    /\ GenTop.at = "delegate"
    /\ GenResume(<<[GenTop EXCEPT !.at = "body"]>> \o Tail(genCalls))
    /\ UNCHANGED genReentered

\* The body reaches a yield.
BodyYields ==
    /\ GenTop.at = "body"
    /\ genState' = "yield"
    /\ genFrame' = "value"
    /\ genCalls' = Tail(genCalls)
    /\ UNCHANGED <<genSteps, genReentered>>

\* The body reaches a yield*: `goto redo' calls the delegate at once, with the
\* operation this call was made for.
BodyDelegates ==
    /\ GenTop.at = "body"
    /\ genState' = "yield_star"
    /\ genFrame' = "iter"
    /\ genCalls' = <<[GenTop EXCEPT !.at = "delegate"]>> \o Tail(genCalls)
    /\ UNCHANGED <<genSteps, genReentered>>

\* Mutant: only an exception frees the frame.
EndKeepsFrame ==
    /\ GenTop.at = "body"
    /\ genState' = "completed"
    /\ genCalls' = Tail(genCalls)
    /\ UNCHANGED <<genFrame, genSteps, genReentered>>

\* The body returns or throws.
BodyEnds ==
    /\ GenTop.at = "body"
    /\ GenFree
    /\ genCalls' = Tail(genCalls)
    /\ UNCHANGED <<genSteps, genReentered>>

\* js_generator_finalizer: an active call keeps the generator alive.
js_generator_finalizer ==
    /\ genCalls = <<>> /\ genState \notin {"none", "freed"}
    /\ genFrame' = IF genState = "completed" THEN genFrame
                   ELSE IF genFrame = "freed" THEN "freed twice" ELSE "freed"
    /\ genState' = "freed"
    /\ UNCHANGED <<genCalls, genSteps, genReentered>>

GenRun ==
    \/ DelegateGoesOn \/ DelegateDone \/ DelegateThrows
    \/ BodyYields \/ BodyDelegates \/ BodyEnds

GenNext ==
    \/ \E ok \in BOOLEAN : js_generator_function_call(ok)
    \/ \E magic \in GenMagic : js_generator_next(magic)
    \/ GenRun
    \/ js_generator_finalizer

GenSpec == GenInit /\ [][GenNext]_genVars

-----------------------------------------------------------------------------
\* The body is active in one call at most, the innermost but for calls that were
\* refused, and exactly while the state says so; a delegate runs on behalf of a
\* generator suspended in its yield*, the iterator on top of its stack.  Supposes
\* that no delegate called back into its generator.
OneResumption ==
    ~genReentered =>
        /\ Len(genCalls) <= 1
        /\ (GenTop.at = "body") <=> (genState = "executing")
        /\ GenTop.at = "delegate" => genState = "yield_star" /\ genFrame = "iter"
        /\ (genFrame = "running") <=> (genState = "executing")

\* The frame is freed when the body ends or the generator goes away, once, and is
\* not resumed afterwards.  Supposes the same.
GenFrameOnce ==
    /\ genFrame # "freed twice"
    /\ ~genReentered => genFrame # "resumed after free"
    /\ genState \in {"completed", "freed"} => genFrame \in {"freed", "resumed after free"}

\* js_generator_next resumes the body from one call at a time and frees its frame
\* once.
GenSound == OneResumption /\ GenFrameOnce
=============================================================================
