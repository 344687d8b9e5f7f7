------------------------------ MODULE StdLoop ------------------------------
(***************************************************************************)
(* The event loop of quickjs-libc.c: js_std_loop, js_os_poll, the job      *)
(* queue it drains and the handlers JavaScript code installs through the   *)
(* os module (timers, read/write handlers, signal handlers).               *)
(*                                                                         *)
(* One main thread; a signal may interrupt it between any two steps.       *)
(* JavaScript code runs in the phases "script", "job" and "callback": there *)
(* it may call any of the API operations below, any number of times, in    *)
(* any order, before it returns.  What the loop does between two calls     *)
(* into JavaScript is one step per point at which a signal can be          *)
(* observed.                                                               *)
(***************************************************************************)
EXTENDS ListHead

CONSTANTS
    Jobs,          \* identities of JSJobEntry records (reused once run)
    Timers,        \* identities of JSOSTimer records (reused once freed)
    FDs,           \* file descriptors
    Signals,       \* signal numbers
    MaxDelay,      \* bound: largest delay given to setTimeout
    SelectCap      \* the 10000 ms cap on one select() call

ASSUME DelayAssumption == MaxDelay \in Nat
ASSUME CapAssumption == SelectCap \in Nat \ {0}

VARIABLES
    pc,                  \* where the main thread is
    running,             \* the job or handler JavaScript is running for
    job_list,            \* rt->job_list
    threw,               \* ghost: a job threw since job_list was last found empty
    os_poll_func,        \* is the static os_poll_func set?
    os_timers,           \* the os_timers list
    allocated,           \* JSOSTimer records not yet freed
    has_object,          \* th->has_object
    has_func,            \* th->func is a function and not JS_UNDEFINED
    delay,               \* th->timeout - get_time_ms(), never below 0
    os_rw_handlers,      \* the os_rw_handlers list
    rfunc, wfunc,        \* fds whose rw_func[0], rw_func[1] is not null
    os_signal_handlers,  \* the os_signal_handlers list
    os_pending_signals,  \* the bits set by os_signal_handler
    loaded,              \* js_os_poll's copy of os_pending_signals
    tvp,                 \* what is left of select's timeout, or NoTimeout
    readable, writable   \* environment: fds ready for input, for output

jobVars == <<job_list, threw>>
timerVars == <<os_timers, allocated, has_object, has_func, delay>>
rwVars == <<os_rw_handlers, rfunc, wfunc>>
sigVars == <<os_signal_handlers, os_pending_signals>>
envVars == <<readable, writable>>
vars == <<pc, running, job_list, threw, os_poll_func, os_timers, allocated, has_object, has_func,
          delay, os_rw_handlers, rfunc, wfunc, os_signal_handlers,
          os_pending_signals, loaded, tvp, readable, writable>>

NoTimeout == MaxDelay + SelectCap + 1
Nobody == <<"none", "none">>

Delays == 0..MaxDelay
JSPhases == {"script", "job", "callback"}
Phases == JSPhases \cup {"jobs", "poll", "signals", "events", "select",
                         "blocked", "done", "failed", "torndown", "freed"}

InJS == pc \in JSPhases

-----------------------------------------------------------------------------
(* js_std_add_helpers has initialised the lists; the script is about to run. *)
Init ==
    /\ pc = "script"
    /\ running = Nobody
    /\ job_list = <<>>
    /\ threw = FALSE
    /\ os_poll_func = FALSE
    /\ os_timers = <<>>
    /\ allocated = {}
    /\ has_object = {}
    /\ has_func = {}
    /\ delay = [t \in Timers |-> 0]
    /\ os_rw_handlers = <<>>
    /\ rfunc = {}
    /\ wfunc = {}
    /\ os_signal_handlers = <<>>
    /\ os_pending_signals = {}
    /\ loaded = {}
    /\ tvp = NoTimeout
    /\ readable = {}
    /\ writable = {}

-----------------------------------------------------------------------------
(* What JavaScript code may do.                                             *)

\* js_os_init: importing the os module sets the poll function.
js_os_init ==
    /\ pc = "script"
    /\ ~os_poll_func
    /\ os_poll_func' = TRUE
    /\ UNCHANGED <<pc, running, jobVars, timerVars, rwVars, sigVars, loaded, tvp, envVars>>

\* JS_EnqueueJob: append to the runtime's job list.
JS_EnqueueJob(j) ==
    /\ InJS
    /\ j \notin Elems(job_list)
    /\ running # <<"job", j>>
    /\ job_list' = Append(job_list, j)
    /\ UNCHANGED <<pc, threw, running, os_poll_func, timerVars, rwVars, sigVars, loaded, tvp, envVars>>

js_os_setTimeout(t, d) ==
    /\ InJS /\ os_poll_func
    /\ t \notin allocated
    /\ allocated' = allocated \cup {t}
    /\ has_object' = has_object \cup {t}
    /\ has_func' = has_func \cup {t}
    /\ delay' = [delay EXCEPT ![t] = d]
    /\ os_timers' = Append(os_timers, t)
    /\ UNCHANGED <<pc, running, jobVars, os_poll_func, rwVars, sigVars, loaded, tvp, envVars>>

\* The handle is an argument, so its object is alive.
js_os_clearTimeout(t) ==
    /\ InJS /\ os_poll_func
    /\ t \in has_object
    /\ os_timers' = Unlink(os_timers, t)
    /\ UNCHANGED <<pc, running, jobVars, os_poll_func, allocated, has_object, has_func,
                   delay, rwVars, sigVars, loaded, tvp, envVars>>

\* The last reference to the handle goes away: while JavaScript runs, when the
\* loop frees the callback's closure on return (the last thing it does before
\* the next turn), or in JS_FreeRuntime.
js_os_timer_finalizer(t) ==
    /\ InJS \/ pc = "torndown"
    /\ t \in has_object
    /\ has_object' = has_object \ {t}
    /\ IF t \in Elems(os_timers)
       THEN UNCHANGED <<allocated, has_func>>
       ELSE allocated' = allocated \ {t} /\ has_func' = has_func \ {t}
    /\ UNCHANGED <<pc, running, jobVars, os_poll_func, os_timers, delay, rwVars, sigVars,
                   loaded, tvp, envVars>>

\* os.setReadHandler(fd, func) and os.setWriteHandler(fd, func), func a function.
js_os_setReadHandler(fd, magic) ==
    /\ InJS /\ os_poll_func
    /\ os_rw_handlers' = IF fd \in Elems(os_rw_handlers) THEN os_rw_handlers
                         ELSE Append(os_rw_handlers, fd)
    /\ rfunc' = IF magic = 0 THEN rfunc \cup {fd} ELSE rfunc
    /\ wfunc' = IF magic = 1 THEN wfunc \cup {fd} ELSE wfunc
    /\ UNCHANGED <<pc, running, jobVars, os_poll_func, timerVars, sigVars, loaded, tvp, envVars>>

\* Mutant: the handler is freed whether or not the other function is set.
FreesHandlerAlways(fd, magic) ==
    /\ InJS /\ os_poll_func
    /\ fd \in Elems(os_rw_handlers)
    /\ rfunc' = IF magic = 0 THEN rfunc \ {fd} ELSE rfunc
    /\ wfunc' = IF magic = 1 THEN wfunc \ {fd} ELSE wfunc
    /\ os_rw_handlers' = Unlink(os_rw_handlers, fd)
    /\ UNCHANGED <<pc, running, jobVars, os_poll_func, timerVars, sigVars, loaded, tvp, envVars>>

\* The same two functions with func = null: free_rw_handler when both are null.
js_os_setReadHandlerNull(fd, magic) ==
    /\ InJS /\ os_poll_func
    /\ fd \in Elems(os_rw_handlers)
    /\ rfunc' = IF magic = 0 THEN rfunc \ {fd} ELSE rfunc
    /\ wfunc' = IF magic = 1 THEN wfunc \ {fd} ELSE wfunc
    /\ os_rw_handlers' = IF fd \notin rfunc' \cup wfunc'
                         THEN Unlink(os_rw_handlers, fd) ELSE os_rw_handlers
    /\ UNCHANGED <<pc, running, jobVars, os_poll_func, timerVars, sigVars, loaded, tvp, envVars>>

\* os.signal(sig, func): a function installs os_signal_handler ...
js_os_signal(s) ==
    /\ InJS /\ os_poll_func
    /\ os_signal_handlers' = IF s \in Elems(os_signal_handlers) THEN os_signal_handlers
                             ELSE Append(os_signal_handlers, s)
    /\ UNCHANGED <<pc, running, jobVars, os_poll_func, timerVars, rwVars,
                   os_pending_signals, loaded, tvp, envVars>>

\* ... null and undefined remove it; a bit already pending stays.
js_os_signalNull(s) ==
    /\ InJS /\ os_poll_func
    /\ s \in Elems(os_signal_handlers)
    /\ os_signal_handlers' = Unlink(os_signal_handlers, s)
    /\ UNCHANGED <<pc, running, jobVars, os_poll_func, timerVars, rwVars,
                   os_pending_signals, loaded, tvp, envVars>>

\* The script, a job or a handler returns to the loop.  An exception of a
\* handler is dumped by call_handler and makes no difference to the loop.
JSReturns ==
    /\ InJS
    /\ pc' = "jobs"
    /\ running' = Nobody
    /\ UNCHANGED <<jobVars, os_poll_func, timerVars, rwVars, sigVars, loaded, tvp, envVars>>

\* The script throws: the host does not enter js_std_loop.
ScriptThrows ==
    /\ pc = "script"
    /\ pc' = "failed"
    /\ UNCHANGED <<running, jobVars, os_poll_func, timerVars, rwVars, sigVars, loaded,
                   tvp, envVars>>

\* A job returns an exception: js_std_loop dumps it and leaves the inner loop.
JobThrows ==
    /\ pc = "job"
    /\ pc' = "poll"
    /\ running' = Nobody
    /\ threw' = TRUE
    /\ UNCHANGED <<job_list, os_poll_func, timerVars, rwVars, sigVars, loaded, tvp, envVars>>

-----------------------------------------------------------------------------
(* js_std_loop and js_os_poll.                                              *)

\* JS_ExecutePendingJob with a job pending: unlink the first one and call it.
JS_ExecutePendingJob ==
    /\ pc = "jobs"
    /\ job_list # <<>>
    /\ job_list' = Tail(job_list)
    /\ running' = <<"job", Head(job_list)>>
    /\ pc' = "job"
    /\ UNCHANGED <<threw, os_poll_func, timerVars, rwVars, sigVars, loaded, tvp, envVars>>

\* Mutant: the inner loop may end with jobs pending.
JobsDoneEarly ==
    /\ pc = "jobs"
    /\ pc' = "poll"
    /\ UNCHANGED <<running, jobVars, os_poll_func, timerVars, rwVars, sigVars, loaded,
                   tvp, envVars>>

\* JS_ExecutePendingJob returned 0: the inner loop of js_std_loop ends.
JobsDone ==
    /\ pc = "jobs"
    /\ job_list = <<>>
    /\ pc' = "poll"
    /\ threw' = FALSE
    /\ UNCHANGED <<running, job_list, os_poll_func, timerVars, rwVars, sigVars, loaded,
                   tvp, envVars>>

\* js_std_loop without a poll function returns.
NoPollFunc ==
    /\ pc = "poll"
    /\ ~os_poll_func
    /\ pc' = "done"
    /\ UNCHANGED <<running, jobVars, os_poll_func, timerVars, rwVars, sigVars, loaded,
                   tvp, envVars>>

\* js_os_poll tests os_pending_signals.  It is neither volatile nor atomic, so
\* one load may serve this test, the scan and the update that follow.
LoadPendingSignals ==
    /\ pc = "poll"
    /\ os_poll_func
    /\ loaded' = os_pending_signals
    /\ pc' = "signals"
    /\ UNCHANGED <<running, jobVars, os_poll_func, timerVars, rwVars, sigVars, tvp, envVars>>

\* Mutant: every pending bit is cleared when one handler is called.
ClearsAllSignals(i) ==
    /\ pc = "signals"
    /\ loaded # {}
    /\ FirstIn(os_signal_handlers, i, loaded)
    /\ os_pending_signals' = {}
    /\ running' = <<"signal", os_signal_handlers[i]>>
    /\ pc' = "callback"
    /\ loaded' = {}
    /\ UNCHANGED <<jobVars, os_poll_func, timerVars, rwVars, os_signal_handlers, tvp, envVars>>

\* The first installed handler whose bit is set is called and its bit cleared.
\* The test sees the value loaded above or the variable as it is now, and the
\* bit is cleared in the value tested or in a newer one: a signal that arrives
\* after the value was loaded is overwritten by the store.
CallSignalHandler(i) ==
    /\ pc = "signals"
    /\ loaded # {}
    /\ \E seen \in {loaded, os_pending_signals} :
           /\ FirstIn(os_signal_handlers, i, seen)
           /\ \E base \in {seen, os_pending_signals} :
                  os_pending_signals' = base \ {os_signal_handlers[i]}
    /\ running' = <<"signal", os_signal_handlers[i]>>
    /\ pc' = "callback"
    /\ loaded' = {}
    /\ UNCHANGED <<jobVars, os_poll_func, timerVars, rwVars, os_signal_handlers, tvp, envVars>>

NoSignalHandler ==
    /\ pc = "signals"
    /\ Elems(os_signal_handlers) \cap loaded = {}
    /\ pc' = "events"
    /\ loaded' = {}
    /\ UNCHANGED <<running, jobVars, os_poll_func, timerVars, rwVars, sigVars, tvp, envVars>>

\* No handler and no timer is left: js_os_poll returns -1, js_std_loop returns.
NoMoreEvents ==
    /\ pc = "events"
    /\ os_rw_handlers = <<>> /\ os_timers = <<>>
    /\ pc' = "done"
    /\ UNCHANGED <<running, jobVars, os_poll_func, timerVars, rwVars, sigVars, loaded,
                   tvp, envVars>>

Expired == {t \in Timers : delay[t] = 0}

\* Mutant: the record is freed although its object is alive.
CallTimerFreesRecord(i) ==
    /\ pc = "events"
    /\ FirstIn(os_timers, i, Expired)
    /\ os_timers' = ListDel(os_timers, i)
    /\ has_func' = has_func \ {os_timers[i]}
    /\ allocated' = allocated \ {os_timers[i]}
    /\ running' = <<"timer", os_timers[i]>>
    /\ pc' = "callback"
    /\ UNCHANGED <<jobVars, os_poll_func, has_object, delay, rwVars, sigVars, loaded,
                   tvp, envVars>>

\* The first expired timer of the list is unlinked, freed unless its object is
\* alive, and its function called.
CallTimer(i) ==
    /\ pc = "events"
    /\ FirstIn(os_timers, i, Expired)
    /\ LET t == os_timers[i] IN
           /\ os_timers' = ListDel(os_timers, i)
           /\ has_func' = has_func \ {t}
           /\ allocated' = IF t \in has_object THEN allocated ELSE allocated \ {t}
           /\ running' = <<"timer", t>>
    /\ pc' = "callback"
    /\ UNCHANGED <<jobVars, os_poll_func, has_object, delay, rwVars, sigVars, loaded,
                   tvp, envVars>>

\* d is the smallest of the delays of the listed timers and of the cap.
IsMinDelay(d) ==
    LET delays == {delay[t] : t \in Elems(os_timers)} \cup {SelectCap}
    IN  d \in delays /\ \A e \in delays : d <= e

\* Mutant: select is called without a timeout.
SelectForever ==
    /\ pc = "events"
    /\ os_rw_handlers # <<>> \/ os_timers # <<>>
    /\ Elems(os_timers) \cap Expired = {}
    /\ tvp' = NoTimeout
    /\ pc' = "select"
    /\ UNCHANGED <<running, jobVars, os_poll_func, timerVars, rwVars, sigVars, loaded, envVars>>

\* No timer has expired: compute select's timeout and descriptor sets (the
\* sets are rfunc and wfunc themselves).
PrepareSelect ==
    /\ pc = "events"
    /\ os_rw_handlers # <<>> \/ os_timers # <<>>
    /\ Elems(os_timers) \cap Expired = {}
    /\ IF os_timers = <<>> THEN tvp' = NoTimeout
       ELSE tvp' \in {d \in 0..SelectCap : IsMinDelay(d)}
    /\ pc' = "select"
    /\ UNCHANGED <<running, jobVars, os_poll_func, timerVars, rwVars, sigVars, loaded, envVars>>

EnterSelect ==
    /\ pc = "select"
    /\ pc' = "blocked"
    /\ UNCHANGED <<running, jobVars, os_poll_func, timerVars, rwVars, sigVars, loaded,
                   tvp, envVars>>

ReadyToRead == rfunc \cap readable
ReadyToWrite == wfunc \cap writable

\* select returns 0: the loop goes round.
SelectTimesOut ==
    /\ pc = "blocked"
    /\ ReadyToRead = {} /\ ReadyToWrite = {}
    /\ tvp = 0
    /\ tvp' = NoTimeout
    /\ pc' = "jobs"
    /\ UNCHANGED <<running, jobVars, os_poll_func, timerVars, rwVars, sigVars, loaded, envVars>>

\* select returns with descriptors ready.  A read handler is called if its fd
\* is in the set returned; a write handler is called whatever the set holds,
\* because the code says FD_SET where it tests the read set with FD_ISSET.
CallRWHandler(i) ==
    /\ pc = "blocked"
    /\ ReadyToRead # {} \/ ReadyToWrite # {}
    /\ FirstIn(os_rw_handlers, i, ReadyToRead \cup wfunc)
    /\ LET fd == os_rw_handlers[i] IN
           running' = IF fd \in ReadyToRead THEN <<"read", fd>> ELSE <<"write", fd>>
    /\ tvp' = NoTimeout
    /\ pc' = "callback"
    /\ UNCHANGED <<jobVars, os_poll_func, timerVars, rwVars, sigVars, loaded, envVars>>

-----------------------------------------------------------------------------
(* After the loop, or after a script that threw, the host frees the         *)
(* handlers, the context and the runtime.                                   *)

js_std_free_handlers ==
    /\ pc \in {"done", "failed"}
    /\ os_rw_handlers' = <<>> /\ rfunc' = {} /\ wfunc' = {}
    /\ os_signal_handlers' = <<>>
    /\ os_timers' = <<>>
    /\ allocated' = allocated \ (Elems(os_timers) \ has_object)
    /\ has_func' = has_func \ (Elems(os_timers) \ has_object)
    /\ pc' = "torndown"
    /\ UNCHANGED <<running, jobVars, os_poll_func, has_object, delay, os_pending_signals,
                   loaded, tvp, envVars>>

\* JS_FreeRuntime drops the jobs left; every object has been finalized by then.
JS_FreeRuntime ==
    /\ pc = "torndown"
    /\ has_object = {}
    /\ job_list' = <<>>
    /\ pc' = "freed"
    /\ UNCHANGED <<threw, running, os_poll_func, timerVars, rwVars, sigVars, loaded, tvp, envVars>>

-----------------------------------------------------------------------------
(* The environment.                                                         *)

\* A signal whose disposition is os_signal_handler arrives.  In select it also
\* makes the call return -1 with EINTR, and js_os_poll returns 0.
os_signal_handler(s) ==
    /\ pc \notin {"done", "failed", "torndown", "freed"}
    /\ s \in Elems(os_signal_handlers)
    /\ os_pending_signals' = os_pending_signals \cup {s}
    /\ IF pc = "blocked" THEN pc' = "jobs" /\ tvp' = NoTimeout ELSE UNCHANGED <<pc, tvp>>
    /\ UNCHANGED <<running, jobVars, os_poll_func, timerVars, rwVars, os_signal_handlers,
                   loaded, envVars>>

\* A millisecond passes.
Tick ==
    /\ \/ \E t \in Elems(os_timers) : delay[t] > 0
       \/ pc = "blocked" /\ tvp \notin {0, NoTimeout}
    /\ delay' = [t \in Timers |-> IF delay[t] > 0 THEN delay[t] - 1 ELSE 0]
    /\ tvp' = IF pc = "blocked" /\ tvp \notin {0, NoTimeout} THEN tvp - 1 ELSE tvp
    /\ UNCHANGED <<pc, running, jobVars, os_poll_func, os_timers, allocated, has_object,
                   has_func, rwVars, sigVars, loaded, envVars>>

\* Descriptors become ready or are used up.  The loop looks at them nowhere but
\* in select, so a change that happens earlier is one at the start of the call.
Ready(R, W) ==
    /\ pc = "blocked"
    /\ readable' = R /\ writable' = W
    /\ UNCHANGED <<pc, running, jobVars, os_poll_func, timerVars, rwVars, sigVars, loaded, tvp>>

-----------------------------------------------------------------------------
API ==
    \/ js_os_init
    \/ \E j \in Jobs : JS_EnqueueJob(j)
    \/ \E t \in Timers, d \in Delays : js_os_setTimeout(t, d)
    \/ \E t \in Timers : js_os_clearTimeout(t)
    \/ \E t \in Timers : js_os_timer_finalizer(t)
    \/ \E fd \in FDs, magic \in {0, 1} : js_os_setReadHandler(fd, magic)
    \/ \E fd \in FDs, magic \in {0, 1} : js_os_setReadHandlerNull(fd, magic)
    \/ \E s \in Signals : js_os_signal(s)
    \/ \E s \in Signals : js_os_signalNull(s)

Loop ==
    \/ JS_ExecutePendingJob
    \/ JobsDone
    \/ NoPollFunc
    \/ LoadPendingSignals
    \/ \E i \in 1..Len(os_signal_handlers) : CallSignalHandler(i)
    \/ NoSignalHandler
    \/ NoMoreEvents
    \/ \E i \in 1..Len(os_timers) : CallTimer(i)
    \/ PrepareSelect
    \/ EnterSelect
    \/ SelectTimesOut
    \/ \E i \in 1..Len(os_rw_handlers) : CallRWHandler(i)

Host ==
    \/ ScriptThrows
    \/ js_std_free_handlers
    \/ JS_FreeRuntime

Environment ==
    \/ \E s \in Signals : os_signal_handler(s)
    \/ Tick
    \/ \E R, W \in SUBSET FDs : Ready(R, W)

Next == API \/ JSReturns \/ JobThrows \/ Loop \/ Host \/ Environment

Spec == Init /\ [][Next]_vars

\* The thread runs, JavaScript calls return, and time passes.
Fairness == WF_vars(Loop) /\ WF_vars(JSReturns) /\ WF_vars(Tick)

FairSpec == Spec /\ Fairness

-----------------------------------------------------------------------------
(* Properties.                                                              *)

\* Every variable holds a value of its C type.
TypeOK ==
    /\ pc \in Phases
    /\ running \in {Nobody} \cup ({"job"} \X Jobs) \cup ({"timer"} \X Timers)
                  \cup ({"read", "write"} \X FDs) \cup ({"signal"} \X Signals)
    /\ job_list \in Seq(Jobs)
    /\ threw \in BOOLEAN
    /\ os_poll_func \in BOOLEAN
    /\ os_timers \in Seq(Timers)
    /\ allocated \subseteq Timers
    /\ has_object \subseteq Timers
    /\ has_func \subseteq Timers
    /\ delay \in [Timers -> Delays]
    /\ os_rw_handlers \in Seq(FDs)
    /\ rfunc \subseteq FDs
    /\ wfunc \subseteq FDs
    /\ os_signal_handlers \in Seq(Signals)
    /\ os_pending_signals \subseteq Signals
    /\ loaded \subseteq Signals
    /\ tvp \in 0..NoTimeout
    /\ readable \subseteq FDs
    /\ writable \subseteq FDs

\* A JSOSTimer record is allocated exactly as long as the os_timers list or its
\* JavaScript object refers to it: it is never used after it is freed, never
\* freed twice and never leaked, whichever of the expiry, clearTimeout, the
\* finalizer and js_std_free_handlers comes first; a listed timer has its
\* function and is listed once.
TimerRecords ==
    /\ Elems(os_timers) \cup has_object = allocated
    /\ Elems(os_timers) \subseteq has_func
    /\ has_func \subseteq allocated
    /\ Distinct(os_timers)

\* os_rw_handlers has one entry for each fd with a handler and none without (so
\* js_os_poll sleeps only for a handler that exists), and os_signal_handlers
\* one entry per signal, although callbacks install and remove handlers while
\* they are being called.
HandlerLists ==
    /\ Elems(os_rw_handlers) = rfunc \cup wfunc
    /\ Distinct(os_rw_handlers)
    /\ Distinct(os_signal_handlers)

Polling == {"poll", "signals", "events", "select", "blocked", "done"}

\* When js_os_poll looks for an event, sleeps, or lets js_std_loop return, every
\* job enqueued so far has been executed, unless a job has thrown since the
\* inner loop of js_std_loop last found the queue empty.
JobsBeforeEvents ==
    pc \in Polling /\ ~threw => job_list = <<>>

Listed(t) == t \in Elems(os_timers)

\* If jobs do not keep the inner loop of js_std_loop busy for ever and signals
\* do not keep arriving, every timer that is set is called, cleared or (if the
\* script fails) freed, although js_os_poll calls one handler per turn and
\* callbacks may set new timers each time.
TimerFires ==
    ([]<>(pc \notin {"jobs", "job"}) /\ <>[](os_pending_signals = {})) =>
        \A t \in Timers : Listed(t) ~> (~Listed(t) \/ pc = "failed")

\* If no job throws, a job that is enqueued is executed, whatever other jobs
\* enqueue.
JobRuns ==
    []~threw => \A j \in Jobs :
        (j \in Elems(job_list)) ~>
            (running = <<"job", j>> \/ pc \in {"failed", "torndown", "freed"})

\* With no timer set, a descriptor that stays readable and whose read handler
\* stays installed at the head of os_rw_handlers has that handler called.
ReadHandlerCalled ==
    (/\ []<>(pc \notin {"jobs", "job"})
     /\ <>[](os_pending_signals = {} /\ os_timers = <<>>)) =>
        \A fd \in FDs :
            ~<>[](/\ os_rw_handlers # <<>> /\ Head(os_rw_handlers) = fd
                  /\ fd \in ReadyToRead
                  /\ running # <<"read", fd>>
                  /\ pc # "failed")

Installed(s) == s \in Elems(os_signal_handlers)

\* As long as the loop keeps turning and the handlers of other signals, which
\* may come first in the list, do not take every turn, no turn of js_os_poll
\* skips a pending signal for ever: its handler is called or removed, or its
\* bit is cleared.
SignalHandledIfLoopTurns ==
    \A s \in Signals :
        ([]<>(pc = "poll") /\ <>[](os_pending_signals \subseteq {s})) =>
            (s \in os_pending_signals /\ Installed(s)) ~>
                (running = <<"signal", s>> \/ ~Installed(s) \/ s \notin os_pending_signals)

\* js_os_poll clears the bit of no signal but the one whose handler it calls
\* and those that arrived after it loaded os_pending_signals: these are lost,
\* since the variable is read and written back without blocking signals.
OnlyRacingSignalsLost ==
    [][\A s \in os_pending_signals \ os_pending_signals' :
          \/ running' = <<"signal", s>>
          \/ pc = "signals" /\ s \notin loaded]_vars

-----------------------------------------------------------------------------
(* What comments and the manual say and the code does not do.               *)

\* "func is called each time data can be written to fd".
WriteHandlerWhenWritable ==
    [][\A fd \in FDs :
          (running' = <<"write", fd>> /\ running # running') => fd \in writable]_vars

\* "Call the function func when the signal happens": the loop does not sleep
\* on a signal that has arrived.
SignalHandled ==
    \A s \in Signals :
        (s \in os_pending_signals /\ Installed(s)) ~>
            (running = <<"signal", s>> \/ ~Installed(s) \/ pc \in {"done", "failed"})

\* Jobs are executed, and descriptors that stay readable have their handler
\* called.  As long as js_std_loop turns so have signals, except one that
\* arrives between the load of os_pending_signals and the store that clears the
\* bit of another signal (&= is no atomic operation).
EventsServed ==
    JobRuns /\ ReadHandlerCalled /\ SignalHandledIfLoopTurns /\ OnlyRacingSignalsLost
=============================================================================
