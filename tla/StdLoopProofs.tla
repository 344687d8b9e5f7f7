--------------------------- MODULE StdLoopProofs ----------------------------
(***************************************************************************)
(* Proofs about StdLoop for every set of jobs, timers, descriptors and     *)
(* signals and every bound on delays: the type invariant, the lifetime of  *)
(* JSOSTimer records and the shape of the handler lists.                   *)
(***************************************************************************)
EXTENDS StdLoop, TLAPS

-----------------------------------------------------------------------------
(* What list_del and list_add_tail do to the records of a list.            *)

\* list_del keeps the other elements: a list with one element fewer.
LEMMA ListDelType ==
    ASSUME NEW S, NEW list \in Seq(S), NEW i \in 1..Len(list)
    PROVE  /\ ListDel(list, i) \in Seq(S)
           /\ Len(ListDel(list, i)) = Len(list) - 1
<1>1. Len(list) - 1 \in Nat
    OBVIOUS
<1>2. \A j \in 1..(Len(list) - 1) : (IF j < i THEN list[j] ELSE list[j + 1]) \in S
    OBVIOUS
<1>3. ListDel(list, i) \in [1..(Len(list) - 1) -> S]
    BY <1>2 DEF ListDel
<1>4. ListDel(list, i) \in Seq(S)
    BY <1>1, <1>3
<1>5. DOMAIN ListDel(list, i) = 1..(Len(list) - 1)
    BY DEF ListDel
<1> QED
    BY <1>1, <1>4, <1>5

\* Deleting the i-th of distinct elements removes that element and no other.
LEMMA ListDelElems ==
    ASSUME NEW S, NEW list \in Seq(S), NEW i \in 1..Len(list), Distinct(list)
    PROVE  /\ Elems(ListDel(list, i)) = Elems(list) \ {list[i]}
           /\ Distinct(ListDel(list, i))
<1> DEFINE del == ListDel(list, i)
<1>1. Len(del) = Len(list) - 1 /\ Len(list) \in Nat
    BY ListDelType
<1>2. \A j \in 1..Len(del) : del[j] = IF j < i THEN list[j] ELSE list[j + 1]
    BY <1>1 DEF ListDel
<1> HIDE DEF del
<1>3. \A x \in Elems(del) : x \in Elems(list) \ {list[i]}
    BY <1>1, <1>2 DEF Elems, Distinct
<1>4. ASSUME NEW x \in Elems(list), x # list[i]
      PROVE  x \in Elems(del)
    <2>1. PICK k \in 1..Len(list) : x = list[k]
        BY DEF Elems
    <2>2. CASE k < i
        <3>1. k \in 1..Len(del) /\ del[k] = x
            BY <1>1, <1>2, <2>1, <2>2
        <3> QED
            BY <3>1 DEF Elems
    <2>3. CASE k > i
        <3>1. k - 1 \in 1..Len(del) /\ del[k - 1] = x
            BY <1>1, <1>2, <2>1, <2>3
        <3> QED
            BY <3>1 DEF Elems
    <2> QED
        BY <1>4, <2>1, <2>2, <2>3
<1>5. ASSUME NEW a \in 1..Len(del), NEW b \in 1..Len(del), del[a] = del[b]
      PROVE  a = b
    <2> DEFINE at(j) == IF j < i THEN j ELSE j + 1
    <2>1. /\ at(a) \in 1..Len(list) /\ del[a] = list[at(a)]
          /\ at(b) \in 1..Len(list) /\ del[b] = list[at(b)]
        BY <1>1, <1>2
    <2>2. at(a) = at(b)
        BY ZenonT(40), <1>5, <2>1 DEF Distinct
    <2> QED
        BY <1>1, <2>2
<1>6. Distinct(del)
    BY <1>5 DEF Distinct
<1> QED
    BY <1>3, <1>4, <1>6 DEF del

\* Unlinking x from a list of distinct elements removes x, if it is there, and
\* nothing else.
LEMMA UnlinkElems ==
    ASSUME NEW S, NEW list \in Seq(S), NEW x, Distinct(list)
    PROVE  /\ Unlink(list, x) \in Seq(S)
           /\ Elems(Unlink(list, x)) = Elems(list) \ {x}
           /\ Distinct(Unlink(list, x))
<1>1. CASE \E i \in 1..Len(list) : list[i] = x
    <2> DEFINE k == CHOOSE i \in 1..Len(list) : list[i] = x
    <2>1. k \in 1..Len(list) /\ list[k] = x
        BY <1>1
    <2>2. Unlink(list, x) = ListDel(list, k)
        BY <1>1 DEF Unlink
    <2> HIDE DEF k
    <2> QED
        BY <2>1, <2>2, ListDelType, ListDelElems
<1>2. CASE ~\E i \in 1..Len(list) : list[i] = x
    BY <1>2 DEF Unlink, Elems
<1> QED
    BY <1>1, <1>2

\* list_add_tail adds one element, and keeps elements distinct if it is new.
LEMMA AppendElems ==
    ASSUME NEW S, NEW list \in Seq(S), NEW x \in S
    PROVE  /\ Append(list, x) \in Seq(S)
           /\ Elems(Append(list, x)) = Elems(list) \cup {x}
           /\ Distinct(list) /\ x \notin Elems(list) => Distinct(Append(list, x))
<1> DEFINE app == Append(list, x)
<1>1. /\ Len(app) = Len(list) + 1 /\ Len(list) \in Nat
      /\ app \in Seq(S)
      /\ \A j \in 1..Len(list) : app[j] = list[j]
      /\ app[Len(list) + 1] = x
    OBVIOUS
<1> HIDE DEF app
<1>2. Elems(app) = Elems(list) \cup {x}
    <2>1. ASSUME NEW y \in Elems(app)
          PROVE  y \in Elems(list) \cup {x}
        BY <1>1, <2>1 DEF Elems
    <2>2. ASSUME NEW y \in Elems(list) \cup {x}
          PROVE  y \in Elems(app)
        <3>1. CASE y = x
            BY <1>1, <3>1 DEF Elems
        <3>2. CASE y \in Elems(list)
            <4>1. PICK k \in 1..Len(list) : y = list[k]
                BY <3>2 DEF Elems
            <4>2. k \in 1..Len(app) /\ app[k] = y
                BY <1>1, <4>1
            <4> QED
                BY <4>2 DEF Elems
        <3> QED
            BY <2>2, <3>1, <3>2
    <2> QED
        BY <2>1, <2>2
<1>3. ASSUME Distinct(list), x \notin Elems(list)
      PROVE  Distinct(app)
    BY <1>1, <1>3 DEF Distinct, Elems
<1> QED
    BY <1>1, <1>2, <1>3 DEF app

\* An element of a list is one of the values the list ranges over.
LEMMA ElemsType ==
    ASSUME NEW S, NEW list \in Seq(S)
    PROVE  Elems(list) \subseteq S
BY DEF Elems

\* The empty list has no elements.
LEMMA EmptyElems ==
    /\ Elems(<<>>) = {}
    /\ Distinct(<<>>)
BY DEF Elems, Distinct

-----------------------------------------------------------------------------
(* The invariant.  TypeOK and the two others need each other: unlinking is  *)
(* right only in a list of distinct elements.                               *)

Inv == TypeOK /\ TimerRecords /\ HandlerLists

USE DelayAssumption, CapAssumption

\* The state js_std_add_helpers leaves satisfies the invariant.
LEMMA InitInv == Init => Inv
<1> SUFFICES ASSUME Init PROVE Inv
    OBVIOUS
<1>1. pc \in Phases /\ tvp \in 0..NoTimeout /\ delay \in [Timers -> Delays]
    BY DEF Init, Phases, JSPhases, NoTimeout, Delays
<1>2. os_poll_func \in BOOLEAN /\ threw \in BOOLEAN
    BY Zenon DEF Init
<1>3. TypeOK
    BY <1>1, <1>2 DEF Init, TypeOK
<1>4. TimerRecords /\ HandlerLists
    BY EmptyElems DEF Init, TimerRecords, HandlerLists
<1> QED
    BY <1>3, <1>4 DEF Inv

\* Steps that touch no list and no timer record keep both list invariants.
LEMMA ListsKept ==
    ASSUME Inv, UNCHANGED <<timerVars, rwVars, os_signal_handlers>>
    PROVE  TimerRecords' /\ HandlerLists'
BY DEF Inv, TimerRecords, HandlerLists, timerVars, rwVars, Elems, Distinct

\* Timers: creation, cancellation, finalization.
LEMMA TimerStepsInv ==
    ASSUME Inv, NEW t \in Timers
    PROVE  /\ \A d \in Delays : js_os_setTimeout(t, d) => Inv'
           /\ js_os_clearTimeout(t) => Inv'
           /\ js_os_timer_finalizer(t) => Inv'
<1> USE DEF Inv
<1>1. ASSUME NEW d \in Delays, js_os_setTimeout(t, d)
      PROVE  Inv'
    <2>1. /\ os_timers' \in Seq(Timers)
          /\ Elems(os_timers') = Elems(os_timers) \cup {t}
          /\ Distinct(os_timers')
        BY <1>1, AppendElems DEF js_os_setTimeout, TypeOK, TimerRecords
    <2>2. TypeOK'
        BY <1>1, <2>1 DEF js_os_setTimeout, TypeOK, jobVars, rwVars, sigVars, envVars
    <2>3. TimerRecords'
        BY <1>1, <2>1 DEF js_os_setTimeout, TimerRecords
    <2>4. HandlerLists'
        BY <1>1 DEF js_os_setTimeout, HandlerLists, rwVars, sigVars, Elems, Distinct
    <2> QED
        BY <2>2, <2>3, <2>4
<1>2. ASSUME js_os_clearTimeout(t)
      PROVE  Inv'
    <2>1. /\ os_timers' \in Seq(Timers)
          /\ Elems(os_timers') = Elems(os_timers) \ {t}
          /\ Distinct(os_timers')
        BY <1>2, UnlinkElems DEF js_os_clearTimeout, TypeOK, TimerRecords
    <2>2. TypeOK'
        BY <1>2, <2>1 DEF js_os_clearTimeout, TypeOK, jobVars, rwVars, sigVars, envVars
    <2>3. TimerRecords'
        BY <1>2, <2>1 DEF js_os_clearTimeout, TimerRecords
    <2>4. HandlerLists'
        BY <1>2 DEF js_os_clearTimeout, HandlerLists, rwVars, sigVars, Elems, Distinct
    <2> QED
        BY <2>2, <2>3, <2>4
<1>3. ASSUME js_os_timer_finalizer(t)
      PROVE  Inv'
    <2>1. TypeOK'
        BY <1>3 DEF js_os_timer_finalizer, TypeOK, jobVars, rwVars, sigVars, envVars
    <2>2. Elems(os_timers') = Elems(os_timers) /\ Distinct(os_timers')
        BY <1>3 DEF js_os_timer_finalizer, TimerRecords, Elems, Distinct
    <2>3. TimerRecords'
        BY <1>3, <2>2 DEF js_os_timer_finalizer, TimerRecords
    <2>4. HandlerLists'
        BY <1>3 DEF js_os_timer_finalizer, HandlerLists, rwVars, sigVars, Elems, Distinct
    <2> QED
        BY <2>1, <2>3, <2>4
<1> QED
    BY <1>1, <1>2, <1>3

\* Handlers: installation and removal for descriptors and signals.
LEMMA HandlerStepsInv ==
    ASSUME Inv
    PROVE  /\ \A fd \in FDs, magic \in {0, 1} : js_os_setReadHandler(fd, magic) => Inv'
           /\ \A fd \in FDs, magic \in {0, 1} : js_os_setReadHandlerNull(fd, magic) => Inv'
           /\ \A s \in Signals : js_os_signal(s) => Inv'
           /\ \A s \in Signals : js_os_signalNull(s) => Inv'
<1> USE DEF Inv
<1>1. ASSUME NEW fd \in FDs, NEW magic \in {0, 1}, js_os_setReadHandler(fd, magic)
      PROVE  Inv'
    <2>1. /\ os_rw_handlers' \in Seq(FDs)
          /\ Elems(os_rw_handlers') = Elems(os_rw_handlers) \cup {fd}
          /\ Distinct(os_rw_handlers')
        BY <1>1, AppendElems DEF js_os_setReadHandler, TypeOK, HandlerLists
    <2>2. TypeOK'
        BY <1>1, <2>1 DEF js_os_setReadHandler, TypeOK, jobVars, timerVars, sigVars, envVars
    <2>3. HandlerLists'
        BY <1>1, <2>1 DEF js_os_setReadHandler, HandlerLists, sigVars, Distinct
    <2>4. TimerRecords'
        BY <1>1 DEF js_os_setReadHandler, TimerRecords, timerVars, Elems, Distinct
    <2> QED
        BY <2>2, <2>3, <2>4
<1>2. ASSUME NEW fd \in FDs, NEW magic \in {0, 1}, js_os_setReadHandlerNull(fd, magic)
      PROVE  Inv'
    <2>1. /\ os_rw_handlers' \in Seq(FDs)
          /\ Elems(os_rw_handlers') = IF fd \notin rfunc' \cup wfunc'
                                      THEN Elems(os_rw_handlers) \ {fd}
                                      ELSE Elems(os_rw_handlers)
          /\ Distinct(os_rw_handlers')
        BY ZenonT(40), <1>2, UnlinkElems DEF js_os_setReadHandlerNull, TypeOK, HandlerLists
    <2>2. TypeOK'
        BY <1>2, <2>1 DEF js_os_setReadHandlerNull, TypeOK, jobVars, timerVars, sigVars, envVars
    <2>3. Elems(os_rw_handlers') = rfunc' \cup wfunc'
        BY <1>2, <2>1 DEF js_os_setReadHandlerNull, HandlerLists
    <2>4. HandlerLists'
        BY <1>2, <2>1, <2>3 DEF js_os_setReadHandlerNull, HandlerLists, sigVars, Distinct
    <2>5. TimerRecords'
        BY <1>2 DEF js_os_setReadHandlerNull, TimerRecords, timerVars, Elems, Distinct
    <2> QED
        BY <2>2, <2>4, <2>5
<1>3. ASSUME NEW s \in Signals, js_os_signal(s) \/ js_os_signalNull(s)
      PROVE  Inv'
    <2>1. os_signal_handlers' \in Seq(Signals) /\ Distinct(os_signal_handlers')
        <3>1. os_signal_handlers \in Seq(Signals) /\ Distinct(os_signal_handlers)
            BY DEF TypeOK, HandlerLists
        <3>2. CASE js_os_signal(s)
            BY <3>1, <3>2, AppendElems DEF js_os_signal
        <3>3. CASE js_os_signalNull(s)
            BY <3>1, <3>3, UnlinkElems DEF js_os_signalNull
        <3> QED
            BY <1>3, <3>2, <3>3
    <2>2. TypeOK'
        BY SMTT(30), <1>3, <2>1 DEF js_os_signal, js_os_signalNull, TypeOK, jobVars, timerVars, rwVars,
                          envVars
    <2>3. HandlerLists'
        BY SMTT(30), <1>3, <2>1 DEF js_os_signal, js_os_signalNull, HandlerLists, rwVars, Elems, Distinct
    <2>4. TimerRecords'
        BY <1>3 DEF js_os_signal, js_os_signalNull, TimerRecords, timerVars, Elems, Distinct
    <2> QED
        BY <2>2, <2>3, <2>4
<1> QED
    BY <1>1, <1>2, <1>3

\* The loop and its environment: most steps move the program counter only.
LEMMA LoopStepsInv ==
    ASSUME Inv, Loop
    PROVE  Inv'
<1> USE DEF Inv, jobVars, timerVars, rwVars, sigVars, envVars, Phases, JSPhases
<1>1. CASE JS_ExecutePendingJob
    <2>1. job_list' \in Seq(Jobs) /\ Head(job_list) \in Jobs
        BY <1>1 DEF JS_ExecutePendingJob, TypeOK
    <2>2. TypeOK'
        BY <1>1, <2>1 DEF JS_ExecutePendingJob, TypeOK
    <2> QED
        BY <1>1, <2>2, ListsKept DEF JS_ExecutePendingJob
<1>2. CASE JobsDone \/ NoPollFunc \/ NoMoreEvents \/ EnterSelect
    <2>0. threw' \in BOOLEAN
        BY <1>2, Zenon DEF JobsDone, NoPollFunc, NoMoreEvents, EnterSelect, TypeOK
    <2>1. TypeOK'
        BY <1>2, <2>0 DEF JobsDone, NoPollFunc, NoMoreEvents, EnterSelect, TypeOK
    <2> QED
        BY <1>2, <2>1, ListsKept DEF JobsDone, NoPollFunc, NoMoreEvents, EnterSelect
<1>3. CASE LoadPendingSignals \/ NoSignalHandler
    <2>1. TypeOK'
        BY <1>3 DEF LoadPendingSignals, NoSignalHandler, TypeOK
    <2> QED
        BY <1>3, <2>1, ListsKept DEF LoadPendingSignals, NoSignalHandler
<1>4. CASE \E i \in 1..Len(os_signal_handlers) : CallSignalHandler(i)
    <2>1. PICK i \in 1..Len(os_signal_handlers) : CallSignalHandler(i)
        BY <1>4
    <2>2. os_signal_handlers[i] \in Signals
        BY DEF TypeOK
    <2>3. TypeOK'
        BY <2>1, <2>2 DEF CallSignalHandler, TypeOK
    <2> QED
        BY <2>1, <2>3, ListsKept DEF CallSignalHandler
<1>5. CASE \E i \in 1..Len(os_timers) : CallTimer(i)
    <2>1. PICK i \in 1..Len(os_timers) : CallTimer(i)
        BY <1>5
    <2>2. os_timers[i] \in Timers /\ os_timers[i] \in Elems(os_timers)
        BY DEF TypeOK, Elems
    <2>3. /\ os_timers' \in Seq(Timers)
          /\ Elems(os_timers') = Elems(os_timers) \ {os_timers[i]}
          /\ Distinct(os_timers')
        BY ZenonT(40), <2>1, ListDelType, ListDelElems DEF CallTimer, TypeOK, TimerRecords
    <2>4. TypeOK'
        BY <2>1, <2>2, <2>3 DEF CallTimer, TypeOK
    <2>5. TimerRecords'
        BY <2>1, <2>2, <2>3 DEF CallTimer, TimerRecords
    <2>6. HandlerLists'
        BY <2>1 DEF CallTimer, HandlerLists, Elems, Distinct
    <2> QED
        BY <2>4, <2>5, <2>6
<1>6. CASE PrepareSelect
    <2>1. TypeOK'
        BY <1>6 DEF PrepareSelect, TypeOK, NoTimeout
    <2> QED
        BY <1>6, <2>1, ListsKept DEF PrepareSelect
<1>7. CASE SelectTimesOut
    <2>1. TypeOK'
        BY <1>7 DEF SelectTimesOut, TypeOK, NoTimeout
    <2> QED
        BY <1>7, <2>1, ListsKept DEF SelectTimesOut
<1>8. CASE \E i \in 1..Len(os_rw_handlers) : CallRWHandler(i)
    <2>1. PICK i \in 1..Len(os_rw_handlers) : CallRWHandler(i)
        BY <1>8
    <2>2. os_rw_handlers[i] \in FDs
        BY DEF TypeOK
    <2>3. TypeOK'
        BY <2>1, <2>2 DEF CallRWHandler, TypeOK, NoTimeout
    <2> QED
        BY <2>1, <2>3, ListsKept DEF CallRWHandler
<1> QED
    BY <1>1, <1>2, <1>3, <1>4, <1>5, <1>6, <1>7, <1>8 DEF Loop

\* Leaving the loop, and what interrupts it.
LEMMA HostStepsInv ==
    ASSUME Inv, Host
    PROVE  Inv'
<1> USE DEF Inv, jobVars, timerVars, rwVars, sigVars, envVars, Phases, JSPhases
<1>1. CASE ScriptThrows
    <2>1. TypeOK'
        BY <1>1 DEF ScriptThrows, TypeOK
    <2> QED
        BY <1>1, <2>1, ListsKept DEF ScriptThrows
<1>2. CASE js_std_free_handlers
    <2>1. TypeOK'
        BY <1>2 DEF js_std_free_handlers, TypeOK
    <2>2. TimerRecords'
        BY <1>2, EmptyElems DEF js_std_free_handlers, TimerRecords
    <2>3. HandlerLists'
        BY <1>2, EmptyElems DEF js_std_free_handlers, HandlerLists
    <2> QED
        BY <2>1, <2>2, <2>3
<1>3. CASE JS_FreeRuntime
    <2>1. TypeOK'
        BY <1>3 DEF JS_FreeRuntime, TypeOK
    <2> QED
        BY <1>3, <2>1, ListsKept DEF JS_FreeRuntime
<1> QED
    BY <1>1, <1>2, <1>3 DEF Host

\* Signals, the clock and the descriptors.
LEMMA EnvironmentStepsInv ==
    ASSUME Inv, Environment
    PROVE  Inv'
<1> USE DEF Inv, jobVars, timerVars, rwVars, sigVars, envVars, Phases, JSPhases
<1>1. ASSUME NEW s \in Signals, os_signal_handler(s)
      PROVE  Inv'
    <2>1. TypeOK'
        BY <1>1 DEF os_signal_handler, TypeOK, NoTimeout
    <2> QED
        BY <1>1, <2>1, ListsKept DEF os_signal_handler
<1>2. CASE Tick
    <2>1. delay' \in [Timers -> Delays]
        BY <1>2 DEF Tick, TypeOK, Delays
    <2>2. tvp' \in 0..NoTimeout
        <3>1. NoTimeout \in Nat /\ tvp \in 0..NoTimeout
            BY DelayAssumption, CapAssumption DEF TypeOK, NoTimeout
        <3>2. tvp' = tvp \/ (tvp # 0 /\ tvp' = tvp - 1)
            BY <1>2 DEF Tick
        <3> QED
            BY <3>1, <3>2
    <2>3. TypeOK'
        BY <1>2, <2>1, <2>2 DEF Tick, TypeOK
    <2>4. TimerRecords' /\ HandlerLists'
        BY <1>2 DEF Tick, TimerRecords, HandlerLists, Elems, Distinct
    <2> QED
        BY <2>3, <2>4
<1>3. ASSUME NEW R \in SUBSET FDs, NEW W \in SUBSET FDs, Ready(R, W)
      PROVE  Inv'
    <2>1. TypeOK'
        BY <1>3 DEF Ready, TypeOK
    <2> QED
        BY <1>3, <2>1, ListsKept DEF Ready
<1> QED
    BY <1>1, <1>2, <1>3 DEF Environment

\* Every step keeps the invariant.
LEMMA NextInv == Inv /\ [Next]_vars => Inv'
<1> SUFFICES ASSUME Inv, [Next]_vars PROVE Inv'
    OBVIOUS
<1> USE DEF jobVars, timerVars, rwVars, sigVars, envVars
<1>1. CASE API
    <2>1. CASE js_os_init
        <3>1. os_poll_func' \in BOOLEAN
            BY <2>1, Zenon DEF js_os_init
        <3>2. TypeOK'
            BY <2>1, <3>1 DEF js_os_init, Inv, TypeOK
        <3> QED
            BY <2>1, <3>2, ListsKept DEF js_os_init, Inv
    <2>2. ASSUME NEW j \in Jobs, JS_EnqueueJob(j)
          PROVE  Inv'
        <3>1. TypeOK'
            BY <2>2 DEF JS_EnqueueJob, Inv, TypeOK
        <3> QED
            BY <2>2, <3>1, ListsKept DEF JS_EnqueueJob, Inv
    <2> QED
        BY <1>1, <2>1, <2>2, TimerStepsInv, HandlerStepsInv DEF API
<1>2. CASE JSReturns \/ JobThrows
    <2>0. threw' \in BOOLEAN
        BY <1>2, Zenon DEF JSReturns, JobThrows, Inv, TypeOK
    <2>1. TypeOK'
        BY <1>2, <2>0 DEF JSReturns, JobThrows, Inv, TypeOK, Phases
    <2> QED
        BY <1>2, <2>1, ListsKept DEF JSReturns, JobThrows, Inv
<1>3. CASE Loop
    BY <1>3, LoopStepsInv
<1>4. CASE Host
    BY <1>4, HostStepsInv
<1>5. CASE Environment
    BY <1>5, EnvironmentStepsInv
<1>6. CASE UNCHANGED vars
    <2>1. TypeOK'
        BY <1>6 DEF vars, Inv, TypeOK
    <2> QED
        BY <1>6, <2>1, ListsKept DEF vars, Inv
<1> QED
    BY <1>1, <1>2, <1>3, <1>4, <1>5, <1>6 DEF Next

\* The job queue is filled by JavaScript code only, and the loop leaves the
\* phases in which that runs through JobsDone or JobThrows.
LEMMA NextJobs == JobsBeforeEvents /\ [Next]_vars => JobsBeforeEvents'
<1> SUFFICES ASSUME JobsBeforeEvents, [Next]_vars PROVE JobsBeforeEvents'
    OBVIOUS
<1> USE DEF JobsBeforeEvents, Polling, jobVars, InJS, JSPhases
<1>1. CASE API
    BY <1>1 DEF API, js_os_init, JS_EnqueueJob, js_os_setTimeout, js_os_clearTimeout,
                js_os_timer_finalizer, js_os_setReadHandler, js_os_setReadHandlerNull,
                js_os_signal, js_os_signalNull
<1>2. CASE JSReturns \/ JobThrows
    BY <1>2 DEF JSReturns, JobThrows
<1>3. CASE Loop
    <2>1. CASE JS_ExecutePendingJob \/ JobsDone \/ NoPollFunc \/ LoadPendingSignals
        BY <2>1 DEF JS_ExecutePendingJob, JobsDone, NoPollFunc, LoadPendingSignals
    <2>2. ASSUME NEW i, CallSignalHandler(i) \/ CallTimer(i) \/ CallRWHandler(i)
          PROVE  JobsBeforeEvents'
        BY <2>2 DEF CallSignalHandler, CallTimer, CallRWHandler
    <2>3. CASE NoSignalHandler \/ NoMoreEvents \/ PrepareSelect \/ EnterSelect \/ SelectTimesOut
        BY <2>3 DEF NoSignalHandler, NoMoreEvents, PrepareSelect, EnterSelect, SelectTimesOut
    <2> QED
        BY <1>3, <2>1, <2>2, <2>3 DEF Loop
<1>4. CASE Host
    BY <1>4 DEF Host, ScriptThrows, js_std_free_handlers, JS_FreeRuntime
<1>5. CASE Environment
    BY <1>5 DEF Environment, os_signal_handler, Tick, Ready
<1>6. CASE UNCHANGED vars
    BY <1>6 DEF vars
<1> QED
    BY <1>1, <1>2, <1>3, <1>4, <1>5, <1>6 DEF Next

-----------------------------------------------------------------------------
\* The variables of the event loop keep their types.
THEOREM TypeCorrect == Spec => []TypeOK
<1>1. Inv => TypeOK
    BY DEF Inv
<1> QED
    BY <1>1, InitInv, NextInv, PTL DEF Spec

\* A JSOSTimer record is freed exactly when neither os_timers nor a JavaScript
\* object refers to it, in every order of expiry, clearTimeout, finalization
\* and js_std_free_handlers.
THEOREM TimerRecordsSafe == Spec => []TimerRecords
<1>1. Inv => TimerRecords
    BY DEF Inv
<1> QED
    BY <1>1, InitInv, NextInv, PTL DEF Spec

\* The handler lists have one entry per descriptor or signal with a handler.
THEOREM HandlerListsExact == Spec => []HandlerLists
<1>1. Inv => HandlerLists
    BY DEF Inv
<1> QED
    BY <1>1, InitInv, NextInv, PTL DEF Spec

\* js_std_loop polls, sleeps and returns only with the job queue empty, unless a
\* job has thrown since it last was.
THEOREM JobsComeFirst == Spec => []JobsBeforeEvents
<1>1. Init => JobsBeforeEvents
    BY DEF Init, JobsBeforeEvents, Polling
<1> QED
    BY <1>1, NextJobs, PTL DEF Spec
=============================================================================
