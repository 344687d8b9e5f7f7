------------------------------- MODULE Atomics -------------------------------
(***************************************************************************)
(* Atomics of quickjs.c.  Agents are threads with a runtime each that share   *)
(* memory; wait() and notify() share one mutex and one list of waiters.  The record   *)
(* of a waiter is a local variable of js_atomics_wait with a condition of its *)
(* own.  Stores do not take the mutex.                                        *)
(***************************************************************************)
EXTENDS Integers, Sequences, FiniteSets, SequencesExt

CONSTANTS Agents, Addrs, AtMaxOps,
          Spurious     \* whether pthread_cond_wait may return without a signal

ASSUME SpuriousAssumption == Spurious \in BOOLEAN

VARIABLES atMem,       \* address -> value
          atPc,        \* agent -> where it stands
          atReq,       \* agent -> its call [ptr, v, timed]
          atMutex,     \* owner of js_atomics_mutex
          atList,      \* js_atomics_waiter_list
          atLinked,    \* agent -> waiter->linked
          atSignal,    \* agents whose condition was signalled
          atOps,       \* calls made
          atPending    \* ghost: addresses stored to and not yet notified to all waiters
atVars == <<atMem, atPc, atReq, atMutex, atList, atLinked, atSignal, atOps, atPending>>

NoAgent == "none"
NoReq == [ptr |-> NoAgent, v |-> 0, timed |-> FALSE]

AtInit ==
  /\ atMem = [p \in Addrs |-> 0]
  /\ atPc = [a \in Agents |-> "idle"]
  /\ atReq = [a \in Agents |-> NoReq]
  /\ atMutex = NoAgent
  /\ atList = <<>>
  /\ atLinked = [a \in Agents |-> FALSE]
  /\ atSignal = {}
  /\ atOps = 0
  /\ atPending = {}

Goes(a, from, to) == atPc[a] = from /\ atPc' = [atPc EXCEPT ![a] = to]
CallMade == atOps < AtMaxOps /\ atOps' = atOps + 1

\* The arguments are converted before the mutex is taken.
CallWait(a) ==
  /\ Goes(a, "idle", "wait") /\ CallMade
  /\ \E p \in Addrs, v \in {0, 1}, timed \in BOOLEAN : atReq' = [atReq EXCEPT ![a] = [ptr |-> p, v |-> v, timed |-> timed]]
  /\ UNCHANGED <<atMem, atMutex, atList, atLinked, atSignal, atPending>>

WaitsUnlocked(a) ==
  /\ Goes(a, "wait", "locked")
  /\ UNCHANGED <<atMem, atReq, atMutex, atList, atLinked, atSignal, atOps, atPending>>

WaitLock(a) ==
  /\ Goes(a, "wait", "locked") /\ atMutex = NoAgent /\ atMutex' = a
  /\ UNCHANGED <<atMem, atReq, atList, atLinked, atSignal, atOps, atPending>>

WaitCheck(a) ==
  /\ atPc[a] = "locked"
  /\ IF atMem[atReq[a].ptr] # atReq[a].v
     THEN Goes(a, "locked", "idle") /\ atMutex' = NoAgent /\ atReq' = [atReq EXCEPT ![a] = NoReq]
     ELSE Goes(a, "locked", "equal") /\ UNCHANGED <<atMutex, atReq>>
  /\ UNCHANGED <<atMem, atList, atLinked, atSignal, atOps, atPending>>

\* pthread_cond_wait lets the mutex go.
WaitSleep(a) ==
  /\ Goes(a, "equal", "asleep") /\ atMutex' = NoAgent
  /\ atList' = Append(atList, a) /\ atLinked' = [atLinked EXCEPT ![a] = TRUE]
  /\ atSignal' = atSignal \ {a}
  /\ UNCHANGED <<atMem, atReq, atOps, atPending>>

\* A signal, the time running out or nothing at all ends the sleep; the
\* thread then needs the mutex again.
Wakes(a, to) ==
  /\ Goes(a, "asleep", to)
  /\ UNCHANGED <<atMem, atReq, atMutex, atList, atLinked, atSignal, atOps, atPending>>
CondSignalled(a) == a \in atSignal /\ Wakes(a, "awake")
CondTimeout(a) == atReq[a].timed /\ Wakes(a, "awake")
CondSpurious(a) == Spurious /\ a \notin atSignal /\ ~atReq[a].timed /\ Wakes(a, "awake")

WaitReturns(a) ==
  /\ Goes(a, "awake", "idle") /\ atMutex = NoAgent
  /\ atList' = IF atLinked[a] THEN SelectSeq(atList, LAMBDA x : x # a) ELSE atList
  /\ atLinked' = [atLinked EXCEPT ![a] = FALSE]
  /\ atReq' = [atReq EXCEPT ![a] = NoReq]
  /\ UNCHANGED <<atMem, atMutex, atSignal, atOps, atPending>>

js_atomics_store(a) ==
  /\ Goes(a, "idle", "idle") /\ CallMade
  /\ \E p \in Addrs, v \in {0, 1} : atMem' = [atMem EXCEPT ![p] = v] /\ atPending' = atPending \cup {p}
  /\ UNCHANGED <<atReq, atMutex, atList, atLinked, atSignal>>

\* The first count waiters on the address leave the list and are signalled,
\* all with the mutex held.
Waiters(p) == SelectSeq(atList, LAMBDA x : atReq[x].ptr = p)
Chosen(p, count) == ToSet(SubSeq(Waiters(p), 1, IF count < Len(Waiters(p)) THEN count ELSE Len(Waiters(p))))

SignalsTheFirst(a) ==
  /\ Goes(a, "idle", "idle") /\ CallMade /\ atMutex = NoAgent
  /\ \E p \in Addrs, count \in {1, Cardinality(Agents)} :
       LET N == Chosen(p, count)
       IN /\ atList' = SelectSeq(atList, LAMBDA x : x \notin N)
          /\ atLinked' = [x \in Agents |-> atLinked[x] /\ x \notin N]
          /\ atSignal' = atSignal \cup Chosen(p, 1)
          /\ atPending' = IF count = 1 THEN atPending ELSE atPending \ {p}
  /\ UNCHANGED <<atMem, atReq, atMutex>>

js_atomics_notify(a) ==
  /\ Goes(a, "idle", "idle") /\ CallMade /\ atMutex = NoAgent
  /\ \E p \in Addrs, count \in {1, Cardinality(Agents)} :
       LET N == Chosen(p, count)
       IN /\ atList' = SelectSeq(atList, LAMBDA x : x \notin N)
          /\ atLinked' = [x \in Agents |-> atLinked[x] /\ x \notin N]
          /\ atSignal' = atSignal \cup N
          /\ atPending' = IF count = 1 THEN atPending ELSE atPending \ {p}
  /\ UNCHANGED <<atMem, atReq, atMutex>>

AtStep(a) == WaitLock(a) \/ WaitCheck(a) \/ WaitSleep(a) \/ CondSignalled(a) \/ CondTimeout(a) \/ WaitReturns(a)
AtNext ==
  \E a \in Agents : CallWait(a) \/ AtStep(a) \/ CondSpurious(a) \/ js_atomics_store(a) \/ js_atomics_notify(a)

\* A thread that can go on does; time passes.
AtFairness == \A a \in Agents : WF_atVars(AtStep(a))
AtSpec == AtInit /\ [][AtNext]_atVars /\ AtFairness

-----------------------------------------------------------------------------

\* The list holds the waiters that are linked, each once, and each of them is
\* an agent still inside js_atomics_wait, whose local variable the record is;
\* one that was unlinked was signalled, so it cannot sleep on unseen.
WaitersSound ==
  /\ ToSet(atList) = {a \in Agents : atLinked[a]}
  /\ Len(atList) = Cardinality(ToSet(atList))
  /\ \A a \in Agents : /\ atLinked[a] => atPc[a] \in {"asleep", "awake"}
                       /\ atPc[a] = "asleep" => atLinked[a] \/ a \in atSignal
  /\ atMutex # NoAgent => atPc[atMutex] \in {"locked", "equal"}

\* No wake-up is lost: an agent that sleeps although the value it waits on has
\* changed is one for which the notify that must follow the store is still to
\* come.  Stores do not take the mutex, so one may fall anywhere in wait().
NoLostWakeup ==
  \A a \in Agents :
    (atLinked[a] /\ atMem[atReq[a].ptr] # atReq[a].v) => atReq[a].ptr \in atPending

\* Again and again no agent is asleep that notify() took off the list or that
\* has a timeout: each of them comes back from wait().
WaitersReturn ==
  []<>(\A a \in Agents : atPc[a] = "asleep" => atLinked[a] /\ ~atReq[a].timed)

\* js_atomics_wait and js_atomics_notify agree on who waits, and no change of the
\* value goes unnoticed.
AtSound == WaitersSound /\ NoLostWakeup
=============================================================================
