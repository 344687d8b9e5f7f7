----------------------------- MODULE PromiseAll -----------------------------
(***************************************************************************)
(* One call of Promise.all, Promise.allSettled or Promise.race on an       *)
(* iterable, and the functions it hands to the `then' of each item.  The   *)
(* capability is the one of Promise itself: its resolving functions do not *)
(* throw.  An item is a promise of the engine, which calls one of the two  *)
(* functions, once, from a job; or a foreign thenable, which may call      *)
(* either, any number of times, and already while `then' runs.             *)
(***************************************************************************)
EXTENDS Integers, FiniteSets

CONSTANT MaxItems       \* bound: items of the iterable

ASSUME PaAssumption == MaxItems \in Nat

VARIABLES
    paKind,     \* "all", "allSettled", "race"
    paRun,      \* "none", "next" (head of the loop), "then" (in the item's then), "returned"
    paItems,    \* item index -> "native", "called" (native, job done) or "foreign"
    paCount,    \* remainingElementsCount
    paValues,   \* indices of values[] that are set
    paCalled,   \* element functions whose alreadyCalled flag is set: <<index, is_reject>>
    paResult,   \* first call of the capability: "pending", "resolved", "rejected"
    paWith,     \* ghost: the indices that were set when it was resolved
    paTwice     \* ghost: an item called both its functions

paVars == <<paKind, paRun, paItems, paCount, paValues, paCalled, paResult, paWith, paTwice>>

PaInit ==
    /\ paKind \in {"all", "allSettled", "race"}
    /\ paRun = "none" /\ paItems = <<>> /\ paCount = 0
    /\ paValues = {} /\ paCalled = {} /\ paResult = "pending" /\ paWith = {} /\ paTwice = FALSE

PaSettle(how, with) ==
    IF paResult = "pending" THEN paResult' = how /\ paWith' = with
    ELSE UNCHANGED <<paResult, paWith>>

\* js_promise_all and js_promise_race up to the loop: the count starts at one.
\* fail_reject: no iterator, no next, no callable resolve.
js_promise_all ==
    /\ paRun = "none"
    /\ \/ /\ paRun' = "next"
          /\ paCount' = IF paKind = "race" THEN 0 ELSE 1
          /\ UNCHANGED <<paResult, paWith>>
       \/ paRun' = "returned" /\ PaSettle("rejected", {}) /\ UNCHANGED paCount
    /\ UNCHANGED <<paKind, paItems, paValues, paCalled, paTwice>>

\* The next item: promise_resolve, the element functions, the count, and the call
\* of `then' begins.
PaItem(sort) ==
    /\ paRun = "next" /\ Cardinality(DOMAIN paItems) < MaxItems
    /\ paItems' = [i \in 1..(Cardinality(DOMAIN paItems) + 1) |->
                      IF i \in DOMAIN paItems THEN paItems[i] ELSE sort]
    /\ paCount' = IF paKind = "race" THEN paCount ELSE paCount + 1
    /\ paRun' = "then"
    /\ UNCHANGED <<paKind, paValues, paCalled, paResult, paWith, paTwice>>

PaThenReturns ==
    /\ paRun = "then"
    /\ paRun' = "next"
    /\ UNCHANGED <<paKind, paItems, paCount, paValues, paCalled, paResult, paWith, paTwice>>

\* next, promise_resolve or `then' throws: the iterator is closed where it should
\* be and the result rejected.
PaFails ==
    /\ paRun \in {"next", "then"}
    /\ paRun' = "returned"
    /\ PaSettle("rejected", {})
    /\ UNCHANGED <<paKind, paItems, paCount, paValues, paCalled, paTwice>>

\* The iterator is done: the one the count started with is taken off.
PaDone ==
    /\ paRun = "next"
    /\ paRun' = "returned"
    /\ IF paKind = "race" THEN UNCHANGED <<paCount, paResult, paWith>>
       ELSE /\ paCount' = paCount - 1
            /\ IF paCount' = 0 THEN PaSettle("resolved", paValues) ELSE UNCHANGED <<paResult, paWith>>
    /\ UNCHANGED <<paKind, paItems, paValues, paCalled, paTwice>>

\* Mutant: the flag is not looked at.
CountsEveryCall(i, reject) ==
    /\ paCalled' = paCalled \cup {<<i, reject>>}
    /\ paTwice' = (paTwice \/ <<i, ~reject>> \in paCalled)
    /\ paValues' = paValues \cup {i}
    /\ paCount' = paCount - 1
    /\ IF paCount' = 0 THEN PaSettle("resolved", paValues') ELSE UNCHANGED <<paResult, paWith>>

\* js_promise_all_resolve_element: each function has a flag of its own.
js_promise_all_resolve_element(i, reject) ==
    IF <<i, reject>> \in paCalled
    THEN UNCHANGED <<paCalled, paValues, paCount, paResult, paWith, paTwice>>
    ELSE /\ paCalled' = paCalled \cup {<<i, reject>>}
         /\ paTwice' = (paTwice \/ <<i, ~reject>> \in paCalled)
         /\ paValues' = paValues \cup {i}
         /\ paCount' = paCount - 1
         /\ IF paCount' = 0 THEN PaSettle("resolved", paValues') ELSE UNCHANGED <<paResult, paWith>>

\* An item calls one of the two functions it was given: element functions, or the
\* capability's own for the rejection of all and for race.
PaItemCalls(i, reject) ==
    \/ paItems[i] = "foreign" /\ UNCHANGED paItems
    \/ paItems[i] = "native" /\ paRun = "returned" /\ paItems' = [paItems EXCEPT ![i] = "called"]

PaCallback(i, reject) ==
    /\ PaItemCalls(i, reject)
    /\ IF paKind = "allSettled" \/ (paKind = "all" /\ ~reject)
       THEN js_promise_all_resolve_element(i, reject)
       ELSE /\ PaSettle(IF reject THEN "rejected" ELSE "resolved", {i})
            /\ UNCHANGED <<paCalled, paValues, paCount, paTwice>>
    /\ UNCHANGED <<paKind, paRun>>

PaNext ==
    \/ js_promise_all \/ PaThenReturns \/ PaFails \/ PaDone
    \/ \E sort \in {"native", "foreign"} : PaItem(sort)
    \/ \E i \in DOMAIN paItems, reject \in BOOLEAN : PaCallback(i, reject)

\* The call returns, and the jobs of promises that settle are executed.
PaFairness ==
    /\ WF_paVars(PaThenReturns \/ PaFails \/ PaDone)
    /\ WF_paVars(\E i \in DOMAIN paItems, reject \in BOOLEAN :
                     paItems[i] = "native" /\ PaCallback(i, reject))

PaSpec == PaInit /\ [][PaNext]_paVars /\ PaFairness

-----------------------------------------------------------------------------
\* The count is what it is named for: one while the loop runs, and one for every
\* item that has not delivered its value.  Supposes that no item of allSettled
\* calls both its functions, which count separately.
CountsRemaining ==
    ~paTwice /\ paKind # "race" /\ paRun # "none" /\ (paRun # "returned" \/ paResult # "rejected") =>
        paCount = Cardinality(DOMAIN paItems \ paValues) + (IF paRun = "returned" THEN 0 ELSE 1)

\* Promise.all and allSettled resolve with the values of all the items and not
\* before the iterable has been read to its end.
ResolvesWithAll ==
    paKind # "race" /\ paResult = "resolved" /\ ~paTwice =>
        paRun = "returned" /\ paWith = DOMAIN paItems

\* When every item is a promise that settles, so does the result, except for a
\* race without items: again and again there is no call that has returned, has
\* only such items and has not decided.
AllSettles ==
    []<>((paRun = "returned" /\ (paKind # "race" \/ DOMAIN paItems # {})
             /\ \A i \in DOMAIN paItems : paItems[i] # "foreign")
         => paResult # "pending")

\* js_promise_all and js_promise_all_resolve_element count down to zero exactly
\* when the values of all items are there, and resolve then.
AllCounted == CountsRemaining /\ ResolvesWithAll
=============================================================================
