------------------------------ MODULE TimerGC ------------------------------
(***************************************************************************)
(* Timers as garbage-collected objects: CycleGC composed with the life of  *)
(* the JSOSTimer records of quickjs-libc.c.                                *)
(*                                                                         *)
(* The function of a timer is referred to once, by th->func.  As long as   *)
(* the timer's object exists js_os_timer_mark shows that reference to the  *)
(* collector as a field of the object; the record itself may also be       *)
(* linked in os_timers, from where js_os_poll will call the function.      *)
(***************************************************************************)
EXTENDS CycleGC

CONSTANTS
    TimerObjects,   \* the objects of class OSTimer: a subset of Objects
    FuncSlot        \* the field that stands for th->func: the last one of Slots

VARIABLES
    linked,         \* timers whose record is linked in os_timers
    orphan          \* th->func of the linked records whose object is gone

timerVars == <<linked, orphan>>
allVars == <<alloc, child, ext, ref_count, mark, free_mark, obj_list, tmp_obj_list,
             free_obj_list, el_next, phase, stack, linked, orphan>>

TimerInit ==
    /\ GcInit
    /\ linked = {}
    /\ orphan = [t \in TimerObjects |-> Nil]

\* Besides the references of records without an object, the program holds k.
Holds(n, k) == ext[n] >= k + Cardinality({t \in TimerObjects : orphan[t] = n})

\* js_os_setTimeout: a new object whose record holds func.
setTimeout(t, func) ==
    /\ Mutator
    /\ t \in Nodes \ alloc
    /\ t \notin linked
    /\ Holds(func, 1) /\ ext[func] < MaxExt
    /\ alloc' = alloc \cup {t}
    /\ child' = [child EXCEPT ![t] = [NoChildren EXCEPT ![FuncSlot] = func]]
    /\ ext' = [ext EXCEPT ![t] = 1]
    /\ ref_count' = [ref_count EXCEPT ![t] = 1, ![func] = @ + 1]
    /\ mark' = [mark EXCEPT ![t] = 0]
    /\ free_mark' = free_mark \ {t}
    /\ obj_list' = Append(obj_list, t)
    /\ linked' = linked \cup {t}
    /\ UNCHANGED <<tmp_obj_list, free_obj_list, el_next, phase, stack, orphan>>

\* js_os_clearTimeout: the record is unlinked and keeps its function.
clearTimeout(t) ==
    /\ Mutator
    /\ Holds(t, 1)
    /\ linked' = linked \ {t}
    /\ UNCHANGED <<nodeVars, orphan>>

\* js_os_timer_finalizer of a linked record: the object is gone, the record and
\* its reference to the function stay.
FinalizeLinked ==
    /\ Visiting("free", FuncSlot)
    /\ Head(stack).n \in linked
    /\ LET t == Head(stack).n
           func == FieldOf(FuncSlot)
       IN /\ child' = [child EXCEPT ![t][FuncSlot] = Nil]
          /\ orphan' = [orphan EXCEPT ![t] = func]
          /\ ext' = [ext EXCEPT ![func] = @ + 1]
    /\ stack' = Visited(FuncSlot)
    /\ UNCHANGED <<alloc, ref_count, gcVars, linked>>

\* js_os_poll finds the timer expired: it takes the function out of the record
\* (and out of the object's field), to call it and drop it.
Fire(t) ==
    /\ Mutator
    /\ t \in linked
    /\ linked' = linked \ {t}
    /\ IF t \in alloc
       THEN /\ ext[child[t][FuncSlot]] < MaxExt
            /\ ext' = [ext EXCEPT ![child[t][FuncSlot]] = @ + 1]
            /\ child' = [child EXCEPT ![t][FuncSlot] = Nil]
            /\ UNCHANGED orphan
       ELSE orphan' = [orphan EXCEPT ![t] = Nil] /\ UNCHANGED <<ext, child>>
    /\ UNCHANGED <<alloc, ref_count, gcVars, stack>>

-----------------------------------------------------------------------------
\* What programs do to other objects, and to the handles of timers.
Program ==
    \/ \E n \in Nodes \ TimerObjects : NewNode(n)
    \/ \E n \in Nodes : Holds(n, 1) /\ (DupValue(n) \/ DropValue(n))
    \/ \E n \in Nodes \ TimerObjects, i \in Slots :
           Holds(n, 1) /\ (GetField(n, i) \/ DeleteField(n, i))
    \/ \E n \in Nodes \ TimerObjects, c \in Nodes, i \in Slots :
           /\ Holds(n, 1) /\ Holds(c, IF n = c THEN 2 ELSE 1)
           /\ SetField(n, i, c)

Timer ==
    \/ \E t \in TimerObjects, func \in Objects \ TimerObjects : setTimeout(t, func)
    \/ \E t \in TimerObjects : clearTimeout(t) \/ Fire(t)
    \/ FinalizeLinked

TimerCollect ==
    /\ ~(Visiting("free", FuncSlot) /\ Head(stack).n \in linked)
    /\ Collect

TimerNext ==
    \/ Timer
    \/ (Program \/ JS_RunGC \/ TimerCollect) /\ UNCHANGED timerVars

TimerSpec == TimerInit /\ [][TimerNext]_allVars

-----------------------------------------------------------------------------
\* "Call the function func after delay ms": as long as a timer is linked in
\* os_timers, js_os_poll may call its function, so the function is not freed.
TimerFuncAlive ==
    \A t \in linked :
        /\ t \in alloc /\ child[t][FuncSlot] # Nil =>
               child[t][FuncSlot] \in alloc \ free_mark
        /\ orphan[t] # Nil => orphan[t] \in alloc \ free_mark
=============================================================================
