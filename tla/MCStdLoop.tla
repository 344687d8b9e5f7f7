----------------------------- MODULE MCStdLoop -----------------------------
(* Instances of StdLoop for TLC: the resources a script uses are one of     *)
(* several kits, so that every combination that matters is there and the    *)
(* instance stays small.                                                    *)
EXTENDS StdLoop

CONSTANT Kits   \* sets of jobs, timers, descriptors and signals
VARIABLE kit    \* the one the script of this behaviour uses

ASSUME KitAssumption == \A k \in Kits : k \subseteq Jobs \cup Timers \cup FDs \cup Signals

InUse == Elems(job_list) \cup allocated \cup rfunc \cup wfunc \cup Elems(os_signal_handlers)

MCInit == Init /\ kit \in Kits
MCNext == Next /\ InUse' \subseteq kit /\ readable' \cup writable' \subseteq kit /\ UNCHANGED kit

MCSpec == MCInit /\ [][MCNext]_<<vars, kit>> /\ Fairness
=============================================================================
