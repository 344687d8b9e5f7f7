------------------------------- MODULE MCHost -------------------------------
(* An instance for TLC of the fuzzer and of the memory management every run  *)
(* of it relies on: the harness around QuickJS, the accounting of memory     *)
(* under the limit it sets, and reference counts with the cycle collector.   *)
(* Each behaviour exercises one of them.                                     *)
EXTENDS JSFuzz, JSMalloc, CycleGC, TLC

VARIABLE part    \* the component at work

\* Bytes of the fewest and of the most digits.
MCBytes == {7, 255}

\* The empty string, a pair, an embedded 0, and a character above 255.
MCOutputs == {<<>>, <<65, 66>>, <<65, 0>>, <<65, 258>>}

\* The identities of objects and those of programs are interchangeable.
Symmetry == Permutations(Objects) \cup Permutations(Programs)

HostInit ==
    /\ part \in {"fuzzer", "malloc", "collector"}
    /\ FzInit /\ Init /\ GcInit
    /\ part # "fuzzer" => argv = <<>>

HostNext ==
    /\ UNCHANGED part
    /\ \/ part = "fuzzer" /\ FzNext /\ UNCHANGED <<vars, nodeVars>>
       \/ part = "malloc" /\ Next /\ UNCHANGED <<fzVars, nodeVars>>
       \/ part = "collector" /\ GcNext /\ UNCHANGED <<fzVars, vars>>

HostSpec == HostInit /\ [][HostNext]_<<part, fzVars, vars, nodeVars>>
=============================================================================
