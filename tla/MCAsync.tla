------------------------------ MODULE MCAsync -------------------------------
(* An instance for TLC of the parts of the engine in which several           *)
(* computations are under way at once: Promise.all, generators, async        *)
(* functions and generators, modules that import each other, and threads     *)
(* that wait on shared memory.  Each behaviour exercises one of them.        *)
EXTENDS PromiseAll, AsyncGenerator, AsyncFunction, Generator, Modules, Atomics

VARIABLE part    \* the component at work

\* Module 1 is the one imported first; there are chains, diamonds and
\* cycles of two and of three, with the requests in either order.
MCGraphs == {g \in [Mods -> {<<>>, <<1>>, <<2>>, <<3>>, <<2, 3>>, <<3, 2>>, <<3, 1>>, <<2, 1>>}] :
               /\ g[1] \in {<<2>>, <<2, 3>>, <<3, 2>>}
               /\ g[2] \in {<<>>, <<1>>, <<3>>, <<3, 1>>}
               /\ g[3] \in {<<>>, <<1>>, <<2>>, <<2, 1>>}}

AsyncParts == {"all", "asyncgen", "async", "gen", "modules", "threads"}

AsyncInit ==
    /\ part \in AsyncParts
    /\ PaInit /\ AgInit /\ AfInit /\ GenInit /\ AtInit
    /\ part # "all" => paKind = "all"
    /\ MdInit
    /\ part # "modules" => mdReq = [m \in Mods |-> IF m = 1 THEN <<2>> ELSE <<>>] /\ mdMissing \cup mdUnlinkable = {}

On(p, step) == part = p /\ step

AsyncNext ==
    /\ UNCHANGED part
    /\ \/ On("all", PaNext) /\ UNCHANGED <<agVars, afVars, genVars, mdVars, atVars>>
       \/ On("asyncgen", AgNext) /\ UNCHANGED <<paVars, afVars, genVars, mdVars, atVars>>
       \/ On("async", AfNext) /\ UNCHANGED <<paVars, agVars, genVars, mdVars, atVars>>
       \/ On("gen", GenNext) /\ UNCHANGED <<paVars, agVars, afVars, mdVars, atVars>>
       \/ On("modules", MdNext) /\ UNCHANGED <<paVars, agVars, afVars, genVars, atVars>>
       \/ On("threads", AtNext) /\ UNCHANGED <<paVars, agVars, afVars, genVars, mdVars>>

\* The components that are not at work are idle: none of their fair steps is
\* enabled until one of their functions is called.
AsyncSpec ==
    /\ AsyncInit
    /\ [][AsyncNext]_<<part, paVars, agVars, afVars, genVars, mdVars, atVars>>
    /\ PaFairness /\ AgFairness /\ MdFairness /\ AtFairness

\* What is under way comes to its end: calls of Promise.all, requests of async
\* generators, imports, and waits that are notified or limited in time.
AsyncProgress == AllSettles /\ OldestAnswered /\ ImportsEnd /\ WaitersReturn
=============================================================================
