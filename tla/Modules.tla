------------------------------ MODULE Modules ------------------------------
(***************************************************************************)
(* Loading, linking and evaluating a graph of modules: the recursive       *)
(* functions js_resolve_module, js_instantiate_module and                  *)
(* js_evaluate_module as frames of an explicit stack, under the evaluation *)
(* of a main file (JS_Eval) and of dynamic imports (js_dynamic_import),    *)
(* which the body of a module may make while it runs.                      *)
(*                                                                         *)
(* A frame is [fn, m, i]: fn names the function and where it stands, i is  *)
(* the entry of req_module_entries it works on.  mdRet is what the frame   *)
(* above returned: "" while it has not.                                    *)
(***************************************************************************)
EXTENDS Naturals, Sequences, FiniteSets, SequencesExt

CONSTANTS
    Mods,           \* module names: files the loader may find
    MdGraphs,       \* requests to check: functions from Mods to Seq(Mods)
    MaxImports      \* bound: dynamic imports

ASSUME MdAssumption == MaxImports \in Nat /\ \A g \in MdGraphs : g \in [Mods -> Seq(Mods)]

VARIABLES
    mdReq,          \* req_module_entries of each module
    mdMissing,      \* files that are missing or do not parse
    mdUnlinkable,   \* modules with an import or indirect export that does not resolve
    mdLoaded,       \* ctx->loaded_modules
    mdLinked,       \* entries with a module pointer, as a count per module
    mdResolved, mdInstantiated, mdMark, mdEvaluated, mdThrew,   \* the flags of JSModuleDef
    mdStack, mdRet,
    mdImports,      \* dynamic imports made
    mdRuns,         \* ghost: times the code of the module instance ran
    mdHurt          \* ghost: modules were freed while others were being evaluated, or
                    \* while a loaded module pointed to one of them

mdGiven == <<mdReq, mdMissing, mdUnlinkable>>
mdFlags == <<mdLoaded, mdLinked, mdResolved, mdInstantiated, mdMark, mdEvaluated, mdThrew, mdRuns, mdHurt>>
mdVars == <<mdGiven, mdFlags, mdStack, mdRet, mdImports>>

MdInit ==
    /\ mdReq \in MdGraphs /\ mdMissing \in SUBSET Mods /\ mdUnlinkable \in SUBSET Mods
    /\ Cardinality(mdMissing \cup mdUnlinkable) <= 1
    /\ mdLoaded = {} /\ mdLinked = [m \in Mods |-> 0]
    /\ mdResolved = {} /\ mdInstantiated = {} /\ mdMark = {} /\ mdEvaluated = {} /\ mdThrew = {}
    /\ mdStack = <<>> /\ mdRet = "" /\ mdImports = 0
    /\ mdRuns = [m \in Mods |-> 0] /\ mdHurt = FALSE

MdFrame(fn, m, i) == [fn |-> fn, m |-> m, i |-> i]
MdTop == Last(mdStack)
MdAt(fn) == mdStack # <<>> /\ MdTop.fn = fn
MdCall(frame) == mdStack' = Append(mdStack, frame) /\ mdRet' = ""
MdGo(fn) == mdStack' = Append(Front(mdStack), [MdTop EXCEPT !.fn = fn]) /\ mdRet' = ""
MdReturn(ret) == mdStack' = Front(mdStack) /\ mdRet' = ret

\* js_free_module_def for each module of ms.
MdFree(ms) ==
    /\ mdLoaded' = mdLoaded \ ms
    /\ mdLinked' = [m \in Mods |-> IF m \in ms THEN 0 ELSE mdLinked[m]]
    /\ mdRuns' = [m \in Mods |-> IF m \in ms THEN 0 ELSE mdRuns[m]]
    /\ mdResolved' = mdResolved \ ms /\ mdInstantiated' = mdInstantiated \ ms
    /\ mdMark' = mdMark \ ms /\ mdEvaluated' = mdEvaluated \ ms /\ mdThrew' = mdThrew \ ms
    /\ mdHurt' = \/ mdHurt
                 \/ ms \cap mdMark # {}
                 \/ \E m \in mdLoaded \ ms : \E i \in 1..mdLinked[m] : mdReq[m][i] \in ms

-----------------------------------------------------------------------------
(* Loading.                                                                 *)

\* js_host_resolve_imported_module: a loaded module is returned as it is;
\* otherwise js_module_loader compiles the file, which creates the module
\* (js_new_module_def) and resolves it.
js_host_resolve_imported_module(m) ==
    IF m \in mdLoaded THEN mdRet' = "ok" /\ UNCHANGED <<mdStack, mdLoaded>>
    ELSE IF m \in mdMissing THEN mdRet' = "exception" /\ UNCHANGED <<mdStack, mdLoaded>>
    ELSE /\ mdLoaded' = mdLoaded \cup {m}
         /\ mdStack' = mdStack \o <<MdFrame("load", m, 0), MdFrame("resolve", m, 0)>>
         /\ mdRet' = ""

\* __JS_EvalInternal with JS_EVAL_FLAG_COMPILE_ONLY: fail1 frees this module only.
MdLoad ==
    /\ MdAt("load") /\ mdRet # ""
    /\ MdReturn(mdRet)
    /\ IF mdRet = "exception" THEN MdFree({MdTop.m}) ELSE UNCHANGED mdFlags
    /\ UNCHANGED <<mdGiven, mdImports>>

\* js_resolve_module: nothing to do, the end of the loop, the next entry.
MdResolve ==
    /\ MdAt("resolve") /\ mdRet = ""
    /\ LET m == MdTop.m   i == MdTop.i + 1 IN
       IF (i = 1 /\ m \in mdResolved) \/ i > Len(mdReq[m])
       THEN /\ MdReturn("ok")
            /\ mdResolved' = mdResolved \cup {m}
       ELSE /\ MdCall(MdFrame("request", m, i))
            /\ mdResolved' = mdResolved \cup {m}
    /\ UNCHANGED <<mdGiven, mdLoaded, mdLinked, mdInstantiated, mdMark, mdEvaluated, mdThrew,
                   mdRuns, mdHurt, mdImports>>

\* rme->module = js_host_resolve_imported_module(...), then js_resolve_module on it.
MdRequest ==
    /\ MdAt("request")
    /\ LET m1 == mdReq[MdTop.m][MdTop.i] IN
       \/ /\ mdRet = ""
          /\ js_host_resolve_imported_module(m1)
          /\ UNCHANGED mdLinked
       \/ /\ mdRet = "exception"
          /\ MdReturn("exception")
          /\ UNCHANGED <<mdLinked, mdLoaded>>
       \/ /\ mdRet = "ok"
          /\ mdLinked' = [mdLinked EXCEPT ![MdTop.m] = MdTop.i]
          /\ mdStack' = Append(Front(mdStack), MdFrame("resolve", m1, 0))
          /\ mdRet' = ""
          /\ UNCHANGED mdLoaded
    /\ UNCHANGED <<mdGiven, mdResolved, mdInstantiated, mdMark, mdEvaluated, mdThrew, mdRuns, mdHurt, mdImports>>

\* A call that the loop of `fn' made has returned: go on with the next entry.
MdNextEntry(fn) ==
    /\ MdAt(fn) /\ mdRet # ""
    /\ IF mdRet = "exception" THEN MdReturn("exception")
       ELSE mdStack' = Append(Front(mdStack), [MdTop EXCEPT !.i = @ + 1]) /\ mdRet' = ""
    /\ UNCHANGED <<mdGiven, mdFlags, mdImports>>

-----------------------------------------------------------------------------
(* Linking and evaluation.                                                  *)

\* js_instantiate_module: mark first, then the requested modules, then the
\* bindings of this one.
js_instantiate_module ==
    /\ MdAt("instantiate") /\ mdRet = ""
    /\ LET m == MdTop.m   i == MdTop.i + 1 IN
       IF i = 1 /\ m \in mdInstantiated THEN MdReturn("ok")
       ELSE IF i <= Len(mdReq[m]) THEN MdCall(MdFrame("instantiate", mdReq[m][i], 0))
       ELSE MdReturn(IF m \in mdUnlinkable THEN "exception" ELSE "ok")
    /\ mdInstantiated' = mdInstantiated \cup {MdTop.m}
    /\ UNCHANGED <<mdGiven, mdLoaded, mdLinked, mdResolved, mdMark, mdEvaluated, mdThrew,
                   mdRuns, mdHurt, mdImports>>

\* Mutant: the loop over the requested modules stops one short.
SkipsLastRequest ==
    /\ MdAt("evaluate") /\ mdRet = ""
    /\ LET m == MdTop.m   i == MdTop.i + 1 IN
       IF i = 1 /\ m \in mdMark
       THEN MdReturn("ok") /\ UNCHANGED <<mdMark, mdRuns>>
       ELSE IF i = 1 /\ m \in mdEvaluated
       THEN MdReturn(IF m \in mdThrew THEN "exception" ELSE "ok") /\ UNCHANGED <<mdMark, mdRuns>>
       ELSE /\ mdMark' = mdMark \cup {m}
            /\ IF i < Len(mdReq[m])
               THEN MdCall(MdFrame("evaluate", mdReq[m][i], 0)) /\ UNCHANGED mdRuns
               ELSE MdGo("run") /\ mdRuns' = [mdRuns EXCEPT ![m] = @ + 1]
    /\ UNCHANGED <<mdGiven, mdLoaded, mdLinked, mdResolved, mdInstantiated, mdEvaluated, mdThrew, mdHurt, mdImports>>

\* js_evaluate_module: a marked module is being evaluated further down the stack;
\* an evaluated one throws again what it threw; otherwise the requested modules
\* come first, then the code of this one starts.
js_evaluate_module ==
    /\ MdAt("evaluate") /\ mdRet = ""
    /\ LET m == MdTop.m   i == MdTop.i + 1 IN
       IF i = 1 /\ m \in mdMark
       THEN MdReturn("ok") /\ UNCHANGED <<mdMark, mdRuns>>
       ELSE IF i = 1 /\ m \in mdEvaluated
       THEN MdReturn(IF m \in mdThrew THEN "exception" ELSE "ok") /\ UNCHANGED <<mdMark, mdRuns>>
       ELSE /\ mdMark' = mdMark \cup {m}
            /\ IF i <= Len(mdReq[m])
               THEN MdCall(MdFrame("evaluate", mdReq[m][i], 0)) /\ UNCHANGED mdRuns
               ELSE MdGo("run") /\ mdRuns' = [mdRuns EXCEPT ![m] = @ + 1]
    /\ UNCHANGED <<mdGiven, mdLoaded, mdLinked, mdResolved, mdInstantiated, mdEvaluated, mdThrew, mdHurt, mdImports>>

\* A requested module threw: this one is not evaluated, its mark is taken back.
MdEvaluateFails ==
    /\ MdAt("evaluate") /\ mdRet = "exception"
    /\ mdMark' = mdMark \ {MdTop.m}
    /\ MdReturn("exception")
    /\ UNCHANGED <<mdGiven, mdLoaded, mdLinked, mdResolved, mdInstantiated, mdEvaluated, mdThrew,
                   mdRuns, mdHurt, mdImports>>

\* The code of the module ends; the exception it throws is kept.
MdRunEnds(ret) ==
    /\ MdAt("run") /\ mdRet = ""
    /\ mdMark' = mdMark \ {MdTop.m}
    /\ mdEvaluated' = mdEvaluated \cup {MdTop.m}
    /\ mdThrew' = IF ret = "exception" THEN mdThrew \cup {MdTop.m} ELSE mdThrew
    /\ MdReturn(ret)
    /\ UNCHANGED <<mdGiven, mdLoaded, mdLinked, mdResolved, mdInstantiated, mdRuns, mdHurt, mdImports>>

-----------------------------------------------------------------------------
(* js_dynamic_import and JS_EvalFunctionInternal.                           *)

\* From the body of a module, or from a script or job (empty stack); the call of
\* JS_Eval for the main file is the import made first.
js_dynamic_import(m) ==
    /\ mdImports < MaxImports
    /\ mdStack = <<>> \/ (MdAt("run") /\ mdRet = "")
    /\ MdCall(MdFrame("import", m, 0))
    /\ mdImports' = mdImports + 1
    /\ UNCHANGED <<mdGiven, mdFlags>>

\* The module is found or loaded, ...
MdImportStarts ==
    /\ MdAt("import") /\ MdTop.i = 0 /\ mdRet = ""
    /\ LET stack == Append(Front(mdStack), [MdTop EXCEPT !.i = 1]) IN
       IF MdTop.m \in mdLoaded THEN mdRet' = "ok" /\ mdStack' = stack /\ UNCHANGED mdLoaded
       ELSE IF MdTop.m \in mdMissing THEN mdRet' = "exception" /\ mdStack' = stack /\ UNCHANGED mdLoaded
       ELSE /\ mdLoaded' = mdLoaded \cup {MdTop.m}
            /\ mdStack' = stack \o <<MdFrame("load", MdTop.m, 0), MdFrame("resolve", MdTop.m, 0)>>
            /\ mdRet' = ""
    /\ UNCHANGED <<mdGiven, mdLinked, mdResolved, mdInstantiated, mdMark, mdEvaluated, mdThrew,
                   mdRuns, mdHurt, mdImports>>

\* ... resolved, instantiated and evaluated; js_free_modules drops the modules that
\* are not resolved, or not evaluated, when a step fails.
MdImport ==
    /\ MdAt("import") /\ MdTop.i > 0 /\ mdRet # ""
    /\ \/ /\ mdRet = "exception"
          /\ MdFree(CASE MdTop.i = 1 -> {}
                      [] MdTop.i = 2 -> mdLoaded \ mdResolved
                      [] OTHER -> mdLoaded \ mdEvaluated)
          /\ MdReturn("")
       \/ /\ mdRet = "ok" /\ MdTop.i < 4
          /\ mdStack' = Front(mdStack) \o <<[MdTop EXCEPT !.i = @ + 1],
                 MdFrame(<<"resolve", "instantiate", "evaluate">>[MdTop.i], MdTop.m, 0)>>
          /\ mdRet' = ""
          /\ UNCHANGED mdFlags
       \/ mdRet = "ok" /\ MdTop.i = 4 /\ MdReturn("") /\ UNCHANGED mdFlags
    /\ UNCHANGED <<mdGiven, mdImports>>

MdStep ==
    \/ MdLoad \/ MdResolve \/ MdRequest
    \/ MdNextEntry("resolve") \/ MdNextEntry("instantiate")
    \/ mdRet = "ok" /\ MdNextEntry("evaluate")
    \/ js_instantiate_module \/ js_evaluate_module \/ MdEvaluateFails
    \/ \E ret \in {"ok", "exception"} : MdRunEnds(ret)
    \/ MdImportStarts \/ MdImport

MdNext == MdStep \/ \E m \in Mods : js_dynamic_import(m)

\* The engine runs, and the code of a module ends.
MdFairness == WF_mdVars(MdStep)

MdSpec == MdInit /\ [][MdNext]_mdVars /\ MdFairness

-----------------------------------------------------------------------------
(* Properties.  They suppose that no module was freed while another one was *)
(* being evaluated or kept a pointer to it, which js_free_modules and fail1 *)
(* do not look at.                                                          *)

MdRunning == {m \in Mods : \E i \in 1..Len(mdStack) : mdStack[i].fn = "run" /\ mdStack[i].m = m}

\* The modules that m needs, directly or not.
MdNeeds(m) ==
    LET Reach[n \in 0..Cardinality(Mods)] ==
            IF n = 0 THEN {m} ELSE Reach[n-1] \cup UNION {Range(mdReq[x]) : x \in Reach[n-1]}
    IN Reach[Cardinality(Mods)]

\* The code of a module instance runs once, whatever imports it and however often,
\* cycles and modules that threw included.
RunsOnce ==
    ~mdHurt => \A m \in Mods : mdRuns[m] <= 1 /\ (m \in mdEvaluated => mdRuns[m] = 1)

\* When the code of a module runs, the modules it needs are loaded, linked and
\* instantiated.
LinkedWhenRun ==
    ~mdHurt => \A m \in MdRunning : \A m1 \in MdNeeds(m) :
        m1 \in mdLoaded /\ m1 \in mdInstantiated /\ mdLinked[m1] = Len(mdReq[m1]) /\ m1 \notin mdUnlinkable

\* When the code of a module runs, each module it requests has run to its end
\* without an exception, except those whose own evaluation is waiting for it.
RequestsRunFirst ==
    ~mdHurt => \A m \in MdRunning : \A m1 \in Range(mdReq[m]) :
        (m1 \in mdEvaluated /\ m1 \notin mdThrew) \/ m1 \in mdMark

\* Every import ends, on every graph: again and again none is under way.
ImportsEnd == []<>(mdStack = <<>>)

\* js_evaluate_module runs the body of every module once, after it is linked and
\* after the modules it requests, but for those of its own cycle.
MdSound == RunsOnce /\ LinkedWhenRun /\ RequestsRunFirst
=============================================================================
