--------------------------- MODULE ModuleExports ---------------------------
(***************************************************************************)
(* What a name exported by a module stands for: js_resolve_export through  *)
(* indirect and star exports, the names of a module namespace              *)
(* (get_exported_names, js_build_module_ns), and the normalisation of a    *)
(* module name.                                                            *)
(*                                                                         *)
(* A graph maps a module to [entries, stars]: entries is a function from   *)
(* some names to export entries, [to |-> "local", name |-> variable],      *)
(* [to |-> "module", mod, name] (export {name as n} from mod) or           *)
(* [to |-> "ns", mod] (export * as n from mod); stars is the sequence of   *)
(* the modules of its `export * from'.                                     *)
(***************************************************************************)
EXTENDS Naturals, Sequences, FiniteSets, SequencesExt

\* The result of a star export joins those before it: two different bindings are
\* ambiguous.
ExJoin(found, res) ==
    IF res.res # "found" THEN found
    ELSE IF found.res # "found" THEN res
    ELSE IF found.at = res.at THEN found
    ELSE [res |-> "ambiguous", at |-> <<>>]

RECURSIVE js_resolve_export1(_, _, _, _), ExStars(_, _, _, _, _, _)

\* The pairs (module, name) looked at so far are threaded through in `seen', as in
\* the shared JSResolveState.
js_resolve_export1(g, m, name, seen) ==
    LET seen1 == seen \cup {<<m, name>>} IN
    IF <<m, name>> \in seen THEN [res |-> "circular", at |-> <<>>, seen |-> seen]
    ELSE IF name \in DOMAIN g[m].entries
    THEN LET me == g[m].entries[name] IN
         CASE me.to = "local" -> [res |-> "found", at |-> <<m, me.name>>, seen |-> seen1]
           [] me.to = "ns" -> [res |-> "found", at |-> <<m, "*">>, seen |-> seen1]
           [] me.to = "module" -> js_resolve_export1(g, me.mod, me.name, seen1)
    ELSE IF name = "default" THEN [res |-> "not_found", at |-> <<>>, seen |-> seen1]
    ELSE ExStars(g, m, name, 1, [res |-> "not_found", at |-> <<>>], seen1)

ExStars(g, m, name, i, found, seen) ==
    IF i > Len(g[m].stars) THEN [res |-> found.res, at |-> found.at, seen |-> seen]
    ELSE LET r == js_resolve_export1(g, g[m].stars[i], name, seen)
             join == ExJoin(found, [res |-> r.res, at |-> r.at]) IN
         IF r.res = "ambiguous" \/ join.res = "ambiguous"
         THEN [res |-> "ambiguous", at |-> <<>>, seen |-> r.seen]
         ELSE ExStars(g, m, name, i + 1, join, r.seen)

js_resolve_export(g, m, name) ==
    LET r == js_resolve_export1(g, m, name, {}) IN [res |-> r.res, at |-> r.at]

RECURSIVE get_exported_names(_, _, _, _)

\* The modules visited and the names listed; names that are `default' do not pass
\* a star export.
get_exported_names(g, s, m, from_star) ==
    IF m \in s.modules THEN s
    ELSE LET own == {n \in DOMAIN g[m].entries : ~(from_star /\ n = "default")}
             s1 == [modules |-> s.modules \cup {m}, names |-> s.names \cup own]
             Visit[i \in 0..Len(g[m].stars)] ==
                 IF i = 0 THEN s1 ELSE get_exported_names(g, Visit[i - 1], g[m].stars[i], TRUE)
         IN Visit[Len(g[m].stars)]

\* The properties of the namespace object, if it can be built: ambiguous names are left
\* out, a name that is not found is an error.  A local export of m itself is not
\* looked up.
js_build_module_ns(g, m) ==
    LET names == get_exported_names(g, [modules |-> {}, names |-> {}], m, FALSE).names
        res == [n \in names |-> js_resolve_export(g, m, n)]
    IN IF \E n \in names : res[n].res \in {"not_found", "circular"} THEN [ok |-> FALSE, props |-> {}]
       ELSE [ok |-> TRUE, props |-> {<<n, res[n].at>> : n \in {x \in names : res[x].res = "found"}}]

-----------------------------------------------------------------------------
(* The reference: the bindings a name leads to along the edges of a graph.  *)

ExEdges(g, node) ==
    LET m == node[1]  name == node[2] IN
    IF name \in DOMAIN g[m].entries
    THEN IF g[m].entries[name].to = "module"
         THEN {<<g[m].entries[name].mod, g[m].entries[name].name>>} ELSE {}
    ELSE IF name = "default" THEN {}
    ELSE {<<m1, name>> : m1 \in Range(g[m].stars)}

ExReachable(g, m, name) ==
    LET Names == {name} \cup UNION {{g[x].entries[n].name : n \in
                     {y \in DOMAIN g[x].entries : g[x].entries[y].to = "module"}} : x \in DOMAIN g}
        Step[k \in 0..(Cardinality(DOMAIN g) * Cardinality(Names))] ==
            IF k = 0 THEN {<<m, name>>}
            ELSE Step[k - 1] \cup UNION {ExEdges(g, node) : node \in Step[k - 1]}
    IN Step[Cardinality(DOMAIN g) * Cardinality(Names)]

ExBindings(g, m, name) ==
    {<<node[1], IF g[node[1]].entries[node[2]].to = "ns" THEN "*" ELSE g[node[1]].entries[node[2]].name>> :
        node \in {x \in ExReachable(g, m, name) :
                     x[2] \in DOMAIN g[x[1]].entries /\ g[x[1]].entries[x[2]].to # "module"}}

\* A name resolves to the one binding it leads to; it is not found when it leads to
\* none (circular or not), and ambiguous when it leads to several.
ExResolvesRight(g, m, name, out) ==
    LET b == ExBindings(g, m, name) IN
    CASE out.res = "found" -> b = {out.at}
      [] out.res = "ambiguous" -> Cardinality(b) > 1
      [] OTHER -> b = {}

\* The namespace has exactly the names with one binding, unless an indirect export
\* of one of its modules leads nowhere.
ExNamespaceRight(g, m, names, out) ==
    LET one == {n \in names : Cardinality(ExBindings(g, m, n)) = 1} IN
    IF ~out.ok
    THEN \E x \in DOMAIN g : \E n \in DOMAIN g[x].entries : ExBindings(g, x, n) = {}
    ELSE out.props = {<<n, CHOOSE b \in ExBindings(g, m, n) : TRUE>> : n \in one}

-----------------------------------------------------------------------------
(* js_default_module_normalize_name on paths as sequences of their elements. *)

RECURSIVE ExClimb(_, _)

\* Leading "." are skipped and leading ".." remove the last element of the
\* directory, unless it is empty or ends in "." or "..".
ExClimb(dir, rest) ==
    IF Len(rest) > 1 /\ Head(rest) = "." THEN ExClimb(dir, Tail(rest))
    ELSE IF Len(rest) > 1 /\ Head(rest) = ".." /\ dir # <<>> /\ Last(dir) \notin {".", ".."}
    THEN ExClimb(Front(dir), Tail(rest))
    ELSE dir \o rest

js_default_module_normalize_name(base, name) ==
    IF Head(name) \notin {".", ".."} THEN name
    ELSE ExClimb(IF base = <<>> THEN <<>> ELSE Front(base), name)

\* Where a path leads, as the directories climbed above the start and then the
\* elements descended.
ExWalk(path) ==
    LET Walk[i \in 0..Len(path)] ==
        IF i = 0 THEN [up |-> 0, down |-> <<>>]
        ELSE CASE path[i] = "." -> Walk[i - 1]
               [] path[i] = ".." /\ Walk[i - 1].down # <<>> ->
                     [Walk[i - 1] EXCEPT !.down = Front(@)]
               [] path[i] = ".." -> [Walk[i - 1] EXCEPT !.up = @ + 1]
               [] OTHER -> [Walk[i - 1] EXCEPT !.down = Append(@, path[i])]
    IN Walk[Len(path)]
=============================================================================
