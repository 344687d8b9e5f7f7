------------------------------ MODULE Proxies ------------------------------
(***************************************************************************)
(* Proxy objects of quickjs.c.  A handler may answer every internal method *)
(* as it likes; the code compares each answer with the target so that what *)
(* the program has observed of the proxy stays true (the invariants of the *)
(* essential internal methods in the language).  The target is an ordinary *)
(* object with one property that other code changes at any time, also      *)
(* while a trap runs: the code reads the target only after the trap.  The  *)
(* proxy holds that object or a second proxy of it, without traps.         *)
(*                                                                         *)
(* pxSeen is what a program has learned through the proxy and may rely on; *)
(* pxVerdict says whether the last answer agreed with it.  The value, the  *)
(* getter and the setter in the descriptor that a trap returns are not     *)
(* compared with the target's (quickjs.c, line 42514), so nothing is       *)
(* learned from them; and absence is relied on only when the proxy holds   *)
(* the object itself, as the extensible field is read of the second proxy. *)
(***************************************************************************)
EXTENDS Integers, Sequences, FiniteSets

CONSTANTS Vals,         \* the values of properties
          Fns,          \* accessor functions, Undefined among them
          Protos        \* prototypes

VARIABLES pxTarget, pxRevoked, pxSeen, pxVerdict

pxVars == <<pxTarget, pxRevoked, pxSeen, pxVerdict>>

Undefined == 0
Values == Vals \cup {Undefined}
NotSeen == -1

ASSUME ProtosAssumption == Protos # {} /\ NotSeen \notin Protos
ASSUME ValsAssumption == NotSeen \notin Values
ASSUME FnsAssumption == Undefined \in Fns /\ NotSeen \notin Fns

\* a property (of no kind when there is none): value, getter, setter, flags
Prop(t, v, g, s, w, e, c) == [t |-> t, v |-> v, g |-> g, s |-> s, w |-> w, e |-> e, c |-> c]
Absent == Prop("none", Undefined, Undefined, Undefined, FALSE, FALSE, FALSE)
DataProps == [t : {"data"}, v : Values, g : {Undefined}, s : {Undefined},
              w : BOOLEAN, e : BOOLEAN, c : BOOLEAN]
AccProps == [t : {"acc"}, v : {Undefined}, g : Fns, s : Fns,
             w : {FALSE}, e : BOOLEAN, c : BOOLEAN]
Props == DataProps \cup AccProps

\* a descriptor of defineProperty: the fields it has and a property with them
AllData == {"v", "w", "e", "c"}
AllAcc == {"g", "s", "e", "c"}
Desc(has, p) == [has |-> has, p |-> p]
Descs ==
    {Desc(AllData, p) : p \in DataProps} \cup {Desc(AllAcc, p) : p \in AccProps}
    \cup {Desc({"v"}, Prop("data", x, Undefined, Undefined, FALSE, FALSE, FALSE)) : x \in Values}
    \cup {Desc({"w"}, Prop("data", Undefined, Undefined, Undefined, b, FALSE, FALSE)) : b \in BOOLEAN}
    \cup {Desc({"c"}, Prop("data", Undefined, Undefined, Undefined, FALSE, FALSE, b)) : b \in BOOLEAN}
    \cup {Desc({"g"}, Prop("acc", Undefined, f, Undefined, FALSE, FALSE, FALSE)) : f \in Fns}

IsAccessor(d) == d.has \cap {"g", "s"} # {}
Exists == pxTarget.prop.t # "none"

-----------------------------------------------------------------------------
(* The target, an ordinary object (JS_DefineProperty of an ordinary object *)
(* is modelled in Objects).                                                *)

\* the property after a successful definition
Defined(p, d) ==
    LET kind == IF IsAccessor(d) THEN "acc"
                ELSE IF d.has \cap {"v", "w"} # {} \/ p.t = "none" THEN "data"
                ELSE p.t
        same == kind = p.t
    IN  Prop(kind,
             IF "v" \in d.has THEN d.p.v ELSE IF same THEN p.v ELSE Undefined,
             IF "g" \in d.has THEN d.p.g ELSE IF same THEN p.g ELSE Undefined,
             IF "s" \in d.has THEN d.p.s ELSE IF same THEN p.s ELSE Undefined,
             IF "w" \in d.has THEN d.p.w ELSE IF same THEN p.w ELSE FALSE,
             IF "e" \in d.has THEN d.p.e ELSE p.e,
             IF "c" \in d.has THEN d.p.c ELSE p.c)

MayDefine(t, d) ==
    LET p == t.prop
        q == Defined(p, d)
    IN  IF p.t = "none" THEN t.ext
        ELSE \/ p.c
             \/ q = p
             \/ p.t = "data" /\ p.w /\ q.t = "data" /\ q.e = p.e /\ ~q.c

PxTargetDefined ==
    \E d \in {x \in Descs : MayDefine(pxTarget, x)} :
      /\ pxTarget' = [pxTarget EXCEPT !.prop = Defined(@, d)]
      /\ UNCHANGED <<pxRevoked, pxSeen, pxVerdict>>
PxTargetDeleted ==
    /\ Exists /\ pxTarget.prop.c
    /\ pxTarget' = [pxTarget EXCEPT !.prop = Absent]
    /\ UNCHANGED <<pxRevoked, pxSeen, pxVerdict>>
PxTargetClosed ==
    /\ pxTarget' = [pxTarget EXCEPT !.ext = FALSE]
    /\ UNCHANGED <<pxRevoked, pxSeen, pxVerdict>>
PxTargetProto ==
    /\ pxTarget.ext
    /\ \E p \in Protos : pxTarget' = [pxTarget EXCEPT !.proto = p]
    /\ UNCHANGED <<pxRevoked, pxSeen, pxVerdict>>

-----------------------------------------------------------------------------
(* The answers.  trap is <<what the trap returned>> or <<>> when there is  *)
(* no trap; the result is <<the answer>> or <<>> when the call throws.     *)

Throw == <<>>
Yes == <<TRUE>>
No == <<FALSE>>
NoTrap(trap) == trap = <<>>

\* p->extensible, read from the structure: of a proxy it is always set
ExtensibleField == pxTarget.nested \/ pxTarget.ext

js_proxy_getPrototypeOf(trap) ==
    IF NoTrap(trap) THEN <<pxTarget.proto>>
    ELSE IF ~pxTarget.ext /\ pxTarget.proto # trap[1] THEN Throw
    ELSE trap

js_proxy_setPrototypeOf(trap, proto) ==
    IF NoTrap(trap) THEN <<pxTarget.ext \/ proto = pxTarget.proto>>
    ELSE IF trap[1] /\ ~pxTarget.ext /\ proto # pxTarget.proto THEN Throw
    ELSE trap

js_proxy_isExtensible(trap) ==
    IF NoTrap(trap) THEN <<pxTarget.ext>>
    ELSE IF trap[1] # pxTarget.ext THEN Throw ELSE trap

js_proxy_preventExtensions(trap) ==
    IF NoTrap(trap) THEN Yes
    ELSE IF trap[1] /\ pxTarget.ext THEN Throw ELSE trap

js_proxy_has(trap) ==
    IF NoTrap(trap) THEN <<Exists>>
    ELSE IF ~trap[1] /\ Exists /\ (~pxTarget.prop.c \/ ~ExtensibleField) THEN Throw
    ELSE trap

\* the answer of a getter is named by the getter
js_proxy_get(trap) ==
    LET p == pxTarget.prop
    IN  IF NoTrap(trap)
        THEN <<IF p.t = "acc" THEN p.g ELSE p.v>>
        ELSE IF \/ p.t = "data" /\ ~p.c /\ ~p.w /\ p.v # trap[1]
                \/ p.t = "acc" /\ ~p.c /\ p.g = Undefined /\ trap[1] # Undefined
        THEN Throw
        ELSE trap

\* the answer when the target itself does it
TargetSets == IF ~Exists THEN pxTarget.ext
              ELSE IF pxTarget.prop.t = "acc" THEN pxTarget.prop.s # Undefined
              ELSE pxTarget.prop.w

js_proxy_set(trap, v) ==
    LET p == pxTarget.prop
    IN  IF NoTrap(trap) THEN <<TargetSets>>
        ELSE IF /\ trap[1]
                /\ \/ p.t = "data" /\ ~p.c /\ ~p.w /\ p.v # v
                   \/ p.t = "acc" /\ ~p.c /\ p.s = Undefined
        THEN Throw
        ELSE trap

\* the flags of a property against those of a definition
check_define_prop_flags(f, d) ==
    f.c \/ /\ ~("c" \in d.has /\ d.p.c)
           /\ "e" \in d.has => d.p.e = f.e
           /\ d.has \cap {"v", "w", "g", "s"} # {} =>
                /\ IsAccessor(d) = (f.t = "acc")
                /\ ~IsAccessor(d) /\ ~f.w => ~("w" \in d.has /\ d.p.w)

\* the trap answers undefined with Absent
js_proxy_get_own_property(trap) ==
    LET p == pxTarget.prop
        r == trap[1]
        flags1 == [has |-> IF r.t = "acc" THEN AllAcc ELSE AllData, p |-> r]
    IN  IF NoTrap(trap) THEN <<p>>
        ELSE IF r.t = "none"
        THEN IF Exists /\ (~p.c \/ ~ExtensibleField) THEN Throw ELSE trap
        ELSE IF \/ Exists /\ ~check_define_prop_flags(p, flags1)
                \/ ~Exists /\ ~pxTarget.ext
                \/ ~r.c /\ (~Exists \/ p.c)
                \/ ~r.c /\ r.t = "data" /\ ~r.w /\ Exists /\ p.w
        THEN Throw
        ELSE trap

SettingNotConfigurable(d) == "c" \in d.has /\ ~d.p.c

\* As a mutant: a property that stays configurable may be reported frozen
AcceptsFrozen(trap, d) ==
    IF NoTrap(trap) THEN <<MayDefine(pxTarget, d)>>
    ELSE IF ~trap[1] THEN No
    ELSE IF ~Exists /\ ~ExtensibleField THEN Throw
    ELSE IF Exists /\ ~check_define_prop_flags(pxTarget.prop, d) THEN Throw
    ELSE Yes

js_proxy_define_own_property(trap, d) ==
    LET p == pxTarget.prop
    IN  IF NoTrap(trap) THEN <<MayDefine(pxTarget, d)>>
        ELSE IF ~trap[1] THEN No
        ELSE IF ~Exists
        THEN IF ~ExtensibleField \/ SettingNotConfigurable(d) THEN Throw ELSE Yes
        ELSE IF \/ ~check_define_prop_flags(p, d)
                \/ p.c /\ SettingNotConfigurable(d)
                \/ /\ IsAccessor(d) /\ p.t = "acc" /\ ~p.c
                   /\ \/ "g" \in d.has /\ d.p.g # p.g
                      \/ "s" \in d.has /\ d.p.s # p.s
                \/ /\ ~IsAccessor(d) /\ "v" \in d.has
                   /\ \/ ~p.c /\ p.w /\ ~d.p.w
                      \/ ~p.c /\ ~p.w /\ d.p.v # p.v
                \/ "w" \in d.has /\ p.t = "data" /\ ~p.c /\ p.w
        THEN Throw
        ELSE Yes

js_proxy_delete_property(trap) ==
    IF NoTrap(trap) THEN <<~Exists \/ pxTarget.prop.c>>
    ELSE IF trap[1] /\ Exists /\ (~pxTarget.prop.c \/ ~pxTarget.ext) THEN Throw
    ELSE trap

\* the trap answers a sequence of keys; "a" is the property, "z" none of the target's
js_proxy_get_own_property_names(trap) ==
    LET keys == {trap[1][i] : i \in DOMAIN trap[1]}
    IN  IF NoTrap(trap) THEN <<IF Exists THEN <<"a">> ELSE <<>>>>
        ELSE IF \/ Cardinality(keys) # Len(trap[1])
                \/ Exists /\ (~pxTarget.prop.c \/ ~pxTarget.ext) /\ "a" \notin keys
                \/ ~pxTarget.ext /\ \E k \in keys : k # "a" \/ ~Exists
        THEN Throw
        ELSE trap

-----------------------------------------------------------------------------
(* The calls a program makes, and what it may rely on afterwards.          *)

Frozen == pxSeen.prop.t # "none"
ReadOnly == pxSeen.prop.t = "data" /\ ~pxSeen.prop.w
KnownAbsent == pxSeen.absent /\ ~pxTarget.nested

Checked(ok) == pxVerdict' = IF ok THEN "consistent" ELSE "contradicted"
Learns(seen) == pxSeen' = seen
LearnsValue(x) == Learns(IF ReadOnly THEN [pxSeen EXCEPT !.prop.v = x] ELSE pxSeen)
TrapAnswers(S) == {<<>>} \cup {<<x>> : x \in S}

PxGetPrototypeOf(trap) ==
    LET r == js_proxy_getPrototypeOf(trap)
    IN  /\ Checked(r = Throw \/ pxSeen.proto \in {NotSeen, r[1]})
        /\ Learns(IF r # Throw /\ ~pxSeen.ext THEN [pxSeen EXCEPT !.proto = r[1]] ELSE pxSeen)
        /\ UNCHANGED pxTarget

PxSetPrototypeOf(trap, proto) ==
    LET r == js_proxy_setPrototypeOf(trap, proto)
    IN  /\ Checked(r = Yes => pxSeen.proto \in {NotSeen, proto})
        /\ pxTarget' = IF NoTrap(trap) /\ r = Yes THEN [pxTarget EXCEPT !.proto = proto]
                       ELSE pxTarget
        /\ Learns(pxSeen)

PxIsExtensible(trap) ==
    LET r == js_proxy_isExtensible(trap)
    IN  /\ Checked(r = Yes => pxSeen.ext)
        /\ Learns([pxSeen EXCEPT !.ext = @ /\ r # No])
        /\ UNCHANGED pxTarget

PxPreventExtensions(trap) ==
    LET r == js_proxy_preventExtensions(trap)
    IN  /\ Checked(TRUE)
        /\ Learns([pxSeen EXCEPT !.ext = @ /\ r # Yes])
        /\ pxTarget' = IF NoTrap(trap) THEN [pxTarget EXCEPT !.ext = FALSE] ELSE pxTarget

PxHas(trap) ==
    LET r == js_proxy_has(trap)
    IN  /\ Checked(r = No => ~Frozen)
        /\ Learns(pxSeen) /\ UNCHANGED pxTarget

PxGet(trap) ==
    LET r == js_proxy_get(trap)
        p == pxSeen.prop
    IN  /\ Checked(r # Throw => /\ ReadOnly => p.v \in {NotSeen, r[1]}
                                /\ p.t = "acc" /\ p.g = Undefined => r[1] = Undefined)
        /\ IF r = Throw THEN Learns(pxSeen) ELSE LearnsValue(r[1])
        /\ UNCHANGED pxTarget

PxSet(trap, v) ==
    LET r == js_proxy_set(trap, v)
        p == pxSeen.prop
        q == pxTarget.prop
        new == IF Exists THEN Prop("data", v, Undefined, Undefined, q.w, q.e, q.c)
               ELSE Prop("data", v, Undefined, Undefined, TRUE, TRUE, TRUE)
    IN  /\ Checked(r = Yes => /\ ReadOnly => p.v \in {NotSeen, v}
                              /\ p.t = "acc" => p.s # Undefined)
        /\ pxTarget' = IF NoTrap(trap) /\ r = Yes /\ pxTarget.prop.t # "acc"
                       THEN [pxTarget EXCEPT !.prop = new] ELSE pxTarget
        /\ IF r = Yes THEN LearnsValue(v) ELSE Learns(pxSeen)

\* what may follow a property seen as not configurable: its attributes, and
\* what is known of its value and accessors
SameAttributes(p, q) == q.t = p.t /\ q.e = p.e /\ q.c = p.c /\ (q.w => p.w)
Agrees(p, q) ==
    /\ SameAttributes(p, q)
    /\ p.t = "data" /\ ~p.w => p.v \in {NotSeen, q.v}
    /\ p.t = "acc" => p.g \in {NotSeen, q.g} /\ p.s \in {NotSeen, q.s}

\* a descriptor from a trap tells the attributes only
SeenAfter(trap, q) ==
    IF NoTrap(trap) THEN q
    ELSE IF Frozen /\ pxSeen.prop.w = q.w THEN pxSeen.prop
    ELSE [q EXCEPT !.v = NotSeen, !.g = NotSeen, !.s = NotSeen]

PxGetOwnProperty(trap) ==
    LET r == js_proxy_get_own_property(trap)
    IN  /\ Checked(r # Throw => /\ Frozen => SameAttributes(pxSeen.prop, r[1])
                                /\ Frozen /\ NoTrap(trap) => Agrees(pxSeen.prop, r[1])
                                /\ KnownAbsent => r[1] = Absent)
        /\ Learns(IF r = Throw THEN pxSeen
                  ELSE IF r[1] = Absent THEN [pxSeen EXCEPT !.absent = @ \/ ~pxSeen.ext]
                  ELSE IF ~r[1].c THEN [pxSeen EXCEPT !.prop = SeenAfter(trap, r[1])]
                  ELSE pxSeen)
        /\ UNCHANGED pxTarget

PxDefineOwnProperty(trap, d) ==
    LET r == js_proxy_define_own_property(trap, d)
    IN  /\ Checked(r = Yes => /\ Frozen => Agrees(pxSeen.prop, Defined(pxSeen.prop, d))
                              /\ ~KnownAbsent)
        /\ pxTarget' = IF NoTrap(trap) /\ r = Yes THEN [pxTarget EXCEPT !.prop = Defined(@, d)]
                       ELSE pxTarget
        /\ Learns(IF r = Yes /\ SettingNotConfigurable(d) /\ d.has \in {AllData, AllAcc}
                  THEN [pxSeen EXCEPT !.prop = d.p] ELSE pxSeen)

PxDelete(trap) ==
    LET r == js_proxy_delete_property(trap)
    IN  /\ Checked(r = Yes => ~Frozen)
        /\ pxTarget' = IF NoTrap(trap) /\ r = Yes THEN [pxTarget EXCEPT !.prop = Absent]
                       ELSE pxTarget
        /\ Learns([pxSeen EXCEPT !.absent = @ \/ (r = Yes /\ ~pxSeen.ext)])

PxOwnKeys(trap) ==
    LET r == js_proxy_get_own_property_names(trap)
        keys == {r[1][i] : i \in DOMAIN r[1]}
    IN  /\ Checked(r # Throw => /\ Cardinality(keys) = Len(r[1])
                                /\ Frozen => "a" \in keys
                                /\ KnownAbsent => "a" \notin keys
                                /\ ~pxSeen.ext => "z" \notin keys)
        /\ Learns(IF r # Throw /\ ~pxSeen.ext /\ "a" \notin keys
                  THEN [pxSeen EXCEPT !.absent = TRUE] ELSE pxSeen)
        /\ UNCHANGED pxTarget

\* get_proxy_method: a revoked proxy throws before it looks at the handler
PxCall ==
    /\ ~pxRevoked /\ UNCHANGED pxRevoked
    /\ \/ \E t \in TrapAnswers(Protos) : PxGetPrototypeOf(t)
       \/ \E t \in TrapAnswers(BOOLEAN), p \in Protos : PxSetPrototypeOf(t, p)
       \/ \E t \in TrapAnswers(BOOLEAN) : PxIsExtensible(t)
       \/ \E t \in TrapAnswers(BOOLEAN) : PxPreventExtensions(t)
       \/ \E t \in TrapAnswers(BOOLEAN) : PxHas(t)
       \/ \E t \in TrapAnswers(Values) : PxGet(t)
       \/ \E t \in TrapAnswers(BOOLEAN), v \in Values : PxSet(t, v)
       \/ \E t \in TrapAnswers({Absent} \cup Props) : PxGetOwnProperty(t)
       \/ \E t \in TrapAnswers(BOOLEAN), d \in Descs : PxDefineOwnProperty(t, d)
       \/ \E t \in TrapAnswers(BOOLEAN) : PxDelete(t)
       \/ \E t \in TrapAnswers({<<>>, <<"a">>, <<"z">>, <<"a", "z">>, <<"a", "a">>}) : PxOwnKeys(t)

js_proxy_revoke == ~pxRevoked /\ pxRevoked' = TRUE /\ UNCHANGED <<pxTarget, pxSeen, pxVerdict>>

PxInit ==
    /\ pxTarget \in [prop : {Absent}, ext : {TRUE}, proto : Protos, nested : BOOLEAN]
    /\ pxRevoked = FALSE
    /\ pxSeen = [prop |-> Absent, absent |-> FALSE, ext |-> TRUE, proto |-> NotSeen]
    /\ pxVerdict = "consistent"

PxNext ==
    \/ PxTargetDefined \/ PxTargetDeleted \/ PxTargetClosed \/ PxTargetProto
    \/ PxCall \/ js_proxy_revoke

PxSpec == PxInit /\ [][PxNext]_pxVars

-----------------------------------------------------------------------------
\* Whatever a handler answers, these stay true.  A property once reported as
\* not configurable is reported again with the same attributes and can be
\* neither denied nor deleted; if it is not writable every read gives the same
\* value, and a set of another value fails.  A proxy once reported as not
\* extensible keeps its prototype and, if it holds an ordinary object, gains
\* no property.  Not said: that the value or the accessors in a descriptor
\* from a trap are the property's (js_proxy_get_own_property does not compare
\* them), and absence when the proxy holds another proxy (js_proxy_has,
\* js_proxy_get_own_property and js_proxy_define_own_property read the
\* extensible field of that proxy, which is never cleared).
ProxyConsistent == pxVerdict = "consistent"

\* What a program has learned through the proxy is true of the target.
SeenOfTarget ==
    /\ ~pxSeen.ext => ~pxTarget.ext
    /\ pxSeen.proto # NotSeen => pxTarget.proto = pxSeen.proto
    /\ KnownAbsent => ~Exists
    /\ Frozen => Agrees(pxSeen.prop, pxTarget.prop)
=============================================================================
