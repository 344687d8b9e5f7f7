--------------------------- MODULE ProxiesProofs ---------------------------
(***************************************************************************)
(* Whatever its handler answers, a proxy does not contradict what it let a *)
(* program learn: ProxyConsistent for every set of values, accessors and   *)
(* prototypes, over an ordinary object or over a second proxy of one.      *)
(***************************************************************************)
EXTENDS Proxies, FiniteSetTheorems, TLAPS

SomeProp == Props \cup {Absent}

\* Of a property that was seen, the value and the accessors may be unknown.
SeenProps == [t : {"none", "data", "acc"}, v : Values \cup {NotSeen}, g : Fns \cup {NotSeen},
              s : Fns \cup {NotSeen}, w : BOOLEAN, e : BOOLEAN, c : BOOLEAN]

TargetRecords == [prop : SomeProp, ext : BOOLEAN, proto : Protos, nested : BOOLEAN]
SeenRecords == [prop : SeenProps, absent : BOOLEAN, ext : BOOLEAN, proto : Protos \cup {NotSeen}]

\* The kinds of the variables; what was seen of the property is frozen.
PxTypeOK ==
    /\ pxTarget \in TargetRecords
    /\ pxSeen \in SeenRecords
    /\ Frozen => ~pxSeen.prop.c
    /\ pxSeen.absent => ~pxSeen.ext
    /\ pxSeen.proto # NotSeen => ~pxSeen.ext

PxInv == PxTypeOK /\ SeenOfTarget /\ ProxyConsistent

\* The fields of a descriptor are of their kinds, and not of both kinds.
DescOK(d) ==
    /\ d.p.v \in Values /\ d.p.g \in Fns /\ d.p.s \in Fns
    /\ d.p.w \in BOOLEAN /\ d.p.e \in BOOLEAN /\ d.p.c \in BOOLEAN
    /\ IsAccessor(d) => "v" \notin d.has /\ "w" \notin d.has
    /\ ~IsAccessor(d) => "g" \notin d.has /\ "s" \notin d.has

\* Every descriptor of defineProperty is well formed.
LEMMA DescType ==
    ASSUME NEW d \in Descs
    PROVE  DescOK(d)
  <1> USE FnsAssumption DEF Desc, Prop, DataProps, AccProps, Values, IsAccessor, DescOK
  <1>1. ASSUME NEW p \in DataProps, d = Desc(AllData, p) PROVE DescOK(d)
    BY <1>1 DEF AllData
  <1>2. ASSUME NEW p \in AccProps, d = Desc(AllAcc, p) PROVE DescOK(d)
    BY ZenonT(40), <1>2 DEF AllAcc
  <1>3. ASSUME NEW x \in Values,
               d = Desc({"v"}, Prop("data", x, Undefined, Undefined, FALSE, FALSE, FALSE))
        PROVE  DescOK(d)
    BY ZenonT(40), <1>3
  <1>4. ASSUME NEW b \in BOOLEAN,
               d = Desc({"w"}, Prop("data", Undefined, Undefined, Undefined, b, FALSE, FALSE))
        PROVE  DescOK(d)
    BY ZenonT(40), <1>4
  <1>5. ASSUME NEW b \in BOOLEAN,
               d = Desc({"c"}, Prop("data", Undefined, Undefined, Undefined, FALSE, FALSE, b))
        PROVE  DescOK(d)
    BY ZenonT(40), <1>5
  <1>6. ASSUME NEW f \in Fns,
               d = Desc({"g"}, Prop("acc", Undefined, f, Undefined, FALSE, FALSE, FALSE))
        PROVE  DescOK(d)
    BY ZenonT(40), <1>6
  <1> QED BY ZenonT(40), <1>1, <1>2, <1>3, <1>4, <1>5, <1>6 DEF Descs

\* The fields of a property are of their kinds.
PropOK(p) ==
    /\ p.w \in BOOLEAN /\ p.e \in BOOLEAN /\ p.c \in BOOLEAN
    /\ \/ p.t = "none" /\ p = Absent
       \/ p.t = "data" /\ p.v \in Values /\ p.g = Undefined /\ p.s = Undefined
       \/ p.t = "acc" /\ p.v = Undefined /\ p.g \in Fns /\ p.s \in Fns /\ p.w = FALSE

\* A property of the target or one seen is well formed.
LEMMA PropType ==
    ASSUME NEW p \in SomeProp
    PROVE  PropOK(p)
  <1>1. CASE p \in DataProps
    BY <1>1 DEF DataProps, PropOK
  <1>2. CASE p \in AccProps
    BY ZenonT(40), <1>2 DEF AccProps, PropOK
  <1>3. CASE p = Absent
    BY <1>3 DEF Absent, Prop, PropOK
  <1> QED BY <1>1, <1>2, <1>3 DEF SomeProp, Props

\* A well-formed record is a property.
LEMMA PropMade ==
    ASSUME NEW q, q = Prop(q.t, q.v, q.g, q.s, q.w, q.e, q.c),
           q.w \in BOOLEAN, q.e \in BOOLEAN, q.c \in BOOLEAN,
           \/ q.t = "data" /\ q.v \in Values /\ q.g = Undefined /\ q.s = Undefined
           \/ q.t = "acc" /\ q.v = Undefined /\ q.g \in Fns /\ q.s \in Fns /\ q.w = FALSE
    PROVE  q \in SomeProp
  BY ZenonT(40) DEF SomeProp, Props, DataProps, AccProps, Prop

\* A definition that the target accepts leaves what was seen true: a frozen
\* property keeps what is frozen of it, and no absent property appears in a
\* target that is not extensible.
LEMMA DefinitionKeepsSeen ==
    ASSUME PxTypeOK, SeenOfTarget, NEW d \in Descs, MayDefine(pxTarget, d)
    PROVE  /\ Defined(pxTarget.prop, d) \in SomeProp /\ Defined(pxTarget.prop, d).t # "none"
           /\ Frozen => Agrees(pxSeen.prop, Defined(pxTarget.prop, d))
           /\ ~KnownAbsent
  <1> DEFINE p == pxTarget.prop
             q == Defined(p, d)
  <1>0. p \in SomeProp /\ pxTarget.ext \in BOOLEAN
    BY DEF PxTypeOK, TargetRecords
  <1>1. DescOK(d) /\ PropOK(p)
    BY SMTT(30), <1>0, DescType, PropType
  <1>2. q \in SomeProp /\ q.t # "none"
    <2> USE DEF Defined, Prop
    <2>1. q = Prop(q.t, q.v, q.g, q.s, q.w, q.e, q.c)
      OBVIOUS
    <2>2. p.w \in BOOLEAN /\ p.e \in BOOLEAN /\ p.c \in BOOLEAN /\ p.v \in Values
          /\ p.g \in Fns /\ p.s \in Fns /\ (p.t = "acc" => p.w = FALSE /\ p.v = Undefined)
          /\ (p.t = "data" => p.g = Undefined /\ p.s = Undefined)
          /\ p.t \in {"none", "data", "acc"}
      BY <1>1, FnsAssumption DEF PropOK, Absent, Values
    <2>3. q.w \in BOOLEAN /\ q.e \in BOOLEAN /\ q.c \in BOOLEAN
      <3>1. q.e \in BOOLEAN /\ q.c \in BOOLEAN
        BY <1>1, <2>2, SMTT(30) DEF DescOK
      <3>2. q.w \in BOOLEAN
        <4>1. \/ q.w = d.p.w \/ q.w = p.w \/ q.w = FALSE
          BY ZenonT(40)
        <4> HIDE DEF q, Defined
        <4> QED BY ZenonT(40), <1>1, <2>2, <4>1 DEF DescOK
      <3> QED BY ZenonT(40), <3>1, <3>2
    <2>4. CASE IsAccessor(d)
      <3>1. q.t = "acc" /\ q.v = Undefined /\ q.w = FALSE
        BY <1>1, <2>2, <2>4 DEF DescOK
      <3>2. q.g \in Fns /\ q.s \in Fns
        BY <1>1, <2>2, <2>4, FnsAssumption DEF DescOK
      <3> HIDE DEF q, Defined, Prop
      <3> QED BY ZenonT(40), <2>1, <2>3, <3>1, <3>2, PropMade
    <2>5. CASE ~IsAccessor(d) /\ (d.has \cap {"v", "w"} # {} \/ p.t = "none")
      <3>1. q.t = "data" /\ q.g = Undefined /\ q.s = Undefined
        BY <1>1, <2>2, <2>5 DEF DescOK
      <3>2. q.v \in Values
        BY <1>1, <2>2, <2>5 DEF DescOK, Values
      <3> HIDE DEF q, Defined, Prop
      <3> QED BY ZenonT(40), <2>1, <2>3, <3>1, <3>2, PropMade
    <2>6. CASE ~IsAccessor(d) /\ d.has \cap {"v", "w"} = {} /\ p.t # "none"
      <3>1. q.t = p.t /\ q.v = p.v /\ q.g = p.g /\ q.s = p.s /\ q.w = p.w
        BY ZenonT(40), <1>1, <2>2, <2>6 DEF DescOK
      <3> HIDE DEF q, Defined, Prop
      <3> QED BY ZenonT(40), <2>1, <2>2, <2>3, <2>6, <3>1, PropMade
    <2> HIDE DEF q, p, Defined, Prop, IsAccessor
    <2> QED BY ZenonT(40), <2>4, <2>5, <2>6
  <1>3. ASSUME Frozen PROVE Agrees(pxSeen.prop, q)
    <2>1. Agrees(pxSeen.prop, p) /\ ~pxSeen.prop.c
      BY <1>3 DEF SeenOfTarget, PxTypeOK
    <2>2. p.t # "none" /\ ~p.c
      BY <1>3, <2>1 DEF Agrees, SameAttributes, Frozen
    <2>3. q = p \/ (p.t = "data" /\ p.w /\ q.t = "data" /\ q.e = p.e /\ ~q.c)
      BY <2>2 DEF MayDefine
    <2>4. q.c \in BOOLEAN /\ pxSeen.prop.c \in BOOLEAN
      <3>1. pxSeen.prop.c \in BOOLEAN
        BY DEF PxTypeOK, SeenRecords, SeenProps
      <3> QED BY ZenonT(40), <1>2, <3>1, PropType DEF PropOK
    <2> HIDE DEF q
    <2> QED BY <2>1, <2>3, <2>4 DEF Agrees, SameAttributes
  <1>4. ~KnownAbsent
    BY DEF PxTypeOK, SeenOfTarget, MayDefine, Exists, KnownAbsent
  <1> QED BY <1>2, <1>3, <1>4

\* What is known before a step.
LEMMA Known ==
    ASSUME PxInv
    PROVE  /\ pxTarget.prop \in SomeProp /\ PropOK(pxTarget.prop)
           /\ pxTarget.ext \in BOOLEAN /\ pxTarget.proto \in Protos /\ pxTarget.nested \in BOOLEAN
           /\ pxSeen.prop \in SeenProps
           /\ pxSeen.ext \in BOOLEAN /\ pxSeen.absent \in BOOLEAN
           /\ pxSeen.proto \in Protos \cup {NotSeen}
  BY PropType DEF PxInv, PxTypeOK, TargetRecords, SeenRecords

\* What was seen frozen is so of the target, as far as it is known.
LEMMA FrozenOfTarget ==
    ASSUME PxInv, Frozen
    PROVE  LET p == pxSeen.prop
               q == pxTarget.prop
           IN  /\ Exists /\ q.t = p.t /\ q.e = p.e /\ q.c = FALSE /\ p.c = FALSE
               /\ p.t \in {"data", "acc"} /\ p.w \in BOOLEAN /\ q.w \in BOOLEAN
               /\ q.w => p.w
               /\ p.t = "data" /\ ~p.w => p.v \in {NotSeen, q.v}
               /\ p.t = "acc" => p.g \in {NotSeen, q.g} /\ p.s \in {NotSeen, q.s}
  <1>1. Agrees(pxSeen.prop, pxTarget.prop) /\ ~pxSeen.prop.c
    BY DEF PxInv, PxTypeOK, SeenOfTarget
  <1>2. /\ pxSeen.prop.c \in BOOLEAN /\ pxSeen.prop.w \in BOOLEAN
        /\ pxSeen.prop.t \in {"none", "data", "acc"}
    BY Known DEF SeenProps
  <1>3. pxTarget.prop.w \in BOOLEAN /\ pxTarget.prop.c \in BOOLEAN
    BY Known DEF PropOK
  <1> QED BY <1>1, <1>2, <1>3 DEF Agrees, SameAttributes, Frozen, Exists

\* Steps of the code that owns the target keep what was seen.
LEMMA TargetSteps ==
    ASSUME PxInv, PxTargetDefined \/ PxTargetDeleted \/ PxTargetClosed \/ PxTargetProto
    PROVE  PxInv'
  <1> USE Known
  <1>1. CASE PxTargetDefined
    <2>1. PICK d \in Descs : /\ MayDefine(pxTarget, d)
                             /\ pxTarget' = [pxTarget EXCEPT !.prop = Defined(@, d)]
      BY <1>1 DEF PxTargetDefined
    <2>2. pxSeen' = pxSeen /\ pxVerdict' = pxVerdict
      BY <1>1 DEF PxTargetDefined
    <2>3. /\ Defined(pxTarget.prop, d) \in SomeProp /\ Defined(pxTarget.prop, d).t # "none"
          /\ Frozen => Agrees(pxSeen.prop, Defined(pxTarget.prop, d))
          /\ ~KnownAbsent
      BY <2>1, DefinitionKeepsSeen DEF PxInv
    <2>4. /\ pxTarget'.prop = Defined(pxTarget.prop, d) /\ pxTarget'.ext = pxTarget.ext
          /\ pxTarget'.proto = pxTarget.proto
          /\ pxTarget' \in TargetRecords /\ pxTarget'.nested = pxTarget.nested
      BY <2>1, <2>3 DEF PxInv, PxTypeOK, TargetRecords
    <2> QED BY <2>2, <2>3, <2>4 DEF PxInv, PxTypeOK, SeenOfTarget, ProxyConsistent, Frozen, Exists, KnownAbsent
  <1>2. CASE PxTargetDeleted
    <2>1. /\ pxTarget'.prop = Absent /\ pxTarget'.ext = pxTarget.ext /\ pxTarget'.proto = pxTarget.proto
          /\ pxTarget' \in TargetRecords /\ pxTarget'.nested = pxTarget.nested
          /\ pxSeen' = pxSeen /\ pxVerdict' = pxVerdict /\ pxTarget.prop.c
      BY <1>2 DEF PxTargetDeleted, PxInv, PxTypeOK, TargetRecords, SomeProp
    <2>2. ~Frozen
      BY ZenonT(40), <2>1 DEF PxInv, PxTypeOK, SeenOfTarget, Agrees, SameAttributes
    <2>3. Absent.t = "none"
      BY DEF Absent, Prop
    <2> QED BY <2>1, <2>2, <2>3 DEF PxInv, PxTypeOK, SeenOfTarget, ProxyConsistent, Frozen, Exists, KnownAbsent
  <1>3. CASE PxTargetClosed
    <2>1. /\ pxTarget'.prop = pxTarget.prop /\ pxTarget'.proto = pxTarget.proto /\ pxTarget'.ext = FALSE
          /\ pxTarget' \in TargetRecords /\ pxTarget'.nested = pxTarget.nested
          /\ pxSeen' = pxSeen /\ pxVerdict' = pxVerdict
      BY ZenonT(40), <1>3 DEF PxTargetClosed, PxInv, PxTypeOK, TargetRecords
    <2> QED BY ZenonT(40), <2>1
            DEF PxInv, PxTypeOK, SeenOfTarget, ProxyConsistent, Frozen, Exists, KnownAbsent
  <1>4. CASE PxTargetProto
    <2>1. PICK p \in Protos : pxTarget' = [pxTarget EXCEPT !.proto = p]
      BY <1>4 DEF PxTargetProto
    <2>2. /\ pxTarget'.prop = pxTarget.prop /\ pxTarget'.ext = pxTarget.ext
          /\ pxTarget' \in TargetRecords /\ pxTarget'.nested = pxTarget.nested
          /\ pxSeen' = pxSeen /\ pxVerdict' = pxVerdict /\ pxTarget.ext
      BY ZenonT(40), <1>4, <2>1 DEF PxTargetProto, PxInv, PxTypeOK, TargetRecords
    <2>3. pxSeen.proto = NotSeen
      BY <2>2 DEF PxInv, PxTypeOK, SeenOfTarget
    <2> QED BY <2>2, <2>3 DEF PxInv, PxTypeOK, SeenOfTarget, ProxyConsistent, Frozen, Exists, KnownAbsent
  <1> QED BY <1>1, <1>2, <1>3, <1>4

\* The answers of a trap that answers yes or no.
LEMMA YesOrNo ==
    ASSUME NEW t \in TrapAnswers(BOOLEAN)
    PROVE  t = <<>> \/ (t = Yes /\ t[1] = TRUE) \/ (t = No /\ t[1] = FALSE)
  <1>1. t = <<>> \/ \E x \in BOOLEAN : t = <<x>>
    BY Zenon DEF TrapAnswers
  <1>2. t = <<>> \/ t = <<TRUE>> \/ t = <<FALSE>>
    BY <1>1, Zenon
  <1>3. <<TRUE>>[1] = TRUE /\ <<FALSE>>[1] = FALSE
    OBVIOUS
  <1> QED BY <1>2, <1>3, Zenon DEF Yes, No

\* The two answers differ, and both differ from no answer yet.
LEMMA YesIsNotNo == Yes # No /\ Yes # <<>> /\ No # <<>>
  <1>1. Yes[1] = TRUE /\ No[1] = FALSE
    BY DEF Yes, No
  <1>2. Yes # <<>> /\ No # <<>>
    BY DEF Yes, No
  <1> QED BY <1>1, <1>2, Zenon

\* What the checks of the boolean answers leave through.
LEMMA BooleanAnswers ==
    ASSUME pxTarget.ext \in BOOLEAN, NEW t \in TrapAnswers(BOOLEAN), NEW p \in Protos
    PROVE  /\ js_proxy_setPrototypeOf(t, p) = Yes => pxTarget.ext \/ p = pxTarget.proto
           /\ js_proxy_isExtensible(t) = Yes => pxTarget.ext
           /\ js_proxy_isExtensible(t) = No => ~pxTarget.ext
           /\ js_proxy_preventExtensions(t) = Yes => t = <<>> \/ ~pxTarget.ext
  <1> USE YesIsNotNo DEF js_proxy_setPrototypeOf, js_proxy_isExtensible, js_proxy_preventExtensions,
                         NoTrap, Throw
  <1>0. pxTarget.ext = TRUE \/ pxTarget.ext = FALSE
    OBVIOUS
  <1>1. CASE t = <<>>
    <2>1. ASSUME NEW b \in BOOLEAN PROVE (<<b>> = Yes => b) /\ (<<b>> = No => ~b)
      BY ZenonT(40) DEF Yes, No
    <2>2. (pxTarget.ext \/ p = pxTarget.proto) \in BOOLEAN
      OBVIOUS
    <2>3. <<pxTarget.ext \/ p = pxTarget.proto>> = Yes => pxTarget.ext \/ p = pxTarget.proto
      BY <2>1, <2>2, Zenon
    <2> QED BY <1>1, <2>1, <2>3, Zenon
  <1>2. CASE t = Yes /\ t[1] = TRUE
    BY <1>0, <1>2, Zenon
  <1>3. CASE t = No /\ t[1] = FALSE
    BY <1>0, <1>3, Zenon
  <1> QED BY ZenonT(40), <1>1, <1>2, <1>3, YesOrNo

\* Calls that neither change the target nor teach anything.
LEMMA QuietCalls ==
    ASSUME PxInv, pxTarget' = pxTarget, pxSeen' = pxSeen, pxVerdict' = "consistent"
    PROVE  PxInv'
  BY DEF PxInv, PxTypeOK, SeenOfTarget, ProxyConsistent, Frozen, Exists, KnownAbsent, Agrees, SameAttributes

\* Calls about the prototype and about extensibility.
LEMMA ObjectCalls ==
    ASSUME PxInv,
           \/ \E t \in TrapAnswers(Protos) : PxGetPrototypeOf(t)
           \/ \E t \in TrapAnswers(BOOLEAN), p \in Protos : PxSetPrototypeOf(t, p)
           \/ \E t \in TrapAnswers(BOOLEAN) : PxIsExtensible(t)
           \/ \E t \in TrapAnswers(BOOLEAN) : PxPreventExtensions(t)
    PROVE  PxInv'
  <1> USE Known, ProtosAssumption DEF Throw, Yes, No, NoTrap
  <1>1. ASSUME NEW t \in TrapAnswers(Protos), PxGetPrototypeOf(t) PROVE PxInv'
    <2> DEFINE r == js_proxy_getPrototypeOf(t)
    <2>1. r = <<>> \/ (r = <<r[1]>> /\ r[1] \in Protos /\ (~pxTarget.ext => r[1] = pxTarget.proto))
      BY DEF js_proxy_getPrototypeOf, TrapAnswers
    <2>2. pxTarget' = pxTarget
      BY <1>1 DEF PxGetPrototypeOf
    <2>3. pxVerdict' = "consistent"
      BY <1>1, <2>1 DEF PxGetPrototypeOf, Checked, PxInv, PxTypeOK, SeenOfTarget
    <2>4. CASE r = <<>> \/ pxSeen.ext
      BY SMTT(30), <1>1, <2>2, <2>3, <2>4, QuietCalls DEF PxGetPrototypeOf, Learns
    <2>5. CASE r # <<>> /\ ~pxSeen.ext
      <3>1. pxSeen' = [pxSeen EXCEPT !.proto = r[1]]
        BY <1>1, <2>5 DEF PxGetPrototypeOf, Learns
      <3>2. r[1] = pxTarget.proto
        BY <2>1, <2>5 DEF PxInv, SeenOfTarget
      <3> HIDE DEF r
      <3>3. /\ pxSeen'.prop = pxSeen.prop /\ pxSeen'.ext = pxSeen.ext /\ pxSeen'.absent = pxSeen.absent
            /\ pxSeen'.proto = pxTarget.proto
            /\ pxSeen' \in SeenRecords
        BY <3>1, <3>2 DEF PxInv, PxTypeOK, SeenRecords
      <3> QED BY <2>2, <2>3, <2>5, <3>3 DEF PxInv, PxTypeOK, SeenOfTarget, ProxyConsistent, Frozen, Exists, KnownAbsent, Agrees, SameAttributes
    <2> QED BY <2>1, <2>4, <2>5
  <1>2. ASSUME NEW t \in TrapAnswers(BOOLEAN), NEW p \in Protos, PxSetPrototypeOf(t, p) PROVE PxInv'
    <2> DEFINE r == js_proxy_setPrototypeOf(t, p)
    <2>1. r = <<TRUE>> => pxTarget.ext \/ p = pxTarget.proto
      BY ZenonT(40), BooleanAnswers
    <2>2. pxSeen' = pxSeen
      BY <1>2 DEF PxSetPrototypeOf, Learns
    <2>3. r = <<TRUE>> => pxSeen.proto \in {NotSeen, p}
      BY <2>1 DEF PxInv, PxTypeOK, SeenOfTarget
    <2>4. pxVerdict' = "consistent"
      BY ZenonT(40), <1>2, <2>3 DEF PxSetPrototypeOf, Checked
    <2>5. CASE pxTarget' = pxTarget
      BY <2>2, <2>4, <2>5, QuietCalls
    <2>6. CASE r = <<TRUE>> /\ pxTarget' = [pxTarget EXCEPT !.proto = p]
      <3> HIDE DEF r
      <3>1. /\ pxTarget'.prop = pxTarget.prop /\ pxTarget'.ext = pxTarget.ext /\ pxTarget'.proto = p
            /\ pxTarget' \in TargetRecords /\ pxTarget'.nested = pxTarget.nested
        BY <2>6 DEF PxInv, PxTypeOK, TargetRecords
      <3> QED BY <2>2, <2>3, <2>4, <2>6, <3>1
              DEF PxInv, PxTypeOK, SeenOfTarget, ProxyConsistent, Frozen, Exists, KnownAbsent, Agrees, SameAttributes
    <2> QED BY ZenonT(40), <1>2, <2>5, <2>6 DEF PxSetPrototypeOf
  <1>3. ASSUME NEW t \in TrapAnswers(BOOLEAN), PxIsExtensible(t) PROVE PxInv'
    <2> DEFINE r == js_proxy_isExtensible(t)
    <2>1. (r = <<TRUE>> => pxTarget.ext) /\ (r = <<FALSE>> => ~pxTarget.ext)
      BY ZenonT(40), BooleanAnswers
    <2>2. pxTarget' = pxTarget /\ pxSeen' = [pxSeen EXCEPT !.ext = @ /\ r # <<FALSE>>]
      BY <1>3 DEF PxIsExtensible, Learns
    <2>3. pxVerdict' = "consistent"
      BY ZenonT(40), <1>3, <2>1 DEF PxIsExtensible, Checked, PxInv, SeenOfTarget
    <2> HIDE DEF r
    <2>4. /\ pxSeen'.prop = pxSeen.prop /\ pxSeen'.proto = pxSeen.proto /\ pxSeen'.absent = pxSeen.absent
          /\ pxSeen'.ext = (pxSeen.ext /\ r # <<FALSE>>)
          /\ pxSeen' \in SeenRecords
      BY ZenonT(40), <2>2 DEF PxInv, PxTypeOK, SeenRecords
    <2> QED BY ZenonT(40), <2>1, <2>2, <2>3, <2>4
            DEF PxInv, PxTypeOK, SeenOfTarget, ProxyConsistent, Frozen, Exists, KnownAbsent, Agrees, SameAttributes
  <1>4. ASSUME NEW t \in TrapAnswers(BOOLEAN), PxPreventExtensions(t) PROVE PxInv'
    <2> DEFINE r == js_proxy_preventExtensions(t)
    <2>1. r = <<TRUE>> => t = <<>> \/ ~pxTarget.ext
      BY ZenonT(40), BooleanAnswers
    <2>2. pxSeen' = [pxSeen EXCEPT !.ext = @ /\ r # <<TRUE>>] /\ pxVerdict' = "consistent"
      BY <1>4 DEF PxPreventExtensions, Learns, Checked
    <2>3. pxTarget' = IF t = <<>> THEN [pxTarget EXCEPT !.ext = FALSE] ELSE pxTarget
      BY <1>4 DEF PxPreventExtensions
    <2> HIDE DEF r
    <2>4. /\ pxSeen'.prop = pxSeen.prop /\ pxSeen'.proto = pxSeen.proto /\ pxSeen'.absent = pxSeen.absent
          /\ pxSeen'.ext = (pxSeen.ext /\ r # <<TRUE>>)
          /\ pxSeen' \in SeenRecords
      BY ZenonT(40), <2>2 DEF PxInv, PxTypeOK, SeenRecords
    <2>5. /\ pxTarget'.prop = pxTarget.prop /\ pxTarget'.proto = pxTarget.proto
          /\ pxTarget'.ext = (pxTarget.ext /\ t # <<>>)
          /\ pxTarget' \in TargetRecords /\ pxTarget'.nested = pxTarget.nested
      BY ZenonT(40), <2>3 DEF PxInv, PxTypeOK, TargetRecords
    <2> QED BY ZenonT(40), <2>1, <2>2, <2>4, <2>5
            DEF PxInv, PxTypeOK, SeenOfTarget, ProxyConsistent, Frozen, Exists, KnownAbsent, Agrees, SameAttributes
  <1> QED BY <1>1, <1>2, <1>3, <1>4

\* The value of a property that was seen as read-only may be learned.
LEMMA ValueLearned ==
    ASSUME PxInv, ReadOnly, pxTarget' = pxTarget, pxVerdict' = "consistent",
           pxSeen' = [pxSeen EXCEPT !.prop.v = pxTarget.prop.v]
    PROVE  PxInv'
  <1> USE Known
  <1> DEFINE p == pxSeen.prop
             q == pxTarget.prop
  <1>1. /\ Frozen /\ q.t = p.t /\ q.e = p.e /\ q.c = FALSE /\ p.c = FALSE /\ p.t = "data"
        /\ q.w = FALSE /\ p.w = FALSE
    BY ZenonT(40), FrozenOfTarget DEF ReadOnly, Frozen
  <1>2. q.v \in Values
    BY <1>1 DEF PropOK
  <1>3. pxSeen \in SeenRecords
    BY DEF PxInv, PxTypeOK
  <1>4. /\ pxSeen'.prop = [p EXCEPT !.v = q.v] /\ pxSeen'.proto = pxSeen.proto
        /\ pxSeen'.ext = pxSeen.ext /\ pxSeen'.absent = pxSeen.absent
        /\ pxSeen' = [pxSeen EXCEPT !.prop = [p EXCEPT !.v = q.v]]
    BY <1>3 DEF SeenRecords
  <1>5. /\ [p EXCEPT !.v = q.v] \in SeenProps
        /\ [p EXCEPT !.v = q.v].t = p.t /\ [p EXCEPT !.v = q.v].e = p.e
        /\ [p EXCEPT !.v = q.v].c = p.c /\ [p EXCEPT !.v = q.v].w = p.w
        /\ [p EXCEPT !.v = q.v].v = q.v
    BY <1>2 DEF SeenProps
  <1>6. pxSeen' \in SeenRecords
    BY <1>3, <1>4, <1>5 DEF SeenRecords
  <1>7. Agrees(pxSeen'.prop, q)
    BY ZenonT(40), <1>1, <1>4, <1>5 DEF Agrees, SameAttributes
  <1> QED BY ZenonT(40), <1>1, <1>4, <1>5, <1>6, <1>7
          DEF PxInv, PxTypeOK, SeenOfTarget, ProxyConsistent, Frozen, Exists, KnownAbsent

\* Calls about the property that leave the target alone.
LEMMA ReadCalls ==
    ASSUME PxInv,
           \/ \E t \in TrapAnswers(BOOLEAN) : PxHas(t)
           \/ \E t \in TrapAnswers(Values) : PxGet(t)
    PROVE  PxInv'
  <1> USE Known
  <1>1. ASSUME NEW t \in TrapAnswers(BOOLEAN), PxHas(t) PROVE PxInv'
    <2>1. Frozen => Exists /\ ~pxTarget.prop.c
      BY DEF PxInv, PxTypeOK, SeenOfTarget, Agrees, SameAttributes, Exists, Frozen
    <2>2. js_proxy_has(t) = No => ~Frozen
      <3>0. ASSUME NEW b \in BOOLEAN PROVE <<b>> = No => ~b
        BY DEF No
      <3>1. CASE t = <<>>
        <4>1. js_proxy_has(t) = <<Exists>> /\ Exists \in BOOLEAN
          BY <3>1 DEF js_proxy_has, NoTrap, Exists
        <4> QED BY <2>1, <3>0, <4>1, Zenon
      <3>2. CASE t = Yes /\ t[1] = TRUE
        BY <3>2, YesIsNotNo, Zenon DEF js_proxy_has, NoTrap
      <3>3. CASE t = No /\ t[1] = FALSE
        BY <2>1, <3>3, YesIsNotNo, Zenon DEF js_proxy_has, NoTrap, Throw
      <3> QED BY ZenonT(40), <3>1, <3>2, <3>3, YesOrNo
    <2> QED BY <1>1, <2>2, QuietCalls, Zenon DEF PxHas, Checked, Learns
  <1>2. ASSUME NEW t \in TrapAnswers(Values), PxGet(t) PROVE PxInv'
    <2> DEFINE r == js_proxy_get(t)
               p == pxSeen.prop
               q == pxTarget.prop
    <2>1. t = <<>> \/ t = <<t[1]>>
      BY DEF TrapAnswers
    <2>2. Frozen => /\ q.t = p.t /\ q.c = FALSE
                    /\ ReadOnly => q.w = FALSE /\ p.v \in {NotSeen, q.v}
                    /\ p.t = "acc" => p.g \in {NotSeen, q.g}
      BY ZenonT(40), FrozenOfTarget DEF ReadOnly
    <2>3. ReadOnly => Frozen
      BY DEF ReadOnly, Frozen
    <2>4. r # <<>> => /\ ReadOnly => r[1] = q.v
                      /\ p.t = "acc" /\ p.g = Undefined => r[1] = Undefined
      <3>1. Undefined # NotSeen
        BY DEF Undefined, NotSeen
      <3> QED BY <2>1, <2>2, <2>3, <3>1 DEF js_proxy_get, NoTrap, Throw, ReadOnly, Frozen
    <2>5. pxTarget' = pxTarget /\ pxVerdict' = "consistent"
      BY <1>2, <2>2, <2>3, <2>4 DEF PxGet, Checked, Throw
    <2>6. CASE pxSeen' = pxSeen
      BY <2>5, <2>6, QuietCalls
    <2>7. CASE ReadOnly /\ pxSeen' = [pxSeen EXCEPT !.prop.v = q.v]
      BY <2>5, <2>7, ValueLearned
    <2>8. pxSeen' = pxSeen \/ (ReadOnly /\ pxSeen' = [pxSeen EXCEPT !.prop.v = q.v])
      BY <1>2, <2>4 DEF PxGet, Learns, LearnsValue, Throw
    <2> QED BY <2>6, <2>7, <2>8
  <1> QED BY <1>1, <1>2

\* A change of the target's property alone, after which what was seen is
\* still true of it.
LEMMA PropChanges ==
    ASSUME PxInv, NEW q \in SomeProp, pxTarget' = [pxTarget EXCEPT !.prop = q],
           pxSeen' = pxSeen, pxVerdict' = "consistent",
           KnownAbsent => q.t = "none",
           Frozen => Agrees(pxSeen.prop, q)
    PROVE  PxInv'
  <1>1. /\ pxTarget'.prop = q /\ pxTarget'.ext = pxTarget.ext /\ pxTarget'.proto = pxTarget.proto
        /\ pxTarget' \in TargetRecords /\ pxTarget'.nested = pxTarget.nested
    BY DEF PxInv, PxTypeOK, TargetRecords
  <1> QED BY <1>1 DEF PxInv, PxTypeOK, SeenOfTarget, ProxyConsistent, Frozen, Exists, KnownAbsent, Agrees, SameAttributes

\* A property made of a value and three flags is a data property.
LEMMA DataMade ==
    ASSUME NEW v \in Values, NEW w \in BOOLEAN, NEW e \in BOOLEAN, NEW c \in BOOLEAN
    PROVE  /\ Prop("data", v, Undefined, Undefined, w, e, c) \in SomeProp
           /\ Prop("data", v, Undefined, Undefined, w, e, c).t = "data"
  BY DEF SomeProp, Props, DataProps, Prop

\* Setting the property.
LEMMA SetCalls ==
    ASSUME PxInv, NEW t \in TrapAnswers(BOOLEAN), NEW v \in Values, PxSet(t, v)
    PROVE  PxInv'
  <1> USE Known
  <1> DEFINE r == js_proxy_set(t, v)
             p == pxSeen.prop
             q == pxTarget.prop
             new == IF Exists THEN Prop("data", v, Undefined, Undefined, q.w, q.e, q.c)
                    ELSE Prop("data", v, Undefined, Undefined, TRUE, TRUE, TRUE)
  <1>0. Frozen => /\ q.t = p.t /\ q.e = p.e /\ q.c = FALSE /\ p.c = FALSE
                  /\ p.w \in BOOLEAN /\ q.w \in BOOLEAN /\ (q.w => p.w)
                  /\ ReadOnly => p.v \in {NotSeen, q.v}
                  /\ p.t = "acc" => p.s \in {NotSeen, q.s}
    BY ZenonT(40), FrozenOfTarget DEF ReadOnly
  <1>01. ReadOnly => Frozen
    BY DEF ReadOnly, Frozen
  <1>02. Undefined # NotSeen
    BY DEF Undefined, NotSeen
  <1> USE <1>01, <1>02 DEF ReadOnly, Frozen
  <1>1. r = Yes => /\ ReadOnly => v = q.v /\ t # <<>>
                   /\ p.t = "acc" => p.s # Undefined
                   /\ t = <<>> /\ q.t = "data" => q.w
                   /\ t = <<>> /\ q.t = "none" => pxTarget.ext
    <2>0. ASSUME NEW b \in BOOLEAN PROVE <<b>> = Yes => b
      BY DEF Yes
    <2>1. CASE t = <<>>
      <3>1. r = <<TargetSets>> /\ TargetSets \in BOOLEAN
        BY <2>1, Zenon DEF js_proxy_set, NoTrap, TargetSets, Exists, PropOK
      <3>2. r = Yes => TargetSets
        BY <2>0, <3>1, Zenon
      <3>3. TargetSets => /\ ~ReadOnly
                          /\ p.t = "acc" => p.s # Undefined
                          /\ q.t = "data" => q.w
                          /\ q.t = "none" => pxTarget.ext
        BY <1>0 DEF TargetSets, Exists
      <3> HIDE DEF r, ReadOnly
      <3> QED BY <3>2, <3>3
    <2>2. CASE t = Yes /\ t[1] = TRUE
      BY <1>0, <2>2, YesIsNotNo DEF js_proxy_set, NoTrap, Throw
    <2>3. CASE t = No /\ t[1] = FALSE
      BY <2>3, YesIsNotNo, Zenon DEF js_proxy_set, NoTrap, Throw
    <2> QED BY ZenonT(40), <2>1, <2>2, <2>3, YesOrNo
  <1>2. pxSeen' = pxSeen \/ (r = Yes /\ ReadOnly /\ pxSeen' = [pxSeen EXCEPT !.prop.v = v])
    BY DEF PxSet, Learns, LearnsValue
  <1>3. pxVerdict' = "consistent"
    <2>1. r = Yes => /\ ReadOnly => p.v \in {NotSeen, v}
                     /\ p.t = "acc" => p.s # Undefined
      <3> HIDE DEF r
      <3> QED BY <1>0, <1>1
    <2> QED BY <2>1, Zenon DEF PxSet, Checked
  <1>4. pxTarget' = pxTarget \/ (t = <<>> /\ r = Yes /\ q.t # "acc" /\ pxTarget' = [pxTarget EXCEPT !.prop = new])
    BY Zenon DEF PxSet, NoTrap
  <1>6. CASE r = Yes /\ ReadOnly /\ pxSeen' = [pxSeen EXCEPT !.prop.v = v]
    <2>1. v = q.v /\ pxTarget' = pxTarget
      BY <1>1, <1>4, <1>6, Zenon
    <2> QED BY <1>3, <1>6, <2>1, ValueLearned
  <1>5. CASE /\ pxSeen' = pxSeen /\ t = <<>> /\ r = Yes /\ q.t # "acc"
             /\ pxTarget' = [pxTarget EXCEPT !.prop = new]
    <2>1. /\ q.t = "data" => new = Prop("data", v, Undefined, Undefined, q.w, q.e, q.c) /\ q.w
          /\ q.t # "data" => new = Prop("data", v, Undefined, Undefined, TRUE, TRUE, TRUE) /\ q.t = "none" /\ pxTarget.ext
          /\ q.t = "data" => Exists
      BY ZenonT(40), <1>1, <1>5 DEF Exists, PropOK
    <2> HIDE DEF new, r
    <2>2. new \in SomeProp /\ new.t = "data"
      <3>1. q.w \in BOOLEAN /\ q.e \in BOOLEAN /\ q.c \in BOOLEAN
        BY DEF PropOK
      <3>2. TRUE \in BOOLEAN
        OBVIOUS
      <3>3. CASE q.t = "data"
        <4>1. /\ Prop("data", v, Undefined, Undefined, q.w, q.e, q.c) \in SomeProp
              /\ Prop("data", v, Undefined, Undefined, q.w, q.e, q.c).t = "data"
          BY <3>1, DataMade
        <4> QED BY <2>1, <3>3, <4>1, Zenon
      <3>4. CASE q.t # "data"
        <4>1. /\ Prop("data", v, Undefined, Undefined, TRUE, TRUE, TRUE) \in SomeProp
              /\ Prop("data", v, Undefined, Undefined, TRUE, TRUE, TRUE).t = "data"
          BY ZenonT(40), <3>2, DataMade
        <4> QED BY <2>1, <3>4, <4>1, Zenon
      <3> QED BY <3>3, <3>4
    <2>3. KnownAbsent => FALSE
      BY ZenonT(40), <2>1 DEF PxInv, PxTypeOK, SeenOfTarget, Exists, KnownAbsent
    <2>4. Frozen => Agrees(pxSeen.prop, new)
      <3>1. CASE p.t = "data" /\ q.t = "data"
        <4>1. new.e = q.e /\ new.c = q.c
          BY <2>1, <3>1 DEF Prop
        <4>2. p.w
          BY <1>0, <2>1, <3>1
        <4> QED BY ZenonT(40), <1>0, <2>2, <3>1, <4>1, <4>2 DEF Agrees, SameAttributes
      <3>2. CASE ~(p.t = "data" /\ q.t = "data")
        BY ZenonT(40), <1>0, <1>5, <3>2 DEF Frozen, PropOK
      <3> QED BY <3>1, <3>2
    <2> QED BY <1>3, <1>5, <2>2, <2>3, <2>4, PropChanges
  <1> QED BY ZenonT(40), <1>2, <1>3, <1>4, <1>5, <1>6, QuietCalls

\* Deleting the property.
LEMMA DeleteCalls ==
    ASSUME PxInv, NEW t \in TrapAnswers(BOOLEAN), PxDelete(t)
    PROVE  PxInv'
  <1> USE Known
  <1> DEFINE r == js_proxy_delete_property(t)
  <1>0. Frozen => Exists /\ pxTarget.prop.c = FALSE
    BY DEF PxInv, PxTypeOK, SeenOfTarget, Agrees, SameAttributes, Exists, Frozen, PropOK
  <1>1. r = Yes => /\ ~Frozen
                   /\ t = <<>> \/ pxTarget.ext \/ ~Exists
    <2>0. ASSUME NEW b \in BOOLEAN PROVE <<b>> = Yes => b
      BY DEF Yes
    <2>1. CASE t = <<>>
      <3>1. r = <<~Exists \/ pxTarget.prop.c>> /\ (~Exists \/ pxTarget.prop.c) \in BOOLEAN
        BY <2>1, Zenon DEF js_proxy_delete_property, NoTrap
      <3>2. r = Yes => ~Exists \/ pxTarget.prop.c
        BY <2>0, <3>1, Zenon
      <3> QED BY <1>0, <2>1, <3>2
    <2>2. CASE t = Yes /\ t[1] = TRUE
      BY <1>0, <2>2, YesIsNotNo, Zenon DEF js_proxy_delete_property, NoTrap, Throw
    <2>3. CASE t = No /\ t[1] = FALSE
      BY <2>3, YesIsNotNo, Zenon DEF js_proxy_delete_property, NoTrap, Throw
    <2> QED BY ZenonT(40), <2>1, <2>2, <2>3, YesOrNo
  <1>2. pxVerdict' = "consistent"
    BY <1>1, Zenon DEF PxDelete, Checked
  <1>3. pxTarget' = IF t = <<>> /\ r = Yes THEN [pxTarget EXCEPT !.prop = Absent] ELSE pxTarget
    BY DEF PxDelete, NoTrap
  <1>4. pxSeen' = [pxSeen EXCEPT !.absent = @ \/ (r = Yes /\ ~pxSeen.ext)]
    BY DEF PxDelete, Learns
  <1> HIDE DEF r
  <1>5. /\ pxSeen'.prop = pxSeen.prop /\ pxSeen'.proto = pxSeen.proto /\ pxSeen'.ext = pxSeen.ext
        /\ pxSeen'.absent = (pxSeen.absent \/ (r = Yes /\ ~pxSeen.ext))
        /\ pxSeen' \in SeenRecords
    BY ZenonT(40), <1>4 DEF PxInv, PxTypeOK, SeenRecords
  <1>6. CASE t = <<>> /\ r = Yes
    <2>1. Absent \in SomeProp /\ Absent.t = "none"
      BY DEF SomeProp, Absent, Prop
    <2>2. /\ pxTarget'.prop = Absent /\ pxTarget'.ext = pxTarget.ext /\ pxTarget'.proto = pxTarget.proto
          /\ pxTarget' \in TargetRecords /\ pxTarget'.nested = pxTarget.nested
      BY <1>3, <1>6, <2>1, SMTT(30) DEF PxInv, PxTypeOK, TargetRecords
    <2> QED BY SMTT(30), <1>1, <1>2, <1>5, <1>6, <2>1, <2>2
            DEF PxInv, PxTypeOK, SeenOfTarget, ProxyConsistent, Frozen, Exists, KnownAbsent
  <1>7. CASE ~(t = <<>> /\ r = Yes)
    <2>1. pxTarget' = pxTarget
      BY <1>3, <1>7
    <2>2. r = Yes /\ ~pxSeen.ext => ~Exists
      BY <1>1, <1>7 DEF PxInv, SeenOfTarget
    <2> QED BY <1>2, <1>5, <2>1, <2>2
            DEF PxInv, PxTypeOK, SeenOfTarget, ProxyConsistent, Frozen, Exists, KnownAbsent, Agrees, SameAttributes
  <1> QED BY SMTT(30), <1>6, <1>7

\* A property of the target is one that may be seen.
LEMMA SeenIsWider ==
    ASSUME NEW q \in SomeProp
    PROVE  q \in SeenProps
  <1> USE FnsAssumption DEF SeenProps, Values
  <1>1. CASE q \in DataProps
    BY <1>1 DEF DataProps
  <1>2. CASE q \in AccProps
    BY ZenonT(40), <1>2 DEF AccProps
  <1>3. CASE q = Absent
    BY <1>3 DEF Absent, Prop
  <1> QED BY <1>1, <1>2, <1>3 DEF SomeProp, Props

\* What the checks of getOwnPropertyDescriptor leave through.
LEMMA DescriptorAnswers ==
    ASSUME PxInv, NEW t \in TrapAnswers({Absent} \cup Props),
           js_proxy_get_own_property(t) # <<>>
    PROVE  LET r == js_proxy_get_own_property(t)
               q == pxTarget.prop
           IN  \/ r[1] = Absent /\ (Exists => q.c /\ ExtensibleField)
               \/ t = <<>> /\ r[1] = q
               \/ /\ t # <<>> /\ r[1] \in Props /\ r[1].t # "none" /\ Exists
                  /\ q.c => r[1].c
                  /\ ~q.c => r[1].t = q.t /\ r[1].e = q.e /\ r[1].c = q.c /\ r[1].w = q.w
               \/ r[1].t # "none" /\ ~Exists /\ pxTarget.ext /\ r[1].c
  <1> USE Known
  <1> DEFINE r == js_proxy_get_own_property(t)
             q == pxTarget.prop
  <1>1. CASE t = <<>>
    BY ZenonT(40), <1>1 DEF js_proxy_get_own_property, NoTrap
  <1>2. CASE t = <<Absent>>
    <2>1. t[1].t = "none" /\ t[1] = Absent
      BY <1>2 DEF Absent, Prop
    <2> QED BY ZenonT(40), <1>2, <2>1 DEF js_proxy_get_own_property, NoTrap, Throw
  <1>3. ASSUME NEW x \in Props, t = <<x>>
        PROVE  /\ r[1] = x /\ x.t # "none"
               /\ Exists /\ q.c => x.c
               /\ Exists /\ ~q.c => x.t = q.t /\ x.e = q.e /\ x.c = q.c /\ x.w = q.w
               /\ ~Exists => pxTarget.ext /\ x.c
    <2>1. PropOK(x) /\ x.t # "none" /\ t[1] = x /\ t # <<>>
      BY ZenonT(40), <1>3, PropType DEF SomeProp, Props, DataProps, AccProps
    <2> DEFINE f == [has |-> IF x.t = "acc" THEN AllAcc ELSE AllData, p |-> x]
    <2>2. /\ r = t
          /\ Exists => check_define_prop_flags(q, f)
          /\ Exists \/ pxTarget.ext
          /\ x.c \/ (Exists /\ ~q.c)
          /\ ~(~x.c /\ x.t = "data" /\ ~x.w /\ Exists /\ q.w)
      BY <1>3, <2>1 DEF js_proxy_get_own_property, NoTrap, Throw
    <2>3. Exists /\ ~q.c => /\ ~x.c /\ x.e = q.e /\ (x.t = "acc") = (q.t = "acc")
                            /\ x.t # "acc" /\ ~q.w => ~x.w
      <3>1. /\ f.p = x /\ "c" \in f.has /\ "e" \in f.has
            /\ f.has \cap {"v", "w", "g", "s"} # {}
            /\ IsAccessor(f) = (x.t = "acc")
            /\ x.t # "acc" => "w" \in f.has
        BY ZenonT(40) DEF AllAcc, AllData, IsAccessor
      <3> HIDE DEF f
      <3> QED BY ZenonT(40), <2>2, <3>1 DEF check_define_prop_flags
    <2>4. Exists /\ ~q.c => x.t = q.t /\ x.c = q.c /\ x.w = q.w
      <3>1. Exists /\ ~q.c => x.t = q.t
        BY ZenonT(40), <2>1, <2>3 DEF PropOK, Exists
      <3>2. Exists /\ ~q.c => x.c = q.c
        BY ZenonT(40), <2>1, <2>3 DEF PropOK
      <3>3. Exists /\ ~q.c => x.w = q.w
        BY ZenonT(40), <2>1, <2>2, <2>3, <3>1 DEF PropOK, Exists
      <3> QED BY <3>1, <3>2, <3>3
    <2> HIDE DEF r
    <2> QED BY ZenonT(40), <2>1, <2>2, <2>3, <2>4
  <1>4. t = <<>> \/ t = <<Absent>> \/ \E x \in Props : t = <<x>>
    BY DEF TrapAnswers
  <1>5. ASSUME NEW x, t = <<x>> PROVE t # <<>>
    BY <1>5
  <1> HIDE DEF r
  <1> QED BY ZenonT(40), <1>1, <1>2, <1>3, <1>4, <1>5 DEF r

\* Asking for the descriptor.
LEMMA DescriptorCalls ==
    ASSUME PxInv, NEW t \in TrapAnswers({Absent} \cup Props), PxGetOwnProperty(t)
    PROVE  PxInv'
  <1> USE Known
  <1> DEFINE r == js_proxy_get_own_property(t)
             q == pxTarget.prop
             p == pxSeen.prop
  <1>0. Absent.t = "none" /\ Absent.c = FALSE
    BY DEF Absent, Prop
  <1>1. r # <<>> => \/ r[1] = Absent /\ (Exists => q.c /\ ExtensibleField)
                    \/ t = <<>> /\ r[1] = q
                    \/ /\ t # <<>> /\ r[1] \in Props /\ r[1].t # "none" /\ Exists
                       /\ q.c => r[1].c
                       /\ ~q.c => r[1].t = q.t /\ r[1].e = q.e /\ r[1].c = q.c /\ r[1].w = q.w
                    \/ r[1].t # "none" /\ ~Exists /\ pxTarget.ext /\ r[1].c
    BY ZenonT(40), DescriptorAnswers
  <1>2. pxTarget' = pxTarget
    BY DEF PxGetOwnProperty
  <1>3. pxVerdict' = "consistent"
    <2> HIDE DEF r
    <2>1. ASSUME r # <<>>, Frozen PROVE SameAttributes(p, r[1]) /\ (t = <<>> => Agrees(p, r[1]))
      <3>1. Agrees(p, q) /\ Exists /\ q.c = FALSE
        BY ZenonT(40), <2>1, FrozenOfTarget DEF PxInv, SeenOfTarget
      <3>2. CASE t = <<>> /\ r[1] = q
        BY <3>1, <3>2 DEF Agrees
      <3>3. CASE t # <<>> /\ r[1].t = q.t /\ r[1].e = q.e /\ r[1].c = q.c /\ r[1].w = q.w
        BY ZenonT(40), <3>1, <3>3 DEF Agrees, SameAttributes
      <3> QED BY ZenonT(40), <1>1, <2>1, <3>1, <3>2, <3>3
    <2>2. ASSUME r # <<>>, KnownAbsent PROVE r[1] = Absent
      <3>1. ~Exists /\ ~pxTarget.ext /\ q = Absent
        BY ZenonT(40), <2>2 DEF PxInv, PxTypeOK, SeenOfTarget, PropOK, Exists, KnownAbsent
      <3> QED BY ZenonT(40), <1>1, <2>2, <3>1
    <2> QED BY ZenonT(40), <2>1, <2>2 DEF PxGetOwnProperty, Checked, Throw, NoTrap, r
  <1>5. pxSeen' = IF r = <<>> THEN pxSeen
                  ELSE IF r[1] = Absent THEN [pxSeen EXCEPT !.absent = @ \/ ~pxSeen.ext]
                  ELSE IF ~r[1].c THEN [pxSeen EXCEPT !.prop = SeenAfter(t, r[1])]
                  ELSE pxSeen
    BY DEF PxGetOwnProperty, Learns, Throw
  <1> HIDE DEF r
  <1>6. CASE pxSeen' = pxSeen
    BY SMTT(30), <1>2, <1>3, <1>6, QuietCalls
  <1>7. CASE r # <<>> /\ r[1] = Absent /\ pxSeen' = [pxSeen EXCEPT !.absent = @ \/ ~pxSeen.ext]
    <2>1. /\ pxSeen'.prop = pxSeen.prop /\ pxSeen'.proto = pxSeen.proto /\ pxSeen'.ext = pxSeen.ext
          /\ pxSeen'.absent = (pxSeen.absent \/ ~pxSeen.ext)
          /\ pxSeen' \in SeenRecords
      BY ZenonT(40), <1>7 DEF PxInv, PxTypeOK, SeenRecords
    <2>2. ~pxSeen.ext => ~pxTarget.ext
      BY DEF PxInv, SeenOfTarget
    <2>3. ~pxSeen.ext /\ ~pxTarget.nested => ~Exists
      BY ZenonT(40), <1>0, <1>1, <1>7, <2>2 DEF ExtensibleField, Exists
    <2> QED BY <1>2, <1>3, <2>1, <2>3
            DEF PxInv, PxTypeOK, SeenOfTarget, ProxyConsistent, Frozen, Exists, KnownAbsent, Agrees, SameAttributes
  <1>8. CASE r # <<>> /\ r[1] # Absent /\ ~r[1].c /\ pxSeen' = [pxSeen EXCEPT !.prop = SeenAfter(t, r[1])]
    <2> DEFINE x == SeenAfter(t, r[1])
    <2>1. x \in SeenProps /\ x.t # "none" /\ ~x.c /\ Agrees(x, q)
      <3>1. CASE t = <<>> /\ r[1] = q
        <4>1. x = q
          BY <3>1, Zenon DEF SeenAfter, NoTrap
        <4>2. q.t # "none"
          BY ZenonT(40), <1>8, <3>1 DEF PropOK
        <4>3. Agrees(q, q)
          BY ZenonT(40) DEF Agrees, SameAttributes
        <4> HIDE DEF x
        <4> QED BY ZenonT(40), <1>8, <3>1, <4>1, <4>2, <4>3, SeenIsWider
      <3>2. CASE /\ t # <<>> /\ r[1] \in Props /\ r[1].t # "none" /\ Exists
                 /\ r[1].t = q.t /\ r[1].e = q.e /\ r[1].c = q.c /\ r[1].w = q.w
        <4>1. CASE Frozen /\ p.w = r[1].w
          <5>1. x = p
            BY <3>2, <4>1, Zenon DEF SeenAfter, NoTrap
          <5> HIDE DEF x
          <5> QED BY <4>1, <5>1, Zenon DEF PxInv, PxTypeOK, SeenOfTarget, Frozen
        <4>2. CASE ~(Frozen /\ p.w = r[1].w)
          <5>1. x = [r[1] EXCEPT !.v = NotSeen, !.g = NotSeen, !.s = NotSeen]
            BY <3>2, <4>2, Zenon DEF SeenAfter, NoTrap
          <5>2. r[1] \in SeenProps
            BY <3>2, SeenIsWider, Zenon DEF SomeProp
          <5> HIDE DEF x
          <5>3. /\ x \in SeenProps /\ x.t = r[1].t /\ x.e = r[1].e /\ x.c = r[1].c /\ x.w = r[1].w
                /\ x.v = NotSeen /\ x.g = NotSeen /\ x.s = NotSeen
            BY ZenonT(40), <5>1, <5>2 DEF SeenProps
          <5> QED BY ZenonT(40), <1>8, <3>2, <5>3 DEF Agrees, SameAttributes
        <4> QED BY <4>1, <4>2
      <3> HIDE DEF x
      <3> QED BY ZenonT(40), <1>1, <1>8, <3>1, <3>2
    <2> HIDE DEF x
    <2>2. /\ pxSeen'.prop = x /\ pxSeen'.proto = pxSeen.proto /\ pxSeen'.ext = pxSeen.ext
          /\ pxSeen'.absent = pxSeen.absent
          /\ pxSeen' \in SeenRecords
      BY <1>8, <2>1 DEF PxInv, PxTypeOK, SeenRecords, x
    <2> QED BY ZenonT(40), <1>2, <1>3, <2>1, <2>2
            DEF PxInv, PxTypeOK, SeenOfTarget, ProxyConsistent, Frozen, Exists, KnownAbsent
  <1> QED BY SMTT(30), <1>5, <1>6, <1>7, <1>8

\* Listing the keys.
LEMMA KeysCalls ==
    ASSUME PxInv,
           NEW t \in TrapAnswers({<<>>, <<"a">>, <<"z">>, <<"a", "z">>, <<"a", "a">>}), PxOwnKeys(t)
    PROVE  PxInv'
  <1> USE Known
  <1> DEFINE r == js_proxy_get_own_property_names(t)
             keys == {r[1][i] : i \in DOMAIN r[1]}
  <1>0. Frozen => Exists /\ pxTarget.prop.c = FALSE
    BY DEF PxInv, PxTypeOK, SeenOfTarget, Agrees, SameAttributes, Exists, Frozen, PropOK
  <1>1. r # <<>> => /\ Cardinality(keys) = Len(r[1])
                    /\ Exists /\ (~pxTarget.prop.c \/ ~pxTarget.ext) => "a" \in keys
                    /\ ~Exists /\ (t = <<>> \/ ~pxTarget.ext) => "a" \notin keys
                    /\ ~pxTarget.ext => "z" \notin keys
    <2>1. CASE t = <<>>
      <3>1. CASE Exists
        <4>1. r = << <<"a">> >>
          BY <2>1, <3>1 DEF js_proxy_get_own_property_names, NoTrap
        <4> HIDE DEF r
        <4>2. keys = {"a"} /\ Len(r[1]) = 1
          BY <4>1
        <4> QED BY ZenonT(40), <3>1, <4>2, FS_Singleton
      <3>2. CASE ~Exists
        <4>1. r = << <<>> >>
          BY <2>1, <3>2 DEF js_proxy_get_own_property_names, NoTrap
        <4> HIDE DEF r
        <4>2. keys = {} /\ Len(r[1]) = 0
          BY <4>1
        <4> QED BY ZenonT(40), <3>2, <4>2, FS_EmptySet
      <3> QED BY <3>1, <3>2
    <2>2. CASE t # <<>>
      <3>1. r # <<>> => /\ r = t
                        /\ Cardinality({t[1][i] : i \in DOMAIN t[1]}) = Len(t[1])
                        /\ ~(Exists /\ (~pxTarget.prop.c \/ ~pxTarget.ext) /\ "a" \notin {t[1][i] : i \in DOMAIN t[1]})
                        /\ ~(~pxTarget.ext /\ \E k \in {t[1][i] : i \in DOMAIN t[1]} : k # "a" \/ ~Exists)
        BY <2>2 DEF js_proxy_get_own_property_names, NoTrap, Throw
      <3> HIDE DEF r
      <3> QED BY ZenonT(40), <2>2, <3>1
    <2> QED BY <2>1, <2>2
  <1>2. pxVerdict' = "consistent"
    <2> HIDE DEF r
    <2>1. /\ KnownAbsent => ~Exists /\ ~pxTarget.ext
          /\ ~pxSeen.ext => ~pxTarget.ext
      BY DEF PxInv, PxTypeOK, SeenOfTarget, KnownAbsent
    <2> QED BY <1>0, <1>1, <2>1 DEF PxOwnKeys, Checked, Throw, r
  <1>3. pxTarget' = pxTarget
    BY DEF PxOwnKeys
  <1>4. pxSeen' = IF r # <<>> /\ ~pxSeen.ext /\ "a" \notin keys
                  THEN [pxSeen EXCEPT !.absent = TRUE] ELSE pxSeen
    BY DEF PxOwnKeys, Learns, Throw
  <1> HIDE DEF r, keys
  <1>5. CASE pxSeen' = pxSeen
    BY <1>2, <1>3, <1>5, QuietCalls
  <1>6. CASE r # <<>> /\ ~pxSeen.ext /\ "a" \notin keys /\ pxSeen' = [pxSeen EXCEPT !.absent = TRUE]
    <2>1. /\ pxSeen'.prop = pxSeen.prop /\ pxSeen'.proto = pxSeen.proto /\ pxSeen'.ext = pxSeen.ext
          /\ pxSeen'.absent = TRUE
          /\ pxSeen' \in SeenRecords
      BY ZenonT(40), <1>6 DEF PxInv, PxTypeOK, SeenRecords
    <2>2. ~Exists
      BY <1>1, <1>6 DEF PxInv, SeenOfTarget
    <2> QED BY <1>2, <1>3, <1>6, <2>1, <2>2
            DEF PxInv, PxTypeOK, SeenOfTarget, ProxyConsistent, Frozen, Exists, KnownAbsent, Agrees, SameAttributes
  <1> QED BY SMTT(30), <1>4, <1>5, <1>6

\* A definition that changes nothing frozen of the frozen property q.
Compatible(q, d) ==
    /\ "c" \in d.has => ~d.p.c
    /\ "e" \in d.has => d.p.e = q.e
    /\ IsAccessor(d) => /\ q.t = "acc"
                        /\ "g" \in d.has => d.p.g = q.g
                        /\ "s" \in d.has => d.p.s = q.s
    /\ "v" \in d.has \/ "w" \in d.has => q.t = "data"
    /\ q.t = "data" /\ ~q.w => /\ "v" \in d.has => d.p.v = q.v
                               /\ "w" \in d.has => ~d.p.w

\* What a descriptor with all fields defines has the fields of the descriptor.
LEMMA DefinedFields ==
    ASSUME NEW p, NEW d
    PROVE  /\ Defined(p, d) = Prop(Defined(p, d).t, Defined(p, d).v, Defined(p, d).g, Defined(p, d).s,
                                   Defined(p, d).w, Defined(p, d).e, Defined(p, d).c)
           /\ Defined(p, d).e = IF "e" \in d.has THEN d.p.e ELSE p.e
           /\ Defined(p, d).c = IF "c" \in d.has THEN d.p.c ELSE p.c
           /\ Defined(p, d).t = IF IsAccessor(d) THEN "acc"
                                ELSE IF d.has \cap {"v", "w"} # {} \/ p.t = "none" THEN "data"
                                ELSE p.t
           /\ Defined(p, d).t = p.t =>
                /\ Defined(p, d).v = IF "v" \in d.has THEN d.p.v ELSE p.v
                /\ Defined(p, d).w = IF "w" \in d.has THEN d.p.w ELSE p.w
                /\ Defined(p, d).g = IF "g" \in d.has THEN d.p.g ELSE p.g
                /\ Defined(p, d).s = IF "s" \in d.has THEN d.p.s ELSE p.s
  BY ZenonT(40) DEF Defined, Prop

\* What was seen agrees with itself after a compatible definition.
LEMMA FrozenTakes ==
    ASSUME NEW p \in SeenProps, NEW q \in SomeProp, p.t # "none", ~p.c, ~q.c, Agrees(p, q),
           NEW d \in Descs, Compatible(q, d)
    PROVE  Agrees(p, Defined(p, d))
  <1> DEFINE x == Defined(p, d)
  <1>0. /\ PropOK(q) /\ DescOK(d) /\ q.t = p.t /\ q.e = p.e /\ p.c = FALSE /\ (q.w => p.w)
        /\ p.w \in BOOLEAN
    <2>1. PropOK(q) /\ DescOK(d)
      BY PropType, DescType
    <2>2. p.c \in BOOLEAN /\ p.w \in BOOLEAN
      BY DEF SeenProps
    <2> QED BY <2>1, <2>2, Zenon DEF Agrees, SameAttributes
  <1>1. x.t = p.t
    <2>1. x.t = IF IsAccessor(d) THEN "acc"
                ELSE IF d.has \cap {"v", "w"} # {} \/ p.t = "none" THEN "data" ELSE p.t
      BY DefinedFields
    <2> HIDE DEF x
    <2> QED BY <1>0, <2>1, SMTT(30) DEF Compatible
  <1>2. x.e = p.e /\ x.c = p.c
    <2>1. x.e = (IF "e" \in d.has THEN d.p.e ELSE p.e) /\ x.c = (IF "c" \in d.has THEN d.p.c ELSE p.c)
      BY DefinedFields
    <2> HIDE DEF x
    <2> QED BY ZenonT(40), <1>0, <2>1 DEF Compatible, DescOK
  <1>3. /\ x.v = IF "v" \in d.has THEN d.p.v ELSE p.v
        /\ x.w = IF "w" \in d.has THEN d.p.w ELSE p.w
        /\ x.g = IF "g" \in d.has THEN d.p.g ELSE p.g
        /\ x.s = IF "s" \in d.has THEN d.p.s ELSE p.s
    BY ZenonT(40), <1>1, DefinedFields
  <1> HIDE DEF x
  <1>4. x.w => p.w
    <2>1. "w" \in d.has /\ ~p.w => ~d.p.w
      BY ZenonT(40), <1>0 DEF Compatible
    <2> QED BY ZenonT(40), <1>3, <2>1
  <1>5. p.t = "data" /\ ~p.w => p.v \in {NotSeen, x.v}
    <2>1. p.t = "data" /\ ~p.w => p.v \in {NotSeen, q.v} /\ ("v" \in d.has => d.p.v = q.v)
      BY ZenonT(40), <1>0 DEF Compatible, Agrees
    <2> QED BY <1>3, <2>1
  <1>6. p.t = "acc" => p.g \in {NotSeen, x.g} /\ p.s \in {NotSeen, x.s}
    <2>1. p.t = "acc" => /\ p.g \in {NotSeen, q.g} /\ p.s \in {NotSeen, q.s}
                         /\ "g" \in d.has => d.p.g = q.g
                         /\ "s" \in d.has => d.p.s = q.s
      BY <1>0 DEF Compatible, Agrees, IsAccessor
    <2> QED BY <1>3, <2>1
  <1> QED BY ZenonT(40), <1>1, <1>2, <1>4, <1>5, <1>6 DEF Agrees, SameAttributes, x

\* A definition the target accepts for a property that is not configurable.
LEMMA AcceptedCompatible ==
    ASSUME PxInv, NEW d \in Descs, Exists, ~pxTarget.prop.c, MayDefine(pxTarget, d)
    PROVE  Compatible(pxTarget.prop, d)
  <1> DEFINE q == pxTarget.prop
             x == Defined(q, d)
  <1>0. PropOK(q) /\ DescOK(d)
    BY Known, DescType
  <1>1. x = q \/ (q.t = "data" /\ q.w /\ x.t = "data" /\ x.e = q.e /\ ~x.c)
    BY DEF MayDefine, Exists
  <1>2. x.t = q.t /\ x.e = q.e /\ ~x.c /\ (x = q \/ (q.t = "data" /\ q.w))
    BY <1>1
  <1>3. /\ x.e = (IF "e" \in d.has THEN d.p.e ELSE q.e) /\ x.c = (IF "c" \in d.has THEN d.p.c ELSE q.c)
        /\ x.t = IF IsAccessor(d) THEN "acc"
                 ELSE IF d.has \cap {"v", "w"} # {} \/ q.t = "none" THEN "data" ELSE q.t
        /\ x.v = IF "v" \in d.has THEN d.p.v ELSE q.v
        /\ x.w = IF "w" \in d.has THEN d.p.w ELSE q.w
        /\ x.g = IF "g" \in d.has THEN d.p.g ELSE q.g
        /\ x.s = IF "s" \in d.has THEN d.p.s ELSE q.s
    <2>1. /\ x.e = (IF "e" \in d.has THEN d.p.e ELSE q.e) /\ x.c = (IF "c" \in d.has THEN d.p.c ELSE q.c)
          /\ x.t = IF IsAccessor(d) THEN "acc"
                   ELSE IF d.has \cap {"v", "w"} # {} \/ q.t = "none" THEN "data" ELSE q.t
      BY SMTT(30), DefinedFields
    <2>2. x.t = q.t => /\ x.v = IF "v" \in d.has THEN d.p.v ELSE q.v
                       /\ x.w = IF "w" \in d.has THEN d.p.w ELSE q.w
                       /\ x.g = IF "g" \in d.has THEN d.p.g ELSE q.g
                       /\ x.s = IF "s" \in d.has THEN d.p.s ELSE q.s
      BY SMTT(30), DefinedFields
    <2> HIDE DEF x
    <2> QED BY <1>2, <2>1, <2>2, Zenon
  <1> HIDE DEF x
  <1>4. /\ "c" \in d.has => ~d.p.c
        /\ "e" \in d.has => d.p.e = q.e
        /\ IsAccessor(d) => q.t = "acc"
        /\ "v" \in d.has \/ "w" \in d.has => q.t = "data"
    BY <1>0, <1>2, <1>3, SMTT(30) DEF DescOK
  <1>5. x = q => /\ "g" \in d.has => d.p.g = q.g
                 /\ "s" \in d.has => d.p.s = q.s
                 /\ "v" \in d.has => d.p.v = q.v
    BY <1>3
  <1>6. x = q /\ ~q.w => ("w" \in d.has => ~d.p.w)
    BY <1>0, <1>3 DEF DescOK, PropOK
  <1> QED BY <1>2, <1>4, <1>5, <1>6 DEF Compatible

\* A full definition is the property it defines.
LEMMA FullDefinition ==
    ASSUME NEW d \in Descs, NEW p \in SomeProp, d.has \in {AllData, AllAcc}
    PROVE  d.p \in SomeProp /\ d.p.t # "none" /\ Defined(p, d) = d.p
  <1>1. (d.has = AllData /\ d.p \in DataProps) \/ (d.has = AllAcc /\ d.p \in AccProps)
    <2>1. "e" \in d.has
      BY DEF AllData, AllAcc
    <2>2. \/ \E x \in DataProps : d = Desc(AllData, x)
          \/ \E x \in AccProps : d = Desc(AllAcc, x)
          \/ \E S \in {{"v"}, {"w"}, {"c"}, {"g"}} : \E x : d = Desc(S, x)
      BY Zenon DEF Descs
    <2>3. ASSUME NEW S \in {{"v"}, {"w"}, {"c"}, {"g"}}, NEW x, d = Desc(S, x) PROVE FALSE
      BY <2>1, <2>3 DEF Desc
    <2>4. ASSUME NEW S, NEW x, d = Desc(S, x) PROVE d.has = S /\ d.p = x
      BY <2>4 DEF Desc
    <2> QED BY <2>2, <2>3, <2>4, Zenon
  <1>2. CASE d.has = AllData /\ d.p \in DataProps
    <2>1. ~IsAccessor(d) /\ d.has \cap {"v", "w"} # {} /\ "g" \notin d.has /\ "s" \notin d.has
          /\ "v" \in d.has /\ "w" \in d.has /\ "e" \in d.has /\ "c" \in d.has
      BY <1>2 DEF AllData, IsAccessor
    <2>2. d.p.g = Undefined /\ d.p.s = Undefined /\ d.p.t = "data"
      BY <1>2 DEF DataProps
    <2>3. p.t = "data" => p.g = Undefined /\ p.s = Undefined
      BY ZenonT(40), PropType DEF PropOK, Absent, Prop
    <2>4. Defined(p, d) = Prop("data", d.p.v, Undefined, Undefined, d.p.w, d.p.e, d.p.c)
      BY <2>1, <2>3, SMTT(30) DEF Defined
    <2>5. d.p = Prop("data", d.p.v, Undefined, Undefined, d.p.w, d.p.e, d.p.c)
      BY <1>2 DEF DataProps, Prop
    <2> QED BY <1>2, <2>2, <2>4, <2>5 DEF SomeProp, Props
  <1>3. CASE d.has = AllAcc /\ d.p \in AccProps
    <2>1. IsAccessor(d) /\ "v" \notin d.has /\ "w" \notin d.has
          /\ "g" \in d.has /\ "s" \in d.has /\ "e" \in d.has /\ "c" \in d.has
      BY <1>3 DEF AllAcc, IsAccessor
    <2>2. d.p.t = "acc"
      BY ZenonT(40), <1>3 DEF AccProps
    <2>3. p.t = "acc" => p.v = Undefined /\ p.w = FALSE
      BY ZenonT(40), PropType DEF PropOK, Absent, Prop
    <2>4. Defined(p, d) = Prop("acc", Undefined, d.p.g, d.p.s, FALSE, d.p.e, d.p.c)
      BY <2>1, <2>3, Zenon DEF Defined
    <2>5. d.p = Prop("acc", Undefined, d.p.g, d.p.s, FALSE, d.p.e, d.p.c)
      BY ZenonT(40), <1>3 DEF AccProps, Prop
    <2> QED BY ZenonT(40), <1>3, <2>2, <2>4, <2>5 DEF SomeProp, Props
  <1> QED BY <1>1, <1>2, <1>3

\* What the checks of defineProperty leave through.
LEMMA DefineAnswers ==
    ASSUME PxInv, NEW t \in TrapAnswers(BOOLEAN), NEW d \in Descs,
           js_proxy_define_own_property(t, d) = Yes
    PROVE  \/ t = <<>> /\ MayDefine(pxTarget, d)
           \/ ~Exists /\ ExtensibleField /\ ~SettingNotConfigurable(d)
           \/ /\ Exists /\ ~pxTarget.prop.c /\ Compatible(pxTarget.prop, d)
              /\ "w" \in d.has /\ pxTarget.prop.t = "data" => ~pxTarget.prop.w
           \/ Exists /\ pxTarget.prop.c /\ ~SettingNotConfigurable(d)
  <1> DEFINE q == pxTarget.prop
  <1> USE Known, DescType, YesIsNotNo
  <1>1. CASE t = <<>>
    <2>1. ASSUME NEW b \in BOOLEAN PROVE <<b>> = Yes => b
      BY DEF Yes
    <2>2. MayDefine(pxTarget, d) \in BOOLEAN
      BY Zenon DEF MayDefine, PropOK
    <2> QED BY <1>1, <2>1, <2>2, Zenon DEF js_proxy_define_own_property, NoTrap
  <1>2. CASE t = No /\ t[1] = FALSE
    BY <1>2, Zenon DEF js_proxy_define_own_property, NoTrap
  <1>3. CASE t = Yes /\ t[1] = TRUE
    <2>1. CASE ~Exists
      BY <1>3, <2>1, Zenon DEF js_proxy_define_own_property, NoTrap, Throw
    <2>2. CASE Exists
      <3>1. /\ check_define_prop_flags(q, d)
            /\ ~(q.c /\ SettingNotConfigurable(d))
            /\ ~(/\ IsAccessor(d) /\ q.t = "acc" /\ ~q.c
                 /\ \/ "g" \in d.has /\ d.p.g # q.g
                    \/ "s" \in d.has /\ d.p.s # q.s)
            /\ ~(/\ ~IsAccessor(d) /\ "v" \in d.has
                 /\ \/ ~q.c /\ q.w /\ ~d.p.w
                    \/ ~q.c /\ ~q.w /\ d.p.v # q.v)
            /\ ~("w" \in d.has /\ q.t = "data" /\ ~q.c /\ q.w)
        BY <1>3, <2>2, Zenon DEF js_proxy_define_own_property, NoTrap, Throw
      <3>2. CASE q.c
        BY ZenonT(40), <2>2, <3>1, <3>2
      <3>3. CASE ~q.c
        <4>1. /\ ~("c" \in d.has /\ d.p.c)
              /\ "e" \in d.has => d.p.e = q.e
              /\ d.has \cap {"v", "w", "g", "s"} # {} =>
                   /\ IsAccessor(d) = (q.t = "acc")
                   /\ ~IsAccessor(d) /\ ~q.w => ~("w" \in d.has /\ d.p.w)
          BY ZenonT(40), <3>1, <3>3 DEF check_define_prop_flags
        <4>2. /\ IsAccessor(d) => d.has \cap {"v", "w", "g", "s"} # {}
              /\ "v" \in d.has \/ "w" \in d.has => d.has \cap {"v", "w", "g", "s"} # {} /\ ~IsAccessor(d)
          BY DEF IsAccessor, DescOK
        <4>3. q.t = "data" \/ q.t = "acc"
          BY ZenonT(40), <2>2 DEF Exists, PropOK
        <4>4. Compatible(q, d)
          BY ZenonT(40), <3>1, <3>3, <4>1, <4>2, <4>3 DEF Compatible, DescOK
        <4> QED BY ZenonT(40), <2>2, <3>1, <3>3, <4>4
      <3> QED BY <3>2, <3>3
    <2> QED BY <2>1, <2>2
  <1> QED BY ZenonT(40), <1>1, <1>2, <1>3, YesOrNo

\* Defining the property.
LEMMA DefineCalls ==
    ASSUME PxInv, NEW t \in TrapAnswers(BOOLEAN), NEW d \in Descs,
           PxDefineOwnProperty(t, d)
    PROVE  PxInv'
  <1> USE Known
  <1> DEFINE r == js_proxy_define_own_property(t, d)
             q == pxTarget.prop
             p == pxSeen.prop
             full == SettingNotConfigurable(d) /\ d.has \in {AllData, AllAcc}
  <1>0. /\ Frozen => Exists /\ ~q.c /\ ~p.c /\ Agrees(p, q)
        /\ KnownAbsent => ~Exists /\ ~ExtensibleField
    <2>1. Frozen => Exists /\ ~q.c /\ ~p.c /\ Agrees(p, q)
      BY ZenonT(40), FrozenOfTarget DEF PxInv, SeenOfTarget
    <2>2. KnownAbsent => ~Exists /\ ~ExtensibleField
      BY ZenonT(40) DEF PxInv, PxTypeOK, SeenOfTarget, KnownAbsent, ExtensibleField
    <2> QED BY <2>1, <2>2
  <1>1. r = Yes => (Frozen => Agrees(p, Defined(p, d))) /\ ~KnownAbsent
    <2> SUFFICES ASSUME r = Yes PROVE (Frozen => Agrees(p, Defined(p, d))) /\ ~KnownAbsent
      OBVIOUS
    <2>1. Frozen => Compatible(q, d)
      BY ZenonT(40), <1>0, DefineAnswers, AcceptedCompatible
    <2>2. Frozen => Agrees(p, Defined(p, d))
      BY SMTT(30), <1>0, <2>1, FrozenTakes DEF Frozen
    <2>3. MayDefine(pxTarget, d) => Exists \/ ExtensibleField
      BY SMTT(30) DEF MayDefine, Exists, ExtensibleField
    <2>4. Exists \/ ExtensibleField
      BY <2>3, DefineAnswers
    <2> QED BY <1>0, <2>2, <2>4
  <1>2. pxVerdict' = "consistent"
    BY <1>1, Zenon DEF PxDefineOwnProperty, Checked
  <1>3. /\ pxTarget' = (IF t = <<>> /\ r = Yes THEN [pxTarget EXCEPT !.prop = Defined(pxTarget.prop, d)]
                        ELSE pxTarget)
        /\ pxSeen' = (IF r = Yes /\ full THEN [pxSeen EXCEPT !.prop = d.p] ELSE pxSeen)
    BY DEF PxDefineOwnProperty, Learns, NoTrap
  <1>4. r = Yes /\ t = <<>> => MayDefine(pxTarget, d)
    <2>1. ASSUME NEW b \in BOOLEAN PROVE <<b>> = Yes => b
      BY DEF Yes
    <2>2. MayDefine(pxTarget, d) \in BOOLEAN
      BY Zenon DEF MayDefine, PropOK
    <2> QED BY <2>1, <2>2, Zenon DEF js_proxy_define_own_property, NoTrap
  <1>5. r = Yes /\ full /\ t # <<>> => Agrees(d.p, q) /\ Exists
    <2> SUFFICES ASSUME r = Yes, full, t # <<>> PROVE Agrees(d.p, q) /\ Exists
      BY SMTT(30)
    <2>1. /\ Exists /\ ~q.c /\ Compatible(q, d)
          /\ "w" \in d.has /\ q.t = "data" => ~q.w
      BY DefineAnswers
    <2> HIDE DEF r
    <2>2. d.p \in SomeProp /\ d.p.t # "none" /\ Defined(q, d) = d.p /\ ~d.p.c
      BY FullDefinition DEF SettingNotConfigurable
    <2>3. /\ PropOK(d.p) /\ PropOK(q)
      BY <2>2, PropType
    <2>4. CASE d.has = AllData
      <3>1. "v" \in d.has /\ "w" \in d.has /\ "e" \in d.has
        BY <2>4 DEF AllData
      <3>2. q.t = "data" /\ ~q.w /\ d.p.v = q.v /\ d.p.e = q.e
        BY ZenonT(40), <2>1, <3>1 DEF Compatible
      <3>3. d.p.t = "data"
        <4>1. Defined(q, d).t = "data"
          BY <2>4 DEF Defined, Prop, AllData, IsAccessor
        <4> QED BY <2>2, <4>1
      <3> QED BY ZenonT(40), <2>1, <2>2, <2>3, <3>2, <3>3 DEF Agrees, SameAttributes, PropOK
    <2>5. CASE d.has = AllAcc
      <3>1. IsAccessor(d) /\ "g" \in d.has /\ "s" \in d.has /\ "e" \in d.has
        BY <2>5 DEF AllAcc, IsAccessor
      <3>2. q.t = "acc" /\ d.p.g = q.g /\ d.p.s = q.s /\ d.p.e = q.e
        BY ZenonT(40), <2>1, <3>1 DEF Compatible
      <3>3. d.p.t = "acc"
        <4>1. Defined(q, d).t = "acc"
          BY <3>1 DEF Defined, Prop
        <4> QED BY <2>2, <4>1, SMTT(30)
      <3> QED BY ZenonT(40), <2>1, <2>2, <2>3, <3>2, <3>3 DEF Agrees, SameAttributes, PropOK
    <2> QED BY <2>1, <2>4, <2>5
  <1> HIDE DEF r, full
  <1>6. CASE t = <<>> /\ r = Yes
    <2>1. /\ Defined(q, d) \in SomeProp /\ Defined(q, d).t # "none"
          /\ Frozen => Agrees(p, Defined(q, d))
          /\ ~KnownAbsent
      BY <1>4, <1>6, DefinitionKeepsSeen DEF PxInv
    <2>2. pxTarget' = [pxTarget EXCEPT !.prop = Defined(q, d)]
      BY <1>3, <1>6
    <2>3. CASE ~full
      <3>1. pxSeen' = pxSeen
        BY <1>3, <2>3
      <3> QED BY <1>2, <2>1, <2>2, <3>1, PropChanges
    <2>4. CASE full
      <3>1. d.p \in SomeProp /\ d.p.t # "none" /\ Defined(q, d) = d.p /\ ~d.p.c
        BY <2>4, FullDefinition DEF full, SettingNotConfigurable
      <3>2. /\ pxSeen'.prop = d.p /\ pxSeen'.proto = pxSeen.proto /\ pxSeen'.ext = pxSeen.ext
            /\ pxSeen'.absent = pxSeen.absent
            /\ pxSeen' \in SeenRecords
        BY <1>3, <1>6, <2>4, <3>1, SeenIsWider DEF PxInv, PxTypeOK, SeenRecords
      <3>3. /\ pxTarget'.prop = d.p /\ pxTarget'.ext = pxTarget.ext /\ pxTarget'.proto = pxTarget.proto
            /\ pxTarget' \in TargetRecords /\ pxTarget'.nested = pxTarget.nested
        BY <2>2, <3>1 DEF PxInv, PxTypeOK, TargetRecords
      <3> QED BY ZenonT(40), <1>2, <2>1, <3>1, <3>2, <3>3
              DEF PxInv, PxTypeOK, SeenOfTarget, ProxyConsistent, Frozen, Exists, KnownAbsent, Agrees, SameAttributes
    <2> QED BY SMTT(30), <2>3, <2>4
  <1>7. CASE ~(t = <<>> /\ r = Yes)
    <2>1. pxTarget' = pxTarget
      BY <1>3, <1>7
    <2>2. CASE ~(r = Yes /\ full)
      <3>1. pxSeen' = pxSeen
        BY <1>3, <2>2
      <3> QED BY <1>2, <2>1, <3>1, QuietCalls
    <2>3. CASE r = Yes /\ full
      <3>1. d.p \in SomeProp /\ d.p.t # "none" /\ Agrees(d.p, q) /\ Exists /\ ~d.p.c
        BY <1>5, <1>7, <2>3, FullDefinition DEF full, SettingNotConfigurable
      <3>2. /\ pxSeen'.prop = d.p /\ pxSeen'.proto = pxSeen.proto /\ pxSeen'.ext = pxSeen.ext
            /\ pxSeen'.absent = pxSeen.absent
            /\ pxSeen' \in SeenRecords
        BY <1>3, <2>3, <3>1, SeenIsWider DEF PxInv, PxTypeOK, SeenRecords
      <3> QED BY ZenonT(40), <1>2, <2>1, <3>1, <3>2
              DEF PxInv, PxTypeOK, SeenOfTarget, ProxyConsistent, Frozen, Exists, KnownAbsent
    <2> QED BY <2>2, <2>3
  <1> QED BY SMTT(30), <1>6, <1>7

\* A proxy does not contradict what a program learned through it, whatever
\* its traps answer, whatever happens to the target meanwhile, and also when
\* the target is a second proxy without traps.  What a program learns is as
\* the code compares it: the value and the accessors in a descriptor that a
\* trap returns teach nothing (js_proxy_get_own_property does not compare
\* them), and absence counts over an ordinary object only.  The inductive
\* invariant is PxInv: what was seen through the proxy is true of the target
\* (SeenOfTarget), so that the comparison with the target is a comparison
\* with what was seen.
THEOREM ProxyNeverContradicts == PxSpec => [](ProxyConsistent /\ SeenOfTarget)
  <1>1. PxInit => PxInv
    <2> SUFFICES ASSUME PxInit PROVE PxInv
      OBVIOUS
    <2>1. Absent \in SomeProp /\ Absent.t = "none"
      BY DEF SomeProp, Absent, Prop
    <2>2. /\ pxTarget \in TargetRecords
          /\ pxTarget.prop = Absent
      BY ZenonT(40), <2>1 DEF PxInit, TargetRecords
    <2>3. /\ pxSeen \in SeenRecords
          /\ pxSeen.prop = Absent /\ pxSeen.absent = FALSE /\ pxSeen.ext = TRUE /\ pxSeen.proto = NotSeen
      BY <2>1, SeenIsWider DEF PxInit, SeenRecords
    <2> QED BY <2>1, <2>2, <2>3
            DEF PxInit, PxInv, PxTypeOK, SeenOfTarget, ProxyConsistent, Frozen, Exists, KnownAbsent
  <1>2. PxInv /\ [PxNext]_pxVars => PxInv'
    <2> SUFFICES ASSUME PxInv, [PxNext]_pxVars PROVE PxInv'
      OBVIOUS
    <2>1. CASE PxTargetDefined \/ PxTargetDeleted \/ PxTargetClosed \/ PxTargetProto
      BY <2>1, TargetSteps
    <2>2. CASE PxCall
      BY <2>2, ObjectCalls, ReadCalls, SetCalls, DescriptorCalls, DefineCalls, DeleteCalls, KeysCalls,
         Zenon DEF PxCall
    <2>3. CASE js_proxy_revoke \/ UNCHANGED pxVars
      BY <2>3, QuietCalls DEF js_proxy_revoke, pxVars, PxInv, ProxyConsistent
    <2> QED BY <2>1, <2>2, <2>3, Zenon DEF PxNext
  <1>3. PxInv => ProxyConsistent /\ SeenOfTarget
    BY DEF PxInv
  <1> QED BY <1>1, <1>2, <1>3, PTL DEF PxSpec
=============================================================================
